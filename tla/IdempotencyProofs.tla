-------------------------- MODULE IdempotencyProofs --------------------------
(***************************************************************************)
(* The safety of idempotency keys, by themselves and around the handler of *)
(* Capture, for any number of calls, keys and faults and any TTL of more   *)
(* than twice the duration of a call.                                      *)
(***************************************************************************)
EXTENDS KeyedCapture, TLAPS

\* Every step keeps the types.
LEMMA TypeStep == TypeOK /\ [Next]_vars => TypeOK'
<1> SUFFICES ASSUME TypeOK, [Next]_vars PROVE TypeOK'
  OBVIOUS
<1> USE IdempotencyAssumption DEF TypeOK, Step
<1>1. CASE UNCHANGED vars
  BY <1>1 DEF vars
<1>2. ASSUME NEW c \in Callers, NEW k \in Keys, Begin(c, k) PROVE TypeOK'
  BY <1>2 DEF Begin, At
<1>3. ASSUME NEW c \in Callers, LookupResponse(c) PROVE TypeOK'
  <2>1. CASE Found(call[c].key)
    BY <1>3, <2>1 DEF LookupResponse, Returns
  <2>2. CASE ~Found(call[c].key)
    BY <1>3, <2>2 DEF LookupResponse, Goes
  <2> QED
    BY <2>1, <2>2
<1>4. ASSUME NEW c \in Callers, Claim(c) PROVE TypeOK'
  BY <1>4 DEF Claim, TakeClaim, At, Goes
<1>5. ASSUME NEW c \in Callers, Conflict(c) PROVE TypeOK'
  BY <1>5 DEF Conflict, At, Returns
<1>6. ASSUME NEW c \in Callers, Handle(c) PROVE TypeOK'
  BY <1>6 DEF Handle, At, Goes
<1>7. ASSUME NEW c \in Callers, StoreResponse(c) PROVE TypeOK'
  BY <1>7 DEF StoreResponse, PutResponse, At, Returns
<1>8. ASSUME NEW c \in Callers, StoreFails(c) PROVE TypeOK'
  BY <1>8 DEF StoreFails, Fault, CountFault, TakeClaim, At, Returns
<1>9. ASSUME NEW c \in Callers, ResponseLost(c) PROVE TypeOK'
  BY <1>9 DEF ResponseLost, Fault, CountFault, At, Returns
<1>10. ASSUME NEW c \in Callers, Crash(c) PROVE TypeOK'
  BY <1>10 DEF Crash, Fault, CountFault, At, Returns
<1>11. CASE Tick
  BY <1>11 DEF Tick, Shorter, At
<1>12. ASSUME NEW c \in Callers, Panic(c) PROVE TypeOK'
  BY <1>12 DEF Panic, CountFault, At, Returns
<1>13. ASSUME NEW c \in Callers, AnswerUnstored(c) PROVE TypeOK'
  BY <1>13 DEF AnswerUnstored, Fault, CountFault, At, Returns
<1> QED
  BY <1>1, <1>2, <1>3, <1>4, <1>5, <1>6, <1>7, <1>8, <1>9, <1>10, <1>11, <1>12, <1>13
     DEF Next, Proceed

OthersStay(c) == \A d \in Callers \ {c} : call'[d] = call[d]

\* A step of call c that leaves the store alone.
Quiet(c) ==
  /\ UNCHANGED <<backend, claim, response, ran>>
  /\ OthersStay(c)
  /\ \/ call'[c].pc \in {"idle", "lookup"}
     \/ call'[c].pc = "claim" /\ response[call'[c].key] <= 0
     \/ /\ call'[c].pc = "store" /\ call[c].pc = "run"
        /\ call'[c].key = call[c].key /\ call'[c].age = call[c].age

\* A step of call c that claims its key, whether the call learns of it or not.
Claims(c) ==
  /\ Free(call[c].key) /\ TakeClaim(call[c].key)
  /\ UNCHANGED backend
  /\ \A k \in Keys : ran'[k] = ran[k] \/ (k = call[c].key /\ ran'[k] = TTL)
  /\ OthersStay(c)
  /\ \/ call'[c].pc = "idle"
     \/ /\ call'[c].pc = "run"
        /\ call'[c].key = call[c].key /\ call'[c].age = call[c].age

\* A call that leaves the store alone and executes nothing it did not execute
\* before keeps the invariant; it may begin, give up or end, but it is not
\* about to claim unless the key had no response or it was about to before.
LEMMA QuietStep ==
  ASSUME IdempotencyInv, TypeOK', NEW c \in Callers, Quiet(c)
  PROVE  IdempotencyInv'
<1> USE IdempotencyAssumption DEF Quiet, OthersStay, IdempotencyInv, TypeOK, Executing
<1>1. ExclusiveHandler'
  BY DEF ExclusiveHandler
<1>2. ClaimHeld'
  BY DEF ClaimHeld
<1>3. ClaimCovers'
  BY DEF ClaimCovers, At
<1>4. RunGuarded'
  BY DEF RunGuarded
<1> QED
  BY <1>1, <1>2, <1>3, <1>4

\* A new claim is the only one: the calls that execute hold theirs.
LEMMA ClaimStep ==
  ASSUME IdempotencyInv, TypeOK', NEW c \in Callers, Claims(c)
  PROVE  IdempotencyInv'
<1> DEFINE k == call[c].key
<1> USE IdempotencyAssumption DEF Claims, OthersStay, IdempotencyInv, TypeOK, Executing
<1>1. k \in Keys /\ claim[k] <= 0
  BY DEF Free
<1>2. \A d \in Callers : Executing(d) => call[d].key # k
  BY <1>1 DEF ClaimHeld
<1>3. claim' = [claim EXCEPT ![k] = TTL]
  BY DEF TakeClaim
<1>4. ExclusiveHandler'
  <2> SUFFICES ASSUME NEW d \in Callers, NEW e \in Callers, Executing(d)', Executing(e)',
                      call'[d].key = call'[e].key
               PROVE  d = e
    BY DEF ExclusiveHandler
  <2>1. \A x \in Callers \ {c} : call'[x] = call[x]
    BY DEF Claims, OthersStay
  <2>2. CASE d # c /\ e # c
    BY <2>1, <2>2 DEF ExclusiveHandler
  <2>3. CASE d = c /\ e # c
    BY <2>1, <2>3, <1>2
  <2>4. CASE d # c /\ e = c
    BY <2>1, <2>4, <1>2
  <2> QED
    BY <2>2, <2>3, <2>4
<1>5. ClaimHeld'
  BY <1>1, <1>2, <1>3 DEF ClaimHeld
<1>6. ClaimCovers'
  <2>1. ASSUME backend = "redis" PROVE response' = response
    BY <2>1 DEF TakeClaim
  <2>2. ASSUME NEW d \in Callers, At(d, "claim")', backend = "redis",
               response[call'[d].key] > 0
        PROVE  claim'[call'[d].key] + call'[d].age >= TTL - MaxCall
    <3>1. d # c /\ call'[d] = call[d]
      BY <2>2 DEF At
    <3>2. CASE call[d].key = k
      BY <3>1, <3>2, <1>1, <1>3
    <3>3. CASE call[d].key # k
      BY <2>2, <3>1, <3>3, <1>3 DEF ClaimCovers, At
    <3> QED
      BY <3>2, <3>3
  <2> QED
    BY <2>1, <2>2 DEF ClaimCovers
<1>7. RunGuarded'
  <2> SUFFICES ASSUME NEW j \in Keys, ran'[j] > 0
               PROVE  claim'[j] >= ran'[j] \/ (backend # "redis" /\ response'[j] >= ran'[j])
    BY DEF RunGuarded
  <2>1. CASE j = k
    BY <2>1, <1>1, <1>3
  <2>2. CASE j # k
    BY <2>2, <1>1, <1>3 DEF RunGuarded, TakeClaim
  <2> QED
    BY <2>1, <2>2
<1> QED
  BY <1>4, <1>5, <1>6, <1>7

\* The call that stores a response is the only one that executes for its key,
\* and its claim still has all but its own age to live.
LEMMA StoreStep ==
  ASSUME IdempotencyInv, TypeOK', NEW c \in Callers, StoreResponse(c)
  PROVE  IdempotencyInv'
<1> DEFINE k == call[c].key
<1> USE IdempotencyAssumption DEF IdempotencyInv, TypeOK, Executing
<1>1. /\ k \in Keys
      /\ call' = [call EXCEPT ![c] = [pc |-> "idle", key |-> @.key, age |-> 0]]
      /\ UNCHANGED <<backend, ran>>
      /\ response' = [response EXCEPT ![k] = TTL]
      /\ Executing(c)
  BY DEF StoreResponse, PutResponse, Returns, At
<1>2. \A d \in Callers \ {c} : Executing(d) => call[d].key # k
  BY <1>1 DEF ExclusiveHandler
<1>3. \A j \in Keys : claim'[j] = claim[j] \/ (j = k /\ backend # "redis")
  BY <1>1 DEF StoreResponse, PutResponse
<1>4. claim[k] + MaxCall >= TTL
  BY <1>1 DEF ClaimHeld
<1>5. ExclusiveHandler'
  BY <1>1 DEF ExclusiveHandler
<1>6. ClaimHeld'
  BY <1>1, <1>2, <1>3 DEF ClaimHeld
<1>7. ClaimCovers'
  <2> SUFFICES ASSUME NEW d \in Callers, At(d, "claim")', backend = "redis",
                      response'[call'[d].key] > 0
               PROVE  claim'[call'[d].key] + call'[d].age >= TTL - MaxCall
    BY <1>1 DEF ClaimCovers
  <2>1. d # c /\ call'[d] = call[d]
    BY <1>1 DEF At
  <2>2. CASE call[d].key = k
    BY <2>1, <2>2, <1>1, <1>3, <1>4
  <2>3. CASE call[d].key # k
    BY <2>1, <2>3, <1>1, <1>3 DEF ClaimCovers, At
  <2> QED
    BY <2>2, <2>3
<1>8. RunGuarded'
  BY <1>1, <1>3 DEF RunGuarded
<1> QED
  BY <1>5, <1>6, <1>7, <1>8

\* A tick takes as much from a claim as it adds to the age of the calls.
LEMMA TickStep == IdempotencyInv /\ TypeOK' /\ Tick => IdempotencyInv'
<1> SUFFICES ASSUME IdempotencyInv, TypeOK', Tick PROVE IdempotencyInv'
  OBVIOUS
<1> USE IdempotencyAssumption DEF IdempotencyInv, TypeOK, Executing
<1>1. \A c \in Callers :
        /\ call'[c].pc = call[c].pc /\ call'[c].key = call[c].key
        /\ call[c].pc # "idle" => call'[c].age = call[c].age + 1
  BY DEF Tick, At
<1>2. \A k \in Keys :
        /\ claim'[k] = Shorter(claim[k])
        /\ response'[k] = Shorter(response[k])
        /\ ran'[k] = IF ran[k] > 0 THEN ran[k] - 1 ELSE 0
  BY DEF Tick
<1>3. backend' = backend
  BY DEF Tick
<1>4. ExclusiveHandler'
  BY <1>1 DEF ExclusiveHandler
<1>5. \A n \in -1 .. TTL : Shorter(n) >= n - 1 /\ (n <= 0 => Shorter(n) <= 0)
  BY DEF Shorter
<1>6. ClaimHeld'
  BY <1>1, <1>2, <1>5 DEF ClaimHeld
<1>7. ClaimCovers'
  <2> SUFFICES ASSUME NEW c \in Callers, At(c, "claim")', backend = "redis",
                      response'[call'[c].key] > 0
               PROVE  claim'[call'[c].key] + call'[c].age >= TTL - MaxCall
    BY <1>3 DEF ClaimCovers
  <2>1. call[c].pc = "claim" /\ call[c].key \in Keys /\ call'[c].key = call[c].key
    BY <1>1 DEF At
  <2>2. response[call[c].key] > 0
    BY <2>1, <1>2, <1>5
  <2>3. claim[call[c].key] + call[c].age >= TTL - MaxCall
    BY <2>1, <2>2 DEF ClaimCovers, At
  <2> QED
    BY <2>1, <2>3, <1>1, <1>2, <1>5
<1>8. RunGuarded'
  BY <1>2, <1>3, <1>5 DEF RunGuarded
<1> QED
  BY <1>4, <1>6, <1>7, <1>8

\* Every step keeps the invariant.
LEMMA InvStep == IdempotencyInv /\ [Next]_vars => IdempotencyInv'
<1> SUFFICES ASSUME IdempotencyInv, [Next]_vars PROVE IdempotencyInv'
  OBVIOUS
<1>1. TypeOK'
  BY TypeStep DEF IdempotencyInv
<1>2. CASE UNCHANGED vars
  BY <1>2 DEF IdempotencyInv, TypeOK, ExclusiveHandler, ClaimHeld, ClaimCovers, RunGuarded,
              Executing, At, vars
<1> USE DEF At, Returns, Goes, OthersStay
<1>3. ASSUME NEW c \in Callers, NEW k \in Keys, Begin(c, k) PROVE IdempotencyInv'
  <2>1. Quiet(c)
    BY <1>3 DEF Begin, Quiet, IdempotencyInv, TypeOK
  <2> QED
    BY <1>1, <2>1, QuietStep
<1>4. ASSUME NEW c \in Callers, LookupResponse(c) PROVE IdempotencyInv'
  <2>1. Quiet(c)
    BY <1>4 DEF LookupResponse, Found, Quiet, IdempotencyInv, TypeOK
  <2> QED
    BY <1>1, <2>1, QuietStep
<1>5. ASSUME NEW c \in Callers, Claim(c) PROVE IdempotencyInv'
  <2>1. Claims(c)
    BY <1>5 DEF Claim, Claims, IdempotencyInv, TypeOK
  <2> QED
    BY <1>1, <2>1, ClaimStep
<1>6. ASSUME NEW c \in Callers, Conflict(c) PROVE IdempotencyInv'
  <2>1. Quiet(c)
    BY <1>6 DEF Conflict, Quiet, IdempotencyInv, TypeOK
  <2> QED
    BY <1>1, <2>1, QuietStep
<1>7. ASSUME NEW c \in Callers, Handle(c) PROVE IdempotencyInv'
  <2>1. Quiet(c)
    BY <1>7 DEF Handle, Quiet, IdempotencyInv, TypeOK
  <2> QED
    BY <1>1, <2>1, QuietStep
<1>8. ASSUME NEW c \in Callers, StoreResponse(c) PROVE IdempotencyInv'
  BY <1>1, <1>8, StoreStep
<1>9. ASSUME NEW c \in Callers, StoreFails(c) PROVE IdempotencyInv'
  <2>1. Quiet(c) \/ Claims(c)
    BY <1>9 DEF StoreFails, Quiet, Claims, IdempotencyInv, TypeOK
  <2> QED
    BY <1>1, <2>1, QuietStep, ClaimStep
<1>10. ASSUME NEW c \in Callers, ResponseLost(c) PROVE IdempotencyInv'
  <2>1. Quiet(c)
    BY <1>10 DEF ResponseLost, Quiet, IdempotencyInv, TypeOK
  <2> QED
    BY <1>1, <2>1, QuietStep
<1>11. ASSUME NEW c \in Callers, Crash(c) PROVE IdempotencyInv'
  <2>1. Quiet(c)
    BY <1>11 DEF Crash, Quiet, IdempotencyInv, TypeOK
  <2> QED
    BY <1>1, <2>1, QuietStep
<1>12. CASE Tick
  BY <1>1, <1>12, TickStep
<1>13. ASSUME NEW c \in Callers, Panic(c) PROVE IdempotencyInv'
  <2>1. Quiet(c)
    BY <1>13 DEF Panic, Quiet, IdempotencyInv, TypeOK
  <2> QED
    BY <1>1, <2>1, QuietStep
<1>14. ASSUME NEW c \in Callers, AnswerUnstored(c) PROVE IdempotencyInv'
  <2>1. Quiet(c)
    BY <1>14 DEF AnswerUnstored, Quiet, IdempotencyInv, TypeOK
  <2> QED
    BY <1>1, <2>1, QuietStep
<1> QED
  BY <1>2, <1>3, <1>4, <1>5, <1>6, <1>7, <1>8, <1>9, <1>10, <1>11, <1>12, <1>13, <1>14
     DEF Next, Proceed

\* IdempotencyInv is an invariant of replayOrContinueStore.
THEOREM IdempotencyInvariant == Spec => []IdempotencyInv
<1>1. Init => IdempotencyInv
  BY IdempotencyAssumption
     DEF Init, IdempotencyInv, TypeOK, Step, ExclusiveHandler, ClaimHeld, ClaimCovers,
         RunGuarded, Executing, At
<1> QED
  BY <1>1, InvStep, PTL DEF Spec

\* At most one call at a time executes the handler of an idempotency key.
THEOREM OneCallExecutes == Spec => []ExclusiveHandler
<1>1. IdempotencyInv => ExclusiveHandler
  BY DEF IdempotencyInv
<1> QED
  BY <1>1, IdempotencyInvariant, PTL

\* A step by which a call starts to execute is a Claim of its key.
LEMMA StartsByClaim ==
  ASSUME TypeOK, Next, NEW c \in Callers, ~Executing(c), Executing(c)'
  PROVE  At(c, "claim") /\ Free(call[c].key)
<1> USE DEF Executing, At, TypeOK, Goes, Returns
<1>1. ASSUME NEW d \in Callers, Claim(d) PROVE At(c, "claim") /\ Free(call[c].key)
  BY <1>1 DEF Claim
<1>2. ASSUME NEW d \in Callers, NEW k \in Keys, Begin(d, k) PROVE FALSE
  BY <1>2 DEF Begin
<1>3. ASSUME NEW d \in Callers, Proceed(d), ~Claim(d) PROVE FALSE
  BY <1>3 DEF Proceed, LookupResponse, Conflict, Handle, StoreResponse
<1>4. ASSUME NEW d \in Callers,
             StoreFails(d) \/ ResponseLost(d) \/ AnswerUnstored(d) \/ Panic(d) \/ Crash(d)
      PROVE  FALSE
  BY <1>4 DEF StoreFails, ResponseLost, AnswerUnstored, Panic, Crash
<1>5. ASSUME Tick PROVE FALSE
  BY <1>5 DEF Tick
<1> QED
  BY <1>1, <1>2, <1>3, <1>4, <1>5 DEF Next

\* No call starts to execute the handler of a key whose response is kept.
THEOREM KeptResponseIsNotRerun == Spec => NoRunWhileAnswered
<1> DEFINE A == \A c \in Callers : ~Executing(c) /\ Executing(c)' => response[call[c].key] <= 0
<1>1. IdempotencyInv /\ [Next]_vars => [A]_vars
  <2> SUFFICES ASSUME IdempotencyInv, Next, NEW c \in Callers, ~Executing(c), Executing(c)'
               PROVE  response[call[c].key] <= 0
    OBVIOUS
  <2>1. At(c, "claim") /\ Free(call[c].key)
    BY StartsByClaim DEF IdempotencyInv
  <2> QED
    BY <2>1, IdempotencyAssumption DEF IdempotencyInv, ClaimCovers, Free, TypeOK
<1> QED
  BY <1>1, IdempotencyInvariant, PTL DEF Spec, NoRunWhileAnswered

\* The handler of a key is run at most once in any TTL.
THEOREM RunsAreTTLApart == Spec => OneRunPerTTL
<1> DEFINE A == \A c \in Callers : ~Executing(c) /\ Executing(c)' => ran[call[c].key] = 0
<1>1. IdempotencyInv /\ [Next]_vars => [A]_vars
  <2> SUFFICES ASSUME IdempotencyInv, Next, NEW c \in Callers, ~Executing(c), Executing(c)'
               PROVE  ran[call[c].key] = 0
    OBVIOUS
  <2>1. At(c, "claim") /\ Free(call[c].key)
    BY StartsByClaim DEF IdempotencyInv
  <2> QED
    BY <2>1 DEF IdempotencyInv, RunGuarded, Free, TypeOK
<1> QED
  BY <1>1, IdempotencyInvariant, PTL DEF Spec, OneRunPerTTL

-----------------------------------------------------------------------------
(* Capture behind its key.                                                 *)

\* A call that executes claimed its key less than its own age ago.
RunRecent == \A c \in Callers : Executing(c) => ran[call[c].key] + call[c].age >= TTL

SpentWithinTTL == \A k \in Keys : ran[k] = 0 => spent[k] = 0

\* A handler that has not come to a result has had the rail do nothing yet.
UndecidedUnspent == \A c \in Callers : Undecided(c) => spent[call[c].key] = 0

\* The payment stays the one that the calls are about.
BooksTyped ==
  intents \in [{payment} -> [rail : {"card"}, amount : {Amount}, status : P!Status,
                            captured : Int, refunded : Int, settled : Int,
                            history : SUBSET P!EventType]]

KeyedInv ==
  /\ IdempotencyInv
  /\ BooksTyped
  /\ reply \in [Callers -> Int] /\ spent \in [Keys -> Nat]
  /\ RunRecent
  /\ SpentWithinTTL
  /\ UndecidedUnspent
  /\ RailMovesOncePerTTL

LEMMA CaptureBooks ==
  ASSUME BooksTyped, NEW c \in Callers, NEW a \in P!CaptureAmounts(intents[payment]), NEW o,
         P!Capture(c, payment, a, o)
  PROVE  /\ BooksTyped'
         /\ faults' = IF o = "ok" THEN faults ELSE faults + 1
         /\ a \in Int /\ a > 0
<1> DEFINE Books == [rail : {"card"}, amount : {Amount}, status : P!Status, captured : Int,
                     refunded : Int, settled : Int, history : SUBSET P!EventType]
           i == intents[payment]
           e == [i EXCEPT !.captured = P!Wrap(@ + a)]
           f == P!ApplyCapture(i, a)
<1>1. intents \in [{payment} -> Books] /\ i \in Books
  BY DEF BooksTyped
<1>2. a \in Int /\ a > 0
  <2>1. i.amount = Amount
    BY <1>1
  <2>2. a = i.amount \/ (a \in RequestAmounts /\ a > 0)
    BY DEF P!CaptureAmounts
  <2>3. Amount \in Int /\ Amount > 0 /\ RequestAmounts \subseteq Int
    BY KeyedAssumption
  <2>4. QED
    BY <2>1, <2>2, <2>3
<1>3. P!Wrap(i.captured + a) \in Int
  BY <1>1, <1>2, KeyedAssumption DEF P!Wrap
<1>4. e \in Books
  BY <1>1, <1>3
<1>5. "captured" \in P!Status /\ "captured" \in P!EventType
  BY DEF P!Status, P!EventType
<1>6. f \in Books
  <2>1. f = IF e.captured >= e.amount THEN P!Transition(e, "captured")
            ELSE P!AppendEvent(e, "captured")
    BY DEF P!ApplyCapture
  <2> HIDE DEF e, f
  <2>2. P!AppendEvent(e, "captured") \in Books
    BY <1>4, <1>5 DEF P!AppendEvent
  <2>3. P!Transition(e, "captured") \in Books
    BY <1>4, <1>5 DEF P!AppendEvent, P!Transition
  <2>4. QED
    BY <2>1, <2>2, <2>3
<1>7. P!UpdateIntentStep(c, payment, f, TRUE, {f.status}, P!AddRowOp(payment, "captures", a), o)
  BY DEF P!Capture
<1> HIDE DEF i, f
<1>8. /\ \/ intents' = intents
         \/ intents' = [intents EXCEPT ![payment] = f]
      /\ faults' = IF o = "ok" THEN faults ELSE faults + 1
  BY <1>7 DEF P!UpdateIntentStep, P!UpdateIntent, P!PgUpdateIntent, P!CountFault
<1>9. BooksTyped'
  BY <1>1, <1>6, <1>8 DEF BooksTyped
<1>10. QED
  BY <1>2, <1>8, <1>9

\* A step in the books is none for the key; it can only be a fault.
BooksOnly ==
  UNCHANGED <<backend, claim, response, call, ran, answered>> /\ faults' \in 0 .. MaxFaults

LEMMA BooksOnlyStep ==
  ASSUME IdempotencyInv, BooksOnly
  PROVE  IdempotencyInv'
BY DEF BooksOnly, IdempotencyInv, TypeOK, ExclusiveHandler, ClaimHeld, ClaimCovers, RunGuarded,
       Executing, At

\* What a call may do to itself without claiming: go on, decide, have the rail
\* capture, once, or end.
KeyedMoves(c) ==
  /\ UNCHANGED ran /\ OthersStay(c)
  /\ reply' \in [Callers -> Int] /\ \A d \in Callers \ {c} : reply'[d] = reply[d]
  /\ Executing(c)' =>
       Executing(c) /\ call'[c].key = call[c].key /\ call'[c].age = call[c].age
  /\ Undecided(c)' => Undecided(c)
  /\ \/ UNCHANGED spent
     \/ Undecided(c) /\ ~Undecided(c)' /\ spent' = [spent EXCEPT ![call[c].key] = @ + 1]

LEMMA KeyedMovesStep ==
  ASSUME KeyedInv, IdempotencyInv', BooksTyped', NEW c \in Callers, KeyedMoves(c)
  PROVE  KeyedInv'
<1> DEFINE k == call[c].key
<1>1. /\ TypeOK /\ TypeOK' /\ ran \in [Keys -> 0 .. TTL] /\ spent \in [Keys -> Nat]
      /\ \A d \in Callers : call[d].key \in Keys /\ call[d].age \in 0 .. MaxCall
  BY DEF KeyedInv, IdempotencyInv, TypeOK
<1>2. Undecided(c) => /\ Executing(c) /\ spent[k] = 0 /\ ran[k] > 0
                      /\ \A d \in Callers \ {c} : Executing(d) => call[d].key # k
  <2> SUFFICES ASSUME Undecided(c)
               PROVE  /\ Executing(c) /\ spent[k] = 0 /\ ran[k] > 0
                      /\ \A d \in Callers \ {c} : Executing(d) => call[d].key # k
    OBVIOUS
  <2>1. Executing(c)
    BY DEF Undecided, Executing, At
  <2>2. ran[k] > 0
    BY <1>1, <2>1, IdempotencyAssumption DEF KeyedInv, RunRecent
  <2>3. QED
    BY <2>1, <2>2 DEF KeyedInv, UndecidedUnspent, IdempotencyInv, ExclusiveHandler
<1>3. ran' = ran /\ \A d \in Callers \ {c} : call'[d] = call[d] /\ reply'[d] = reply[d]
  BY DEF KeyedMoves, OthersStay
<1>4. \A d \in Callers : /\ Executing(d)' => /\ Executing(d) /\ call'[d].key = call[d].key
                                             /\ call'[d].age = call[d].age
                         /\ Undecided(d)' => Undecided(d)
  BY <1>3 DEF KeyedMoves, Executing, Undecided, At
<1>5. \A d \in Callers : Undecided(d) => Executing(d)
  BY DEF Undecided, Executing, At
<1>6. \A d \in Callers : Undecided(d)' => call'[d].key = call[d].key
  BY <1>4 DEF Undecided, Executing, At
<1>7. RunRecent'
  BY <1>3, <1>4 DEF KeyedInv, RunRecent
<1>8. reply' \in [Callers -> Int]
  BY DEF KeyedMoves
<1>9. CASE UNCHANGED spent
  <2>1. SpentWithinTTL' /\ RailMovesOncePerTTL'
    BY <1>3, <1>9 DEF KeyedInv, SpentWithinTTL, RailMovesOncePerTTL
  <2>2. UndecidedUnspent'
    BY <1>4, <1>6, <1>9 DEF KeyedInv, UndecidedUnspent
  <2>3. QED
    BY <1>1, <1>7, <1>8, <1>9, <2>1, <2>2 DEF KeyedInv
<1>10. CASE Undecided(c) /\ ~Undecided(c)' /\ spent' = [spent EXCEPT ![k] = @ + 1]
  <2>1. /\ k \in Keys /\ spent'[k] = 1 /\ spent' \in [Keys -> Nat]
        /\ \A j \in Keys \ {k} : spent'[j] = spent[j]
    BY <1>1, <1>2, <1>10
  <2>2. SpentWithinTTL' /\ RailMovesOncePerTTL'
    BY <1>2, <1>3, <1>10, <2>1 DEF KeyedInv, SpentWithinTTL, RailMovesOncePerTTL
  <2>3. UndecidedUnspent'
    <3> SUFFICES ASSUME NEW d \in Callers, Undecided(d)'
                 PROVE  spent'[call'[d].key] = 0
      BY DEF UndecidedUnspent
    <3>1. d # c /\ Undecided(d) /\ call'[d].key = call[d].key
      BY <1>4, <1>6, <1>10
    <3>2. call[d].key # k /\ call[d].key \in Keys /\ spent[call[d].key] = 0
      BY <1>1, <1>2, <1>5, <1>10, <3>1 DEF KeyedInv, UndecidedUnspent
    <3>3. QED
      BY <2>1, <3>1, <3>2
  <2>4. QED
    BY <1>7, <1>8, <2>1, <2>2, <2>3 DEF KeyedInv
<1>11. QED
  BY <1>9, <1>10 DEF KeyedMoves

\* A claim starts a handler under a key for which, this TTL, nothing was spent.
LEMMA KeyedClaimStep ==
  ASSUME KeyedInv, IdempotencyInv', NEW c \in Callers, Claim(c),
         UNCHANGED <<intents, reply, spent>>
  PROVE  KeyedInv'
<1> DEFINE k == call[c].key
<1>1. /\ TypeOK /\ ran \in [Keys -> 0 .. TTL] /\ k \in Keys /\ TTL \in Nat
      /\ \A d \in Callers : call[d].key \in Keys /\ call[d].age \in 0 .. MaxCall
  BY IdempotencyAssumption DEF KeyedInv, IdempotencyInv, TypeOK
<1>2. /\ ran' = [ran EXCEPT ![k] = TTL] /\ call' = [call EXCEPT ![c].pc = "run"]
      /\ Free(k) /\ At(c, "claim")
  BY DEF Claim, Goes
<1>3. ran[k] = 0
  BY <1>1, <1>2 DEF KeyedInv, IdempotencyInv, RunGuarded, Free, TypeOK
<1>4. spent[k] = 0
  BY <1>1, <1>3 DEF KeyedInv, SpentWithinTTL
<1>5. /\ \A d \in Callers : call'[d].key = call[d].key /\ call'[d].age = call[d].age
      /\ \A d \in Callers \ {c} : call'[d] = call[d]
      /\ ran'[k] = TTL /\ \A j \in Keys \ {k} : ran'[j] = ran[j]
  BY <1>1, <1>2 DEF TypeOK
<1>6. RunRecent'
  <2> SUFFICES ASSUME NEW d \in Callers, Executing(d)'
               PROVE  ran'[call[d].key] + call[d].age >= TTL
    BY <1>5 DEF RunRecent
  <2>1. CASE call[d].key = k
    BY <1>1, <1>5, <2>1, IdempotencyAssumption
  <2>2. CASE call[d].key # k
    <3>1. d # c /\ Executing(d)
      BY <1>5, <2>2 DEF Executing
    <3>2. QED
      BY <1>1, <1>5, <2>2, <3>1 DEF KeyedInv, RunRecent
  <2>3. QED
    BY <2>1, <2>2
<1>7. SpentWithinTTL'
  BY <1>4, <1>5 DEF KeyedInv, SpentWithinTTL
<1>8. UndecidedUnspent'
  <2> SUFFICES ASSUME NEW d \in Callers, Undecided(d)'
               PROVE  spent[call[d].key] = 0
    BY <1>5 DEF UndecidedUnspent
  <2>1. d # c => Undecided(d)
    BY <1>5 DEF Undecided, At
  <2>2. QED
    BY <1>4, <2>1 DEF KeyedInv, UndecidedUnspent
<1>9. QED
  BY <1>6, <1>7, <1>8 DEF KeyedInv, BooksTyped, RailMovesOncePerTTL

LEMMA KeyedTickStep ==
  ASSUME KeyedInv, IdempotencyInv', KeyedTick
  PROVE  KeyedInv'
<1>1. /\ TypeOK /\ ran \in [Keys -> 0 .. TTL] /\ spent \in [Keys -> Nat] /\ TTL \in Nat
      /\ \A d \in Callers : call[d].key \in Keys /\ call[d].age \in 0 .. MaxCall
  BY IdempotencyAssumption DEF KeyedInv, IdempotencyInv, TypeOK
<1>2. /\ ran' = [k \in Keys |-> IF ran[k] > 0 THEN ran[k] - 1 ELSE 0]
      /\ call' = [c \in Callers |-> IF At(c, "idle") THEN call[c]
                                    ELSE [call[c] EXCEPT !.age = @ + 1]]
      /\ spent' = [k \in Keys |-> IF ran'[k] = 0 THEN 0 ELSE spent[k]]
      /\ UNCHANGED <<intents, reply>>
  BY DEF KeyedTick, Tick, books
<1>3. \A d \in Callers : /\ call'[d].key = call[d].key /\ call'[d].pc = call[d].pc
                         /\ Executing(d) => call'[d].age = call[d].age + 1
  BY <1>1, <1>2 DEF TypeOK, Executing, At
<1>4. RunRecent'
  <2> SUFFICES ASSUME NEW d \in Callers, Executing(d)'
               PROVE  ran'[call[d].key] + call'[d].age >= TTL
    BY <1>3 DEF RunRecent
  <2>1. Executing(d) /\ ran[call[d].key] + call[d].age >= TTL /\ call'[d].age = call[d].age + 1
    BY <1>3 DEF Executing, KeyedInv, RunRecent
  <2>2. ran[call[d].key] > 0
    BY <1>1, <2>1, IdempotencyAssumption
  <2>3. ran'[call[d].key] = ran[call[d].key] - 1
    BY <1>1, <1>2, <2>2
  <2>4. QED
    BY <1>1, <2>1, <2>3, IdempotencyAssumption
<1>5. \A k \in Keys : spent'[k] = spent[k] \/ spent'[k] = 0
  BY <1>2
<1>6. SpentWithinTTL' /\ spent' \in [Keys -> Nat] /\ RailMovesOncePerTTL'
  BY <1>1, <1>2 DEF KeyedInv, SpentWithinTTL, RailMovesOncePerTTL
<1>7. UndecidedUnspent'
  <2> SUFFICES ASSUME NEW d \in Callers, Undecided(d)'
               PROVE  spent'[call[d].key] = 0
    BY <1>3 DEF UndecidedUnspent
  <2>1. Undecided(d)
    BY <1>2, <1>3 DEF Undecided, At
  <2>2. QED
    BY <1>1, <1>5, <2>1 DEF KeyedInv, UndecidedUnspent
<1>8. QED
  BY <1>2, <1>4, <1>6, <1>7 DEF KeyedInv, BooksTyped

\* A call that has the rail capture: the books and the fault counter.
LEMMA CaptureStep ==
  ASSUME KeyedInv, NEW c \in Callers, NEW a \in P!CaptureAmounts(intents[payment]),
         NEW o \in P!Outcomes({"reply_lost", "sql_error"}), RunCapture(c, a, o)
  PROVE  BooksOnly /\ BooksTyped' /\ KeyedMoves(c)
<1>1. /\ Undecided(c) /\ P!Capture(c, payment, a, o)
      /\ reply' = [reply EXCEPT ![c] = IF o = "ok" THEN a ELSE 0]
      /\ spent' = [spent EXCEPT ![call[c].key] = @ + 1]
      /\ UNCHANGED <<backend, claim, response, call, ran, answered>>
  BY DEF RunCapture, Answers, Refused, Spends
<1>2. BooksTyped' /\ a \in Int /\ a > 0 /\ faults' = IF o = "ok" THEN faults ELSE faults + 1
  BY <1>1, CaptureBooks DEF KeyedInv
<1>3. faults \in 0 .. MaxFaults /\ (o # "ok" => faults < MaxFaults) /\ MaxFaults \in Nat
  BY IdempotencyAssumption DEF KeyedInv, IdempotencyInv, TypeOK, P!Outcomes
<1>4. faults' \in 0 .. MaxFaults
  BY <1>2, <1>3
<1>5. reply' \in [Callers -> Int] /\ reply'[c] # -1 /\ \A d \in Callers \ {c} : reply'[d] = reply[d]
  BY <1>1, <1>2 DEF KeyedInv
<1>6. KeyedMoves(c)
  BY <1>1, <1>5 DEF KeyedMoves, OthersStay, Undecided, Pending, Executing, At
<1>7. QED
  BY <1>1, <1>2, <1>4, <1>6 DEF BooksOnly

LEMMA InsertStep ==
  ASSUME KeyedInv, NEW c \in Callers, InsertCapture(c)
  PROVE  BooksOnly /\ UNCHANGED <<intents, gateway, promised>> /\ KeyedMoves(c)
<1>1. /\ UNCHANGED <<intents, gateway>>
      /\ \/ faults' = faults
         \/ faults' = faults + 1 /\ faults < MaxFaults
  <2>1. CASE P!AddRow(c)
    BY <2>1 DEF P!AddRow
  <2>2. CASE P!InsertLost(c)
    BY <2>2 DEF P!InsertLost, P!Outcomes, P!CountFault
  <2>3. QED
    BY <2>1, <2>2 DEF InsertCapture
<1>2. faults \in 0 .. MaxFaults /\ MaxFaults \in Nat
  BY IdempotencyAssumption DEF KeyedInv, IdempotencyInv, TypeOK
<1>3. UNCHANGED <<backend, claim, response, call, ran, answered, reply, promised, spent>>
  BY DEF InsertCapture
<1>4. KeyedMoves(c)
  BY <1>3 DEF KeyedMoves, KeyedInv, OthersStay, Undecided, Executing, At
<1>5. QED
  BY <1>1, <1>2, <1>3, <1>4 DEF BooksOnly

\* The other steps of a call that does not claim are steps of Idempotency.
LEMMA CallStep ==
  ASSUME KeyedInv, NEW c \in Callers,
         \/ \E k \in Keys : Begin(c, k) /\ UNCHANGED <<books, reply, promised, spent>>
         \/ LookupResponse(c) /\ UNCHANGED <<books, reply, promised, spent>>
         \/ Conflict(c) /\ UNCHANGED <<books, reply, promised, spent>>
         \/ ReturnStatus(c)
         \/ KeyedStoreResponse(c) \/ KeyedAnswerUnstored(c)
         \/ KeyedFault(c)
         \/ RefuseCapture(c)
  PROVE  [Next]_vars /\ UNCHANGED intents /\ KeyedMoves(c)
<1>1. call \in [Callers -> [pc : Step, key : Keys, age : 0 .. MaxCall]]
      /\ reply \in [Callers -> Int]
  BY DEF KeyedInv, IdempotencyInv, TypeOK
<1> USE DEF KeyedMoves, OthersStay, Undecided, Executing, At, books
<1>2. ASSUME NEW k \in Keys, Begin(c, k), UNCHANGED <<books, reply, promised, spent>>
      PROVE  Next /\ UNCHANGED intents /\ KeyedMoves(c)
  BY <1>1, <1>2 DEF Begin, Next
<1>3. ASSUME LookupResponse(c), UNCHANGED <<books, reply, promised, spent>>
      PROVE  Next /\ UNCHANGED intents /\ KeyedMoves(c)
  <2>1. Next /\ UNCHANGED intents
    BY <1>3 DEF Next, Proceed
  <2>2. /\ call'[c].pc \notin {"run", "store"} /\ UNCHANGED <<ran, reply, spent>>
        /\ \A d \in Callers \ {c} : call'[d] = call[d]
    BY <1>1, <1>3 DEF LookupResponse, Returns, Goes
  <2>3. QED
    BY <1>1, <2>1, <2>2
<1>4. ASSUME Conflict(c), UNCHANGED <<books, reply, promised, spent>>
      PROVE  Next /\ UNCHANGED intents /\ KeyedMoves(c)
  <2>1. Next /\ UNCHANGED intents
    BY <1>4 DEF Next, Proceed
  <2>2. QED
    BY <1>1, <1>4, <2>1 DEF Conflict, Returns
<1>5. ASSUME ReturnStatus(c) PROVE Next /\ UNCHANGED intents /\ KeyedMoves(c)
  <2>1. Next /\ UNCHANGED intents
    BY <1>5 DEF ReturnStatus, Next, Proceed
  <2>2. QED
    BY <1>1, <1>5, <2>1 DEF ReturnStatus, Handle, Goes
<1>6. ASSUME KeyedStoreResponse(c) \/ KeyedAnswerUnstored(c)
      PROVE  Next /\ UNCHANGED intents /\ KeyedMoves(c)
  <2>1. Next /\ UNCHANGED intents
    BY <1>6 DEF KeyedStoreResponse, KeyedAnswerUnstored, TellsClient, Next, Proceed
  <2>2. Returns(c) /\ UNCHANGED <<ran, spent>>
    BY <1>6 DEF KeyedStoreResponse, StoreResponse, KeyedAnswerUnstored, AnswerUnstored, TellsClient
  <2>3. reply' = [reply EXCEPT ![c] = -1]
    BY <1>6 DEF KeyedStoreResponse, KeyedAnswerUnstored, TellsClient, Answers, Pending
  <2>4. QED
    BY <1>1, <2>1, <2>2, <2>3 DEF Returns
<1>7. ASSUME KeyedFault(c) PROVE Next /\ UNCHANGED intents /\ KeyedMoves(c)
  <2>1. Next /\ UNCHANGED intents
    BY <1>7 DEF KeyedFault, Next
  <2>2. Returns(c) /\ UNCHANGED <<ran, spent>>
    BY <1>7 DEF KeyedFault, StoreFails, ResponseLost, Panic, Crash
  <2>3. reply' = [reply EXCEPT ![c] = -1]
    BY <1>7 DEF KeyedFault, Abandons, Answers, Pending
  <2>4. QED
    BY <1>1, <2>1, <2>2, <2>3 DEF Returns
<1>8. ASSUME RefuseCapture(c) PROVE UNCHANGED vars /\ UNCHANGED intents /\ KeyedMoves(c)
  BY <1>1, <1>8 DEF RefuseCapture, Answers, Refused, Pending, vars
<1>9. QED
  BY <1>2, <1>3, <1>4, <1>5, <1>6, <1>7, <1>8

LEMMA CrashCaptureStep ==
  ASSUME KeyedInv, NEW c \in Callers, NEW a \in P!CaptureAmounts(intents[payment]),
         CrashInCapture(c, a)
  PROVE  Next /\ BooksTyped' /\ KeyedMoves(c)
<1>1. Next
  BY DEF CrashInCapture, Next
<1>2. BooksTyped'
  BY CaptureBooks DEF KeyedInv, CrashInCapture
<1>3. /\ Undecided(c) /\ Returns(c) /\ UNCHANGED ran /\ reply' = [reply EXCEPT ![c] = -1]
      /\ spent' = [spent EXCEPT ![call[c].key] = @ + 1]
  BY DEF CrashInCapture, Crash, Answers, Pending, Spends
<1>4. KeyedMoves(c)
  BY <1>3 DEF KeyedMoves, OthersStay, Undecided, Executing, At, Returns, KeyedInv,
              IdempotencyInv, TypeOK
<1>5. QED
  BY <1>1, <1>2, <1>4

\* Every step keeps the invariant.
LEMMA KeyedStep == KeyedInv /\ [KeyedNext]_keyedVars => KeyedInv'
<1> SUFFICES ASSUME KeyedInv, [KeyedNext]_keyedVars PROVE KeyedInv'
  OBVIOUS
<1>1. IdempotencyInv
  BY DEF KeyedInv
<1>2. CASE UNCHANGED keyedVars
  <2>1. IdempotencyInv'
    BY <1>1, <1>2, InvStep DEF keyedVars
  <2>2. QED
    BY <1>2, <2>1 DEF keyedVars, vars, books, KeyedInv, BooksTyped, RunRecent, SpentWithinTTL,
                      UndecidedUnspent, RailMovesOncePerTTL, Undecided, Executing, At
<1>3. ASSUME NEW c \in Callers, [Next]_vars, UNCHANGED intents, KeyedMoves(c)
      PROVE  KeyedInv'
  <2>1. IdempotencyInv' /\ BooksTyped'
    BY <1>1, <1>3, InvStep DEF BooksTyped, KeyedInv
  <2>2. QED
    BY <1>3, <2>1, KeyedMovesStep
<1>4. ASSUME NEW c \in Callers, \E k \in Keys : Begin(c, k) /\ UNCHANGED <<books, reply, promised, spent>>
      PROVE  KeyedInv'
  BY <1>3, <1>4, CallStep
<1>5. ASSUME NEW c \in Callers, KeyedFault(c) \/ KeyedAnswerUnstored(c) PROVE KeyedInv'
  BY <1>3, <1>5, CallStep
<1>6. ASSUME NEW c \in Callers, NEW a \in P!CaptureAmounts(intents[payment]), CrashInCapture(c, a)
      PROVE  KeyedInv'
  <2>1. Next /\ BooksTyped' /\ KeyedMoves(c)
    BY <1>6, CrashCaptureStep
  <2>2. QED
    BY <1>1, <2>1, InvStep, KeyedMovesStep
<1>7. CASE KeyedTick
  <2>1. IdempotencyInv'
    BY <1>1, <1>7, InvStep DEF KeyedTick, Next
  <2>2. QED
    BY <1>7, <2>1, KeyedTickStep
<1>8. ASSUME NEW c \in Callers, KeyedProceed(c) PROVE KeyedInv'
  <2>1. CASE /\ LookupResponse(c) \/ Conflict(c)
             /\ UNCHANGED <<books, reply, promised, spent>>
    BY <1>3, <2>1, CallStep
  <2>2. CASE Claim(c) /\ UNCHANGED <<books, reply, promised, spent>>
    <3>1. IdempotencyInv'
      BY <1>1, <2>2, InvStep DEF Next, Proceed
    <3>2. QED
      BY <2>2, <3>1, KeyedClaimStep DEF books
  <2>3. ASSUME NEW a \in P!CaptureAmounts(intents[payment]),
               NEW o \in P!Outcomes({"reply_lost", "sql_error"}), RunCapture(c, a, o)
        PROVE  KeyedInv'
    <3>1. BooksOnly /\ BooksTyped' /\ KeyedMoves(c)
      BY <2>3, CaptureStep
    <3>2. QED
      BY <1>1, <3>1, BooksOnlyStep, KeyedMovesStep
  <2>4. CASE RefuseCapture(c) \/ ReturnStatus(c) \/ KeyedStoreResponse(c)
    BY <1>3, <2>4, CallStep
  <2>5. CASE InsertCapture(c)
    <3>1. BooksOnly /\ UNCHANGED intents /\ KeyedMoves(c)
      BY <2>5, InsertStep
    <3>2. BooksTyped'
      BY <3>1 DEF KeyedInv, BooksTyped
    <3>3. QED
      BY <1>1, <3>1, <3>2, BooksOnlyStep, KeyedMovesStep
  <2>6. QED
    BY <1>8, <2>1, <2>2, <2>3, <2>4, <2>5 DEF KeyedProceed
<1>9. QED
  BY <1>2, <1>4, <1>5, <1>6, <1>7, <1>8 DEF KeyedNext

LEMMA KeyedStart == KeyedInit => KeyedInv
<1> SUFFICES ASSUME KeyedInit PROVE KeyedInv
  OBVIOUS
<1>1. IdempotencyInv
  BY IdempotencyAssumption
     DEF KeyedInit, Init, IdempotencyInv, TypeOK, Step, ExclusiveHandler, ClaimHeld, ClaimCovers,
         RunGuarded, Executing, At
<1>2. BooksTyped
  <2>1. intents = [p \in {payment} |-> P!Transition(P!Draft("card", Amount), "authorized")]
    BY DEF KeyedInit
  <2>2. P!Transition(P!Draft("card", Amount), "authorized") =
          [rail |-> "card", amount |-> Amount, status |-> "authorized", captured |-> 0,
           refunded |-> 0, settled |-> 0, history |-> {"created", "authorized"}]
    BY DEF P!Transition, P!TransitionAllowed, P!IsTerminal, P!CanTransition, P!AppendEvent, P!Draft
  <2>3. QED
    BY <2>1, <2>2 DEF BooksTyped, P!Status, P!EventType
<1>3. /\ reply \in [Callers -> Int] /\ spent \in [Keys -> Nat]
      /\ \A k \in Keys : spent[k] = 0
      /\ \A c \in Callers : ~Executing(c)
      /\ \A c \in Callers : call[c].key \in Keys
  BY DEF KeyedInit, Init, Executing, Pending
<1>4. QED
  BY <1>1, <1>2, <1>3 DEF KeyedInv, RunRecent, SpentWithinTTL, UndecidedUnspent, Undecided,
                          RailMovesOncePerTTL, Executing, At

\* KeyedInv is an invariant of Capture behind its key.
THEOREM KeyedInvariant == KeyedSpec => []KeyedInv
  BY KeyedStart, KeyedStep, PTL DEF KeyedSpec

\* Whatever is retried, lost or stopped, the rail captures at most once under a
\* key within a TTL.
THEOREM RailMovesOnce == KeyedSpec => []RailMovesOncePerTTL
<1>1. KeyedInv => RailMovesOncePerTTL
  BY DEF KeyedInv
<1>2. QED
  BY <1>1, KeyedInvariant, PTL

\* Around Capture, with the rail and the store in between, one call at a time
\* executes the handler of a key, as it does by itself.
THEOREM KeyedExclusive == KeyedSpec => []ExclusiveHandler
<1>1. KeyedInv => ExclusiveHandler
  BY DEF KeyedInv, IdempotencyInv
<1>2. QED
  BY <1>1, KeyedInvariant, PTL

\* A step of the composition is one of Idempotency or one in the books.
LEMMA KeyedIsIdempotency ==
  ASSUME KeyedInv, [KeyedNext]_keyedVars
  PROVE  [Next]_vars \/ UNCHANGED call
<1>1. CASE UNCHANGED keyedVars
  BY <1>1 DEF keyedVars
<1>2. CASE KeyedTick
  BY <1>2 DEF KeyedTick, Next
<1>3. ASSUME NEW c \in Callers,
             \E k \in Keys : Begin(c, k) /\ UNCHANGED <<books, reply, promised, spent>>
      PROVE  Next
  BY <1>3 DEF Next
<1>4. ASSUME NEW c \in Callers, KeyedFault(c) \/ KeyedAnswerUnstored(c) PROVE Next
  BY <1>4 DEF KeyedFault, KeyedAnswerUnstored, Next
<1>5. ASSUME NEW c \in Callers,
             \E a \in P!CaptureAmounts(intents[payment]) : CrashInCapture(c, a)
      PROVE  Next
  BY <1>5 DEF CrashInCapture, Next
<1>6. ASSUME NEW c \in Callers, KeyedProceed(c) PROVE Next \/ UNCHANGED call
  <2>1. CASE LookupResponse(c) \/ Claim(c) \/ Conflict(c)
    BY <2>1 DEF Next, Proceed
  <2>2. CASE ReturnStatus(c) \/ KeyedStoreResponse(c)
    BY <2>2 DEF ReturnStatus, KeyedStoreResponse, Next, Proceed
  <2>3. CASE RefuseCapture(c) \/ InsertCapture(c)
    BY <2>3 DEF RefuseCapture, InsertCapture, vars
  <2>4. CASE \E a \in P!CaptureAmounts(intents[payment]) :
               \E o \in P!Outcomes({"reply_lost", "sql_error"}) : RunCapture(c, a, o)
    BY <2>4 DEF RunCapture
  <2>5. QED
    BY <1>6, <2>1, <2>2, <2>3, <2>4 DEF KeyedProceed
<1>7. QED
  BY <1>1, <1>2, <1>3, <1>4, <1>5, <1>6 DEF KeyedNext

\* Around Capture no call starts to execute while a response is kept.
THEOREM KeyedNotRerun == KeyedSpec => NoRunWhileAnswered
<1> DEFINE A == \A c \in Callers : ~Executing(c) /\ Executing(c)' => response[call[c].key] <= 0
<1>1. KeyedInv /\ [KeyedNext]_keyedVars => [A]_vars
  <2> SUFFICES ASSUME KeyedInv, [KeyedNext]_keyedVars, ~(UNCHANGED vars), NEW c \in Callers,
                      ~Executing(c), Executing(c)'
               PROVE  response[call[c].key] <= 0
    OBVIOUS
  <2>1. Next
    BY KeyedIsIdempotency DEF Executing
  <2>2. At(c, "claim") /\ Free(call[c].key)
    BY <2>1, StartsByClaim DEF KeyedInv, IdempotencyInv
  <2>3. QED
    BY <2>2, IdempotencyAssumption DEF KeyedInv, IdempotencyInv, ClaimCovers, Free, TypeOK
<1>2. QED
  BY <1>1, KeyedInvariant, PTL DEF KeyedSpec, NoRunWhileAnswered

\* Around Capture no handler is run twice in a TTL.
THEOREM KeyedTTLApart == KeyedSpec => OneRunPerTTL
<1> DEFINE A == \A c \in Callers : ~Executing(c) /\ Executing(c)' => ran[call[c].key] = 0
<1>1. KeyedInv /\ [KeyedNext]_keyedVars => [A]_vars
  <2> SUFFICES ASSUME KeyedInv, [KeyedNext]_keyedVars, ~(UNCHANGED vars), NEW c \in Callers,
                      ~Executing(c), Executing(c)'
               PROVE  ran[call[c].key] = 0
    OBVIOUS
  <2>1. Next
    BY KeyedIsIdempotency DEF Executing
  <2>2. At(c, "claim") /\ Free(call[c].key)
    BY <2>1, StartsByClaim DEF KeyedInv, IdempotencyInv
  <2>3. QED
    BY <2>2 DEF KeyedInv, IdempotencyInv, RunGuarded, Free, TypeOK
<1>2. QED
  BY <1>1, KeyedInvariant, PTL DEF KeyedSpec, OneRunPerTTL

\* Claims, responses and calls of replayOrContinueStore keep their types, by
\* themselves and around Capture.
THEOREM KeyTypes == (Spec => []TypeOK) /\ (KeyedSpec => []TypeOK)
<1>1. IdempotencyInv => TypeOK
  BY DEF IdempotencyInv
<1>2. KeyedInv => TypeOK
  BY DEF KeyedInv, IdempotencyInv
<1>3. QED
  BY <1>1, <1>2, IdempotencyInvariant, KeyedInvariant, PTL

-----------------------------------------------------------------------------
(* What the calls are answered is in the books.  Several calls, under keys *)
(* of their own, may have captured and not answered yet; the books have to *)
(* hold the sum of what they will answer.  A tally stands for that sum: it *)
(* gives every set of calls a number that grows by f[c] with c.  A change  *)
(* of one f[c] turns a tally of the old f into one of the new, so no       *)
(* induction over the set of calls is needed.                              *)

IsTally(S, f) ==
  /\ S \in [SUBSET Callers -> Nat]
  /\ \A T \in SUBSET Callers : \A c \in T : S[T] = S[T \ {c}] + f[c]

LEMMA TallyGrows ==
  ASSUME NEW S, NEW f \in [Callers -> Nat], NEW c \in Callers, NEW n \in Nat,
         IsTally(S, f), f[c] = 0
  PROVE  \E R : IsTally(R, [f EXCEPT ![c] = n]) /\ R[Callers] = S[Callers] + n
<1> DEFINE R == [T \in SUBSET Callers |-> IF c \in T THEN S[T] + n ELSE S[T]]
           g == [f EXCEPT ![c] = n]
<1>1. S \in [SUBSET Callers -> Nat]
      /\ \A T \in SUBSET Callers : \A d \in T : S[T] = S[T \ {d}] + f[d]
  BY DEF IsTally
<1>2. R \in [SUBSET Callers -> Nat]
  BY <1>1
<1>3. ASSUME NEW T \in SUBSET Callers, NEW d \in T PROVE R[T] = R[T \ {d}] + g[d]
  <2>1. T \ {d} \in SUBSET Callers /\ S[T] \in Nat /\ S[T \ {d}] \in Nat
    BY <1>1
  <2>2. S[T] = S[T \ {d}] + f[d] /\ f[d] \in Nat
    BY <1>1
  <2>3. R[T] = (IF c \in T THEN S[T] + n ELSE S[T])
        /\ R[T \ {d}] = (IF c \in T \ {d} THEN S[T \ {d}] + n ELSE S[T \ {d}])
    BY <2>1
  <2>4. CASE d = c
    <3>1. g[d] = n /\ c \in T /\ c \notin T \ {d}
      BY <2>4
    <3>2. QED
      BY <2>1, <2>2, <2>3, <2>4, <3>1
  <2>5. CASE d # c
    <3>1. g[d] = f[d] /\ (c \in T <=> c \in T \ {d})
      BY <2>5
    <3>2. QED
      BY <2>1, <2>2, <2>3, <3>1
  <2>6. QED
    BY <2>4, <2>5
<1>4. R[Callers] = S[Callers] + n
  OBVIOUS
<1>5. IsTally(R, g)
  BY <1>2, <1>3 DEF IsTally
<1>6. QED
  BY <1>4, <1>5

LEMMA TallyDrops ==
  ASSUME NEW S, NEW f \in [Callers -> Nat], NEW c \in Callers, IsTally(S, f)
  PROVE  \E R : IsTally(R, [f EXCEPT ![c] = 0]) /\ R[Callers] + f[c] = S[Callers]
<1> DEFINE R == [T \in SUBSET Callers |-> S[T \ {c}]]
           g == [f EXCEPT ![c] = 0]
<1>1. S \in [SUBSET Callers -> Nat]
      /\ \A T \in SUBSET Callers : \A d \in T : S[T] = S[T \ {d}] + f[d]
  BY DEF IsTally
<1>2. R \in [SUBSET Callers -> Nat]
  BY <1>1
<1>3. ASSUME NEW T \in SUBSET Callers, NEW d \in T PROVE R[T] = R[T \ {d}] + g[d]
  <2>1. /\ T \ {d} \in SUBSET Callers /\ T \ {c} \in SUBSET Callers
        /\ S[T \ {c}] \in Nat
    BY <1>1
  <2>2. R[T] = S[T \ {c}] /\ R[T \ {d}] = S[(T \ {d}) \ {c}]
    BY <2>1
  <2>3. CASE d = c
    <3>1. g[d] = 0 /\ (T \ {d}) \ {c} = T \ {c}
      BY <2>3
    <3>2. QED
      BY <2>1, <2>2, <3>1
  <2>4. CASE d # c
    <3>1. g[d] = f[d] /\ d \in T \ {c} /\ (T \ {d}) \ {c} = (T \ {c}) \ {d}
      BY <2>4
    <3>2. S[T \ {c}] = S[(T \ {c}) \ {d}] + f[d]
      BY <1>1, <2>1, <3>1
    <3>3. QED
      BY <2>2, <3>1, <3>2
  <2>5. QED
    BY <2>3, <2>4
<1>4. R[Callers] + f[c] = S[Callers]
  BY <1>1
<1>5. IsTally(R, g)
  BY <1>2, <1>3 DEF IsTally
<1>6. QED
  BY <1>4, <1>5

\* What a call that has captured is going to answer.
Owed == [c \in Callers |-> IF reply[c] > 0 THEN reply[c] ELSE 0]

captured == intents[payment].captured

AnsweredInv ==
  /\ promised \in Int
  /\ captured \in 0 .. Amount
  /\ gateway \in [{payment} -> P!Ledger]
  /\ captured <= gateway[payment].captured
  /\ \E S : IsTally(S, Owed) /\ promised + S[Callers] <= captured

\* A call comes to a result that owes nothing, answers what it owes, or ends.
Settles(c) ==
  /\ \E n \in Int : n <= 0 /\ reply' = [reply EXCEPT ![c] = n]
  /\ promised' \in {promised, promised + reply[c]}
  /\ captured' = captured
  /\ gateway' \in [{payment} -> P!Ledger] /\ gateway'[payment].captured >= gateway[payment].captured

\* A call captures: the books, the rail and what it owes go up by as much.
Earns(c, a) ==
  /\ reply[c] = Pending /\ reply' = [reply EXCEPT ![c] = a]
  /\ UNCHANGED promised
  /\ captured' = captured + a /\ captured + a <= Amount
  /\ gateway' \in [{payment} -> P!Ledger]
  /\ gateway'[payment].captured = gateway[payment].captured + a

LEMMA SettlesStep ==
  ASSUME KeyedInv, AnsweredInv, NEW c \in Callers, Settles(c)
  PROVE  AnsweredInv'
<1>1. reply \in [Callers -> Int] /\ Owed \in [Callers -> Nat]
  BY DEF KeyedInv, Owed
<1>2. PICK S : IsTally(S, Owed) /\ promised + S[Callers] <= captured
  BY DEF AnsweredInv
<1>3. PICK R : IsTally(R, [Owed EXCEPT ![c] = 0]) /\ R[Callers] + Owed[c] = S[Callers]
  BY <1>1, <1>2, TallyDrops
<1>4. Owed' = [Owed EXCEPT ![c] = 0]
  <2>1. PICK n \in Int : n <= 0 /\ reply' = [reply EXCEPT ![c] = n]
    BY DEF Settles
  <2>2. \A d \in Callers : reply'[d] = IF d = c THEN n ELSE reply[d]
    BY <1>1, <2>1
  <2>3. \A d \in Callers : Owed'[d] = IF d = c THEN 0 ELSE Owed[d]
    BY <2>1, <2>2 DEF Owed
  <2>4. Owed' = [d \in Callers |-> Owed'[d]]
    BY DEF Owed
  <2>5. QED
    BY <1>1, <2>3, <2>4
<1>5. R[Callers] \in Nat /\ S[Callers] \in Nat /\ Owed[c] \in Nat /\ reply[c] \in Int
      /\ reply[c] <= Owed[c]
  <2>1. R[Callers] \in Nat /\ S[Callers] \in Nat
    BY <1>2, <1>3 DEF IsTally
  <2>2. reply[c] \in Int /\ Owed[c] \in Nat /\ Owed[c] = IF reply[c] > 0 THEN reply[c] ELSE 0
    BY <1>1 DEF Owed
  <2>3. QED
    BY <2>1, <2>2
<1>6. promised \in Int /\ captured \in 0 .. Amount /\ captured <= gateway[payment].captured
      /\ gateway[payment].captured \in Int
  BY DEF AnsweredInv, P!Ledger
<1>7. promised' \in Int /\ promised' + R[Callers] <= captured'
  BY <1>2, <1>3, <1>5, <1>6, KeyedAssumption DEF Settles
<1>8. gateway' \in [{payment} -> P!Ledger] /\ gateway'[payment].captured \in Int
      /\ captured' <= gateway'[payment].captured /\ captured' \in 0 .. Amount
  <2>1. gateway' \in [{payment} -> P!Ledger] /\ captured' = captured
        /\ gateway'[payment].captured >= gateway[payment].captured
    BY DEF Settles
  <2>2. gateway'[payment].captured \in Int
    BY <2>1 DEF P!Ledger
  <2>3. QED
    BY <1>6, <2>1, <2>2, KeyedAssumption
<1>9. \E T : IsTally(T, Owed') /\ promised' + T[Callers] <= captured'
  BY <1>3, <1>4, <1>7
<1>10. QED
  BY <1>7, <1>8, <1>9 DEF AnsweredInv, IsTally

LEMMA EarnsStep ==
  ASSUME KeyedInv, AnsweredInv, NEW c \in Callers, NEW a \in Nat, a > 0, Earns(c, a)
  PROVE  AnsweredInv'
<1>1. reply \in [Callers -> Int] /\ Owed \in [Callers -> Nat] /\ Owed[c] = 0
  BY DEF KeyedInv, Owed, Earns, Pending
<1>2. PICK S : IsTally(S, Owed) /\ promised + S[Callers] <= captured
  BY DEF AnsweredInv
<1>3. PICK R : IsTally(R, [Owed EXCEPT ![c] = a]) /\ R[Callers] = S[Callers] + a
  BY <1>1, <1>2, TallyGrows
<1>4. Owed' = [Owed EXCEPT ![c] = a]
  BY <1>1 DEF Earns, Owed
<1>5. R[Callers] \in Nat /\ S[Callers] \in Nat
  BY <1>2, <1>3 DEF IsTally
<1>6. promised \in Int /\ captured \in 0 .. Amount /\ captured <= gateway[payment].captured
      /\ gateway[payment].captured \in Int
  BY DEF AnsweredInv, P!Ledger
<1>7. promised' \in Int /\ promised' + R[Callers] <= captured'
  BY <1>2, <1>3, <1>5, <1>6, KeyedAssumption DEF Earns
<1>8. gateway' \in [{payment} -> P!Ledger]
      /\ captured' <= gateway'[payment].captured /\ captured' \in 0 .. Amount
  BY <1>6, KeyedAssumption DEF Earns
<1>9. \E T : IsTally(T, Owed') /\ promised' + T[Callers] <= captured'
  BY <1>3, <1>4, <1>7
<1>10. QED
  BY <1>7, <1>8, <1>9 DEF AnsweredInv, IsTally

\* What a capture does to the books and the rail: nothing wraps around.
LEMMA CaptureMoves ==
  ASSUME KeyedInv, AnsweredInv, NEW c \in Callers,
         NEW a \in P!CaptureAmounts(intents[payment]), NEW o, P!Capture(c, payment, a, o)
  PROVE  /\ a \in Nat /\ a > 0
         /\ captured' = IF o = "ok" THEN captured + a ELSE captured
         /\ captured + a <= Amount
         /\ gateway' \in [{payment} -> P!Ledger]
         /\ gateway'[payment].captured = gateway[payment].captured + a
<1> DEFINE i == intents[payment]
           e == [i EXCEPT !.captured = P!Wrap(@ + a)]
           f == P!ApplyCapture(i, a)
<1>1. BooksTyped /\ a \in Int /\ a > 0
  BY CaptureBooks DEF KeyedInv
<1>2. /\ i \in [rail : {"card"}, amount : {Amount}, status : P!Status, captured : Int,
                refunded : Int, settled : Int, history : SUBSET P!EventType]
      /\ intents \in [{payment} -> [rail : {"card"}, amount : {Amount}, status : P!Status,
                            captured : Int, refunded : Int, settled : Int,
                            history : SUBSET P!EventType]]
  BY <1>1 DEF BooksTyped
<1>3. captured \in Int /\ 0 <= captured /\ captured <= Amount /\ Amount \in Int /\ Amount > 0
      /\ i.captured = captured /\ i.amount = Amount
  BY <1>2, KeyedAssumption DEF AnsweredInv, captured
<1>4. P!Wrap(i.amount - i.captured) = Amount - captured
  BY <1>3 DEF P!Wrap
<1>5. a <= Amount
  <2>1. a = i.amount \/ a <= P!Wrap(i.amount - i.captured)
    BY DEF P!CaptureAmounts
  <2>2. QED
    BY <1>1, <1>3, <1>4, <2>1
<1>6. P!Wrap(i.captured + a) = captured + a
  BY <1>1, <1>3, <1>5 DEF P!Wrap
<1>7. captured + a <= Amount
  BY <1>3, <1>6 DEF P!Capture, P!CaptureAllowed
<1>8. f.captured = captured + a
  <2>1. e.captured = captured + a
    BY <1>2, <1>6
  <2>2. f = IF e.captured >= e.amount THEN P!Transition(e, "captured")
            ELSE P!AppendEvent(e, "captured")
    BY DEF P!ApplyCapture
  <2>3. /\ e \in [rail : {"card"}, amount : {Amount}, status : P!Status, captured : Int,
                  refunded : Int, settled : Int, history : SUBSET P!EventType]
    BY <1>1, <1>2, <1>3, <1>6
  <2> HIDE DEF e, f
  <2>4. P!Transition(e, "captured").captured = e.captured
    BY <2>3 DEF P!AppendEvent, P!Transition
  <2>5. P!AppendEvent(e, "captured").captured = e.captured
    BY <2>3 DEF P!AppendEvent
  <2>6. QED
    BY <2>1, <2>2, <2>4, <2>5
<1> HIDE DEF f
<1>9. captured' = IF o = "ok" THEN captured + a ELSE captured
  <2>1. P!UpdateIntentStep(c, payment, f, TRUE, {f.status}, P!AddRowOp(payment, "captures", a), o)
    BY DEF P!Capture, f
  <2>2. intents' = IF o = "ok" THEN [intents EXCEPT ![payment] = f] ELSE intents
    BY <2>1 DEF P!UpdateIntentStep, P!UpdateIntent, P!PgUpdateIntent
  <2>3. QED
    BY <1>2, <1>3, <1>8, <2>2 DEF captured
<1>10. gateway' = [gateway EXCEPT ![payment] =
                     [gateway[payment] EXCEPT !.captured = gateway[payment].captured + a]]
  BY DEF P!Capture, P!RailCapture
<1>11. gateway[payment] \in P!Ledger /\ gateway \in [{payment} -> P!Ledger]
  BY DEF AnsweredInv
<1>12. gateway' \in [{payment} -> P!Ledger]
       /\ gateway'[payment].captured = gateway[payment].captured + a
  BY <1>1, <1>10, <1>11 DEF P!Ledger
<1>13. QED
  BY <1>1, <1>7, <1>9, <1>12

LEMMA AnsweredStep == KeyedInv /\ AnsweredInv /\ [KeyedNext]_keyedVars => AnsweredInv'
<1> SUFFICES ASSUME KeyedInv, AnsweredInv, [KeyedNext]_keyedVars PROVE AnsweredInv'
  OBVIOUS
<1>1. reply \in [Callers -> Int] /\ promised \in Int /\ gateway \in [{payment} -> P!Ledger]
      /\ gateway[payment].captured \in Int
  BY DEF KeyedInv, AnsweredInv, P!Ledger
<1>2. ASSUME UNCHANGED <<intents, gateway, reply, promised>> PROVE AnsweredInv'
  BY <1>2 DEF AnsweredInv, Owed, captured, IsTally
<1>3. ASSUME NEW c \in Callers, NEW n \in {Pending, Refused}, Answers(c, n),
             promised' \in {promised, promised + reply[c]}, UNCHANGED <<intents, gateway>>
      PROVE  AnsweredInv'
  <2>1. n \in Int /\ n <= 0
    BY DEF Pending, Refused
  <2>2. captured' = captured
    BY <1>3 DEF captured
  <2>3. gateway' = gateway /\ gateway'[payment].captured >= gateway[payment].captured
    BY <1>1, <1>3
  <2>4. \E m \in Int : m <= 0 /\ reply' = [reply EXCEPT ![c] = m]
    BY <1>3, <2>1 DEF Answers
  <2>5. Settles(c)
    BY <1>1, <1>3, <2>2, <2>3, <2>4 DEF Settles
  <2>6. QED
    BY <2>5, SettlesStep
<1>4. ASSUME NEW c \in Callers, NEW n \in {Pending, Refused}, Answers(c, n), UNCHANGED promised,
             NEW a \in P!CaptureAmounts(intents[payment]), NEW o, o # "ok",
             P!Capture(c, payment, a, o)
      PROVE  AnsweredInv'
  <2>1. n \in Int /\ n <= 0
    BY DEF Pending, Refused
  <2>2. /\ a \in Nat /\ captured' = captured /\ gateway' \in [{payment} -> P!Ledger]
        /\ gateway'[payment].captured = gateway[payment].captured + a
    <3>1. P!Capture(c, payment, a, o) /\ o # "ok"
      BY <1>4
    <3>2. /\ a \in Nat /\ gateway' \in [{payment} -> P!Ledger]
          /\ captured' = IF o = "ok" THEN captured + a ELSE captured
          /\ gateway'[payment].captured = gateway[payment].captured + a
      BY <3>1, CaptureMoves
    <3>3. QED
      BY <3>1, <3>2
  <2>3. gateway'[payment].captured >= gateway[payment].captured
    BY <1>1, <2>2
  <2>4. \E m \in Int : m <= 0 /\ reply' = [reply EXCEPT ![c] = m]
    BY <1>4, <2>1 DEF Answers
  <2>5. Settles(c)
    BY <1>4, <2>2, <2>3, <2>4 DEF Settles
  <2>6. QED
    BY <2>5, SettlesStep
<1>5. CASE UNCHANGED keyedVars
  BY <1>2, <1>5 DEF keyedVars, books
<1>6. CASE KeyedTick
  BY <1>2, <1>6 DEF KeyedTick, books
<1>7. ASSUME NEW c \in Callers, UNCHANGED <<books, reply, promised, spent>> PROVE AnsweredInv'
  BY <1>2, <1>7 DEF books
<1>8. ASSUME NEW c \in Callers, KeyedFault(c) \/ KeyedAnswerUnstored(c) PROVE AnsweredInv'
  BY <1>3, <1>8 DEF KeyedFault, Abandons, KeyedAnswerUnstored, TellsClient, books
<1>9. ASSUME NEW c \in Callers, NEW a \in P!CaptureAmounts(intents[payment]), CrashInCapture(c, a)
      PROVE  AnsweredInv'
  BY <1>4, <1>9 DEF CrashInCapture
<1>10. ASSUME NEW c \in Callers, NEW a \in P!CaptureAmounts(intents[payment]),
              NEW o \in P!Outcomes({"reply_lost", "sql_error"}), RunCapture(c, a, o)
       PROVE  AnsweredInv'
  <2>1. /\ P!Capture(c, payment, a, o) /\ reply[c] = Pending /\ UNCHANGED promised
        /\ Answers(c, IF o = "ok" THEN a ELSE Refused)
    BY <1>10 DEF RunCapture, Undecided
  <2>2. CASE o = "ok"
    <3>1. a \in Nat /\ a > 0 /\ Earns(c, a)
      BY <2>1, <2>2, CaptureMoves DEF Earns, Answers
    <3>2. QED
      BY <3>1, EarnsStep
  <2>3. CASE o # "ok"
    BY <1>4, <2>1, <2>3
  <2>4. QED
    BY <2>2, <2>3
<1>11. ASSUME NEW c \in Callers, KeyedProceed(c) PROVE AnsweredInv'
  <2>1. CASE RefuseCapture(c)
    BY <1>3, <2>1 DEF RefuseCapture, books
  <2>2. CASE InsertCapture(c)
    BY <1>2, <2>2, InsertStep DEF InsertCapture
  <2>3. CASE ReturnStatus(c)
    BY <1>7, <2>3 DEF ReturnStatus
  <2>4. CASE KeyedStoreResponse(c)
    BY <1>3, <2>4 DEF KeyedStoreResponse, TellsClient, books
  <2>5. QED
    BY <1>7, <1>10, <1>11, <2>1, <2>2, <2>3, <2>4 DEF KeyedProceed
<1>12. QED
  BY <1>5, <1>6, <1>7, <1>8, <1>9, <1>11 DEF KeyedNext

LEMMA AnsweredStart == KeyedInit => AnsweredInv
<1> SUFFICES ASSUME KeyedInit PROVE AnsweredInv
  OBVIOUS
<1>1. captured = 0
  <2>1. P!Transition(P!Draft("card", Amount), "authorized").captured = 0
    BY DEF P!Transition, P!TransitionAllowed, P!IsTerminal, P!CanTransition, P!AppendEvent, P!Draft
  <2>2. QED
    BY <2>1 DEF KeyedInit, captured
<1>2. gateway = [p \in {payment} |-> [done |-> {"authorize"}, captured |-> 0, refunded |-> 0]]
  <2> DEFINE g == P!RailAuthorize(P!EmptyLedger)
  <2>1. g = [P!EmptyLedger EXCEPT !.done = {"authorize"}]
    BY DEF P!RailAuthorize, P!EmptyLedger
  <2>2. g = [done |-> {"authorize"}, captured |-> 0, refunded |-> 0]
    BY <2>1 DEF P!EmptyLedger
  <2>3. QED
    BY <2>2 DEF KeyedInit
<1>3. gateway \in [{payment} -> P!Ledger] /\ gateway[payment].captured = 0
  BY <1>2 DEF P!Ledger
<1> DEFINE S == [T \in SUBSET Callers |-> 0]
<1>4. Owed = [c \in Callers |-> 0]
  BY DEF Owed, KeyedInit, Pending
<1>5. IsTally(S, Owed) /\ S[Callers] = 0
  BY <1>4 DEF IsTally
<1>6. promised = 0
  BY DEF KeyedInit
<1>7. QED
  BY <1>1, <1>3, <1>5, <1>6, KeyedAssumption DEF AnsweredInv

\* What clients have been answered 200 for, each capture once however often the
\* answer is replayed, is in the books and at the rail.
THEOREM AnswersAreBooked == KeyedSpec => []AnsweredIsBooked
<1>1. KeyedInv /\ AnsweredInv => AnsweredIsBooked
  <2> SUFFICES ASSUME AnsweredInv PROVE AnsweredIsBooked
    OBVIOUS
  <2>1. PICK S : IsTally(S, Owed) /\ promised + S[Callers] <= captured
    BY DEF AnsweredInv
  <2>2. S[Callers] \in Nat /\ promised \in Int /\ captured \in Int
    BY <2>1, KeyedAssumption DEF IsTally, AnsweredInv
  <2>3. promised <= captured
    BY <2>1, <2>2
  <2>4. QED
    BY <2>3 DEF AnsweredInv, AnsweredIsBooked, captured
<1>2. KeyedSpec => []AnsweredInv
  <2>1. KeyedInv /\ AnsweredInv /\ [KeyedNext]_keyedVars => AnsweredInv'
    BY AnsweredStep
  <2>2. QED
    BY <2>1, AnsweredStart, KeyedInvariant, PTL DEF KeyedSpec
<1>3. QED
  BY <1>1, <1>2, KeyedInvariant, PTL
=============================================================================
