----------------------------- MODULE Idempotency -----------------------------
(***************************************************************************)
(* replayOrContinueStore: how a mutating endpoint executes at most once    *)
(* per Idempotency-Key.  Calls look the response up, claim the key, run    *)
(* the handler and store its response; those are separate requests to the  *)
(* idempotency store, so calls interleave between any two of them.         *)
(*                                                                         *)
(* Time is kept relative: what is left of the life of a claim or of a      *)
(* response, and how long a call has been going on.  A life of 0 is the    *)
(* very instant of expiry, -1 is past it.  In Redis a claim and a response *)
(* are two keys with lives of their own; the in-memory store has one entry *)
(* per key, and treats the instant of expiry differently in Claim than in  *)
(* LookupResponse.                                                         *)
(*                                                                         *)
(* An operator named Mutant... is a plausible bug in the definition after  *)
(* it, which the specification never uses.                                 *)
(***************************************************************************)
EXTENDS Integers

CONSTANTS
  Callers,    \* requests that may be in flight at once, on any replica
  Keys,       \* idempotency keys, scoped by endpoint
  Backends,   \* implementations of idempotency.Store to consider
  TTL,        \* IDEMPOTENCY_KEY_TTL
  MaxCall,    \* how long a call may take, from its lookup to its reply
  Faults,     \* the kinds of fault that may happen, and
  MaxFaults   \*   how many of them in one behaviour

\* A call makes a handful of requests that time out after 5 to 15 seconds; the
\* default TTL is 24 hours.
ASSUME IdempotencyAssumption ==
  /\ Backends \subseteq {"redis", "mem"}
  /\ Faults \subseteq {"store_fails", "response_lost", "crash", "panic"}
  /\ TTL \in Nat /\ MaxCall \in Nat /\ MaxFaults \in Nat
  /\ 0 < MaxCall /\ 2 * MaxCall < TTL

VARIABLES
  backend,    \* the store in use
  claim,      \* what is left of the life of the claim of a key
  response,   \* ... and of its stored response
  call,       \* per caller, the step it is at, its key and its age
  ran,        \* per key, what is left of a TTL since a call last claimed it
  answered,   \* keys for which some call has had a handler's response
  faults      \* faults so far

vars == <<backend, claim, response, call, ran, answered, faults>>

Step == {"idle", "lookup", "claim", "run", "store"}

-----------------------------------------------------------------------------
(* The store.                                                              *)

Found(k) == IF backend = "redis" THEN response[k] > 0 ELSE response[k] >= 0

MutantFreeIfUnanswered(k) == response[k] <= 0

Free(k) == IF backend = "redis" THEN claim[k] <= 0 ELSE claim[k] <= 0 /\ response[k] <= 0

\* Claim: SET NX of the claim key, or a fresh entry in place of an expired one.
TakeClaim(k) ==
  /\ claim' = [claim EXCEPT ![k] = TTL]
  /\ response' = IF backend = "redis" THEN response ELSE [response EXCEPT ![k] = -1]

MutantReleasesClaim(k) ==
  /\ response' = [response EXCEPT ![k] = TTL]
  /\ claim' = [claim EXCEPT ![k] = -1]

MutantExtendsLife(k) ==
  /\ response' = [response EXCEPT ![k] = claim[k] + TTL]
  /\ claim' = IF backend = "redis" THEN claim ELSE [claim EXCEPT ![k] = -1]

\* StoreResponse: SET of the response key, or an entry that is no claim.
PutResponse(k) ==
  /\ response' = [response EXCEPT ![k] = TTL]
  /\ claim' = IF backend = "redis" THEN claim ELSE [claim EXCEPT ![k] = -1]

-----------------------------------------------------------------------------
(* A call.                                                                 *)

At(c, step) == call[c].pc = step

Goes(c, step) == call' = [call EXCEPT ![c].pc = step]

\* The call is over; a call that is over has no age.
Returns(c) == call' = [call EXCEPT ![c] = [pc |-> "idle", key |-> @.key, age |-> 0]]

Init ==
  /\ backend \in Backends
  /\ claim = [k \in Keys |-> -1]
  /\ response = [k \in Keys |-> -1]
  /\ call \in [Callers -> [pc : {"idle"}, key : Keys, age : {0}]]
  /\ ran = [k \in Keys |-> 0]
  /\ answered = {}
  /\ faults = 0

Begin(c, k) ==
  /\ At(c, "idle")
  /\ call' = [call EXCEPT ![c] = [pc |-> "lookup", key |-> k, age |-> 0]]
  /\ UNCHANGED <<backend, claim, response, ran, answered, faults>>

\* A hit is replayed to the client.
LookupResponse(c) ==
  LET k == call[c].key
  IN /\ At(c, "lookup")
     /\ IF Found(k)
        THEN Returns(c) /\ answered' = answered \cup {k}
        ELSE Goes(c, "claim") /\ UNCHANGED answered
     /\ UNCHANGED <<backend, claim, response, ran, faults>>

Claim(c) ==
  LET k == call[c].key
  IN /\ At(c, "claim")
     /\ Free(k)
     /\ TakeClaim(k)
     /\ ran' = [ran EXCEPT ![k] = TTL]
     /\ Goes(c, "run")
     /\ UNCHANGED <<backend, answered, faults>>

\* 409, idempotency key in flight.
Conflict(c) ==
  /\ At(c, "claim")
  /\ ~Free(call[c].key)
  /\ Returns(c)
  /\ UNCHANGED <<backend, claim, response, ran, answered, faults>>

Handle(c) ==
  /\ At(c, "run")
  /\ Goes(c, "store")
  /\ UNCHANGED <<backend, claim, response, ran, answered, faults>>

StoreResponse(c) ==
  LET k == call[c].key
  IN /\ At(c, "store")
     /\ PutResponse(k)
     /\ answered' = answered \cup {k}
     /\ Returns(c)
     /\ UNCHANGED <<backend, ran, faults>>

-----------------------------------------------------------------------------
(* Faults.  Those of Redis or of a replica are not for the in-memory      *)
(* store, which lives and dies with the process.                           *)

CountFault(kind) ==
  /\ kind \in Faults
  /\ faults < MaxFaults
  /\ faults' = faults + 1

Fault(kind) == backend = "redis" /\ CountFault(kind)

\* Redis fails the lookup, or fails the claim, which may have been set: 500.
StoreFails(c) ==
  /\ Fault("store_fails")
  /\ \/ At(c, "lookup") /\ UNCHANGED <<claim, response>>
     \/ At(c, "claim") /\ UNCHANGED <<claim, response>>
     \/ At(c, "claim") /\ Free(call[c].key) /\ TakeClaim(call[c].key)
  /\ Returns(c)
  /\ UNCHANGED <<backend, ran, answered>>

MutantFreesOnError(c) ==
  /\ Fault("response_lost")
  /\ At(c, "store")
  /\ claim' = [claim EXCEPT ![call[c].key] = -1]
  /\ Returns(c)
  /\ UNCHANGED <<backend, response, ran, answered>>

\* The response is stored under the context of the request, which is
\* cancelled when the client goes away: the error is logged, nothing else.
ResponseLost(c) ==
  /\ Fault("response_lost")
  /\ At(c, "store")
  /\ Returns(c)
  /\ UNCHANGED <<backend, claim, response, ran, answered>>

\* Redis refuses the response of a client that is still there: the client has
\* its answer, a retry finds none.
AnswerUnstored(c) ==
  /\ Fault("store_fails")
  /\ At(c, "store")
  /\ answered' = answered \cup {call[c].key}
  /\ Returns(c)
  /\ UNCHANGED <<backend, claim, response, ran>>

\* The handler panics, as it does on the nil adapter of a rail without a URL;
\* net/http recovers, the claim stays.
Panic(c) ==
  /\ CountFault("panic")
  /\ At(c, "run")
  /\ Returns(c)
  /\ UNCHANGED <<backend, claim, response, ran, answered>>

Crash(c) ==
  /\ Fault("crash")
  /\ ~At(c, "idle")
  /\ Returns(c)
  /\ UNCHANGED <<backend, claim, response, ran, answered>>

-----------------------------------------------------------------------------
MutantNoExpiry(n) == n

Shorter(n) == IF n >= 0 THEN n - 1 ELSE -1

Tick ==
  /\ \A c \in Callers : call[c].age < MaxCall
  /\ claim' = [k \in Keys |-> Shorter(claim[k])]
  /\ response' = [k \in Keys |-> Shorter(response[k])]
  /\ ran' = [k \in Keys |-> IF ran[k] > 0 THEN ran[k] - 1 ELSE 0]
  /\ call' = [c \in Callers |-> IF At(c, "idle") THEN call[c]
                                ELSE [call[c] EXCEPT !.age = @ + 1]]
  /\ UNCHANGED <<backend, answered, faults>>

Proceed(c) ==
  \/ LookupResponse(c)
  \/ Claim(c)
  \/ Conflict(c)
  \/ Handle(c)
  \/ StoreResponse(c)

Next ==
  \/ \E c \in Callers :
       \/ \E k \in Keys : Begin(c, k)
       \/ Proceed(c)
       \/ StoreFails(c)
       \/ ResponseLost(c)
       \/ AnswerUnstored(c)
       \/ Panic(c)
       \/ Crash(c)
  \/ Tick

Spec == Init /\ [][Next]_vars

\* Time goes on, and so does a call that has begun.
FairSpec == Spec /\ WF_vars(Tick) /\ \A c \in Callers : WF_vars(Proceed(c))

-----------------------------------------------------------------------------
(* Properties.                                                             *)

TypeOK ==
  /\ backend \in Backends
  /\ claim \in [Keys -> -1 .. TTL]
  /\ response \in [Keys -> -1 .. TTL]
  /\ call \in [Callers -> [pc : Step, key : Keys, age : 0 .. MaxCall]]
  /\ ran \in [Keys -> 0 .. TTL]
  /\ answered \subseteq Keys
  /\ faults \in 0 .. MaxFaults

Executing(c) == call[c].pc \in {"run", "store"}

\* At most one call executes the handler of a key at a time, although the only
\* thing that keeps the others out is a claim that expires.
ExclusiveHandler ==
  \A c, d \in Callers :
    Executing(c) /\ Executing(d) /\ call[c].key = call[d].key => c = d

\* A call never runs the handler of a key whose response is still kept, even
\* one that looked it up before it was stored and claims after the first
\* claim, which expires before the response does.
NoRunWhileAnswered ==
  [][\A c \in Callers :
       ~Executing(c) /\ Executing(c)' => response[call[c].key] <= 0]_vars

\* Whatever is lost or stops, a handler is not run again for a key within a
\* TTL of the claim under which it was last run.
OneRunPerTTL ==
  [][\A c \in Callers :
       ~Executing(c) /\ Executing(c)' => ran[call[c].key] = 0]_vars

\* A client that keeps calling with its key is in the end given the response
\* of a handler: a claim that a crashed call leaves behind expires.
RetryAnswered ==
  \A k \in Keys :
    []<>(\E c \in Callers : At(c, "lookup") /\ call[c].key = k) => <>(k \in answered)

-----------------------------------------------------------------------------
(* The inductive invariant behind the safety properties.                   *)

\* The claim of a call that executes outlives the call.
ClaimHeld ==
  \A c \in Callers : Executing(c) => claim[call[c].key] + call[c].age >= TTL

\* If a response has appeared since a call looked for one, the claim under
\* which it was made cannot be over before that call is.
ClaimCovers ==
  \A c \in Callers :
    At(c, "claim") /\ backend = "redis" /\ response[call[c].key] > 0 =>
      claim[call[c].key] + call[c].age >= TTL - MaxCall

\* For a TTL after a run there is a claim, or in memory a response, in the way
\* of another one.
RunGuarded ==
  \A k \in Keys :
    ran[k] > 0 => \/ claim[k] >= ran[k]
                  \/ backend # "redis" /\ response[k] >= ran[k]

IdempotencyInv == TypeOK /\ ExclusiveHandler /\ ClaimHeld /\ ClaimCovers /\ RunGuarded
=============================================================================
