----------------------------- MODULE RateLimiter -----------------------------
(***************************************************************************)
(* internal/gitlab: the RateLimiter and the client's calls that go through *)
(* it.  A call waits for the limiter, sends one request, and feeds the     *)
(* headers of the answer back to the limiter, or does not: the Get         *)
(* functions and DoREST do with every answer, the List functions with      *)
(* every page that is not an error, the GraphQL queries never.             *)
(*                                                                         *)
(* Times are kept as the number of ticks left, zero when the moment has    *)
(* passed, so that time has no end.  The local token bucket is the one of  *)
(* golang.org/x/time/rate.  Remaining and ResetAt, which nothing calls,    *)
(* and the two fields that only they read are left out.                    *)
(***************************************************************************)
EXTENDS Integers

CONSTANTS
    Callers,        \* goroutines that call GitLab
    Rps, Burst,     \* the arguments of NewRateLimiter; a tick refills Rps tokens
    Delays,         \* what Retry-After and RateLimit-Reset may say, in ticks
    Remainings,     \* what RateLimit-Remaining may say
    Window          \* bound: ticks over which requests are metered

ASSUME LimiterAssumption ==
    /\ Rps \in Int
    /\ Burst \in Int
    /\ Delays \subseteq Nat
    /\ Remainings \subseteq Nat
    /\ Window \in Nat

VARIABLES
    backoff,    \* ticks until backoffUntil
    tokens,     \* what the local bucket holds
    call,       \* per caller: its call in progress
    told,       \* history: ticks until the end of the longest pause that a
                \* Retry-After asked for and the limiter was told of
    learned,    \* history: per caller, the same of the pauses that it told the
                \* limiter of itself, or anyone before it last looked there
    meter       \* history: requests admitted over a window of time

vars == <<backoff, tokens, call, told, learned, meter>>

Ops == {"get", "list", "query"}

\* A zero or negative rps switches the local limiter off.
Unlimited == Rps <= 0

Capacity == IF Burst < 1 THEN 1 ELSE Burst

Larger(a, b) == IF a >= b THEN a ELSE b
Smaller(a, b) == IF a <= b THEN a ELSE b
Less(n) == IF n = 0 THEN 0 ELSE n - 1

Idle == [pc |-> "idle", op |-> "get", read |-> 0, expired |-> FALSE]
NoMeter == [on |-> FALSE, ticks |-> 0, admitted |-> 0]

Init ==
    /\ backoff = 0
    /\ tokens = Capacity
    /\ call = [c \in Callers |-> Idle]
    /\ told = 0
    /\ learned = [c \in Callers |-> 0]
    /\ meter = NoMeter

-----------------------------------------------------------------------------
(* Wait                                                                    *)

Begin(c, op) ==
    /\ call[c].pc = "idle"
    /\ call' = [call EXCEPT ![c] = [Idle EXCEPT !.pc = "wait", !.op = op]]
    /\ UNCHANGED <<backoff, tokens, told, learned, meter>>

\* backoffUntil is copied under the lock.
ReadBackoff(c) ==
    /\ call[c].pc = "wait"
    /\ call' = [call EXCEPT ![c].pc = "test", ![c].read = backoff]
    /\ learned' = [learned EXCEPT ![c] = told]
    /\ UNCHANGED <<backoff, tokens, told, meter>>

\* The copy is compared with the clock, outside the lock.
TestBackoff(c) ==
    /\ call[c].pc = "test"
    /\ call' = [call EXCEPT ![c].pc = IF call[c].read > 0 THEN "sleep" ELSE "token"]
    /\ UNCHANGED <<backoff, tokens, told, learned, meter>>

\* Mutant: after the sleep the backoff is looked at again.
WakeAndReadAgain(c) ==
    /\ call[c].pc = "sleep"
    /\ call[c].read = 0
    /\ call' = [call EXCEPT ![c].pc = "wait"]
    /\ UNCHANGED <<backoff, tokens, told, learned, meter>>

\* The timer fires.  backoffUntil is not looked at again.
Wake(c) ==
    /\ call[c].pc = "sleep"
    /\ call[c].read = 0
    /\ call' = [call EXCEPT ![c].pc = "token"]
    /\ UNCHANGED <<backoff, tokens, told, learned, meter>>

Metered == IF meter.on THEN [meter EXCEPT !.admitted = @ + 1] ELSE meter

\* Mutant: a caller does not wait for a token, it takes one on credit.
TakeTokenOnCredit(c) ==
    /\ call[c].pc = "token"
    /\ ~call[c].expired
    /\ tokens' = IF Unlimited THEN tokens ELSE tokens - 1
    /\ call' = [call EXCEPT ![c].pc = "send"]
    /\ meter' = Metered
    /\ UNCHANGED <<backoff, told, learned>>

\* rl.local.Wait: the call is admitted, at the cost of a token.
TakeToken(c) ==
    /\ call[c].pc = "token"
    /\ ~call[c].expired
    /\ Unlimited \/ tokens > 0
    /\ tokens' = IF Unlimited THEN tokens ELSE tokens - 1
    /\ call' = [call EXCEPT ![c].pc = "send"]
    /\ meter' = Metered
    /\ UNCHANGED <<backoff, told, learned>>

\* Wait returns ctx.Err(), and so does the call.
GiveUp(c) ==
    /\ call[c].pc \in {"sleep", "token"}
    /\ call[c].expired
    /\ call' = [call EXCEPT ![c] = Idle]
    /\ UNCHANGED <<backoff, tokens, told, learned, meter>>

-----------------------------------------------------------------------------
(* The answer and UpdateFromHeaders                                        *)

\* What an answer's headers say; -1 stands for a header that is missing or
\* does not parse, as does a Retry-After of 0.
Headers ==
    [after : Delays \cup {-1}, remaining : Remainings \cup {-1}, reset : Delays \cup {-1}]

CeilDiv(a, b) == (a + b - 1) \div b

\* Mutant: what an exhausted window says replaces an earlier pause.
BackoffAfterOverwriting(h) ==
    CASE h.after > 0 -> Larger(backoff, h.after)
      [] h.after <= 0 /\ h.remaining = 0 /\ h.reset >= 0 -> h.reset
      [] h.after <= 0 /\ h.remaining \in 1..9 /\ h.reset > 0 ->
            Larger(backoff, CeilDiv(h.reset, h.remaining + 1))
      [] OTHER -> backoff

\* Retry-After alone, if it is there; else a window that is exhausted, or
\* nearly so, in which case what is left of it is shared out.
BackoffAfter(h) ==
    CASE h.after > 0 -> Larger(backoff, h.after)
      [] h.after <= 0 /\ h.remaining = 0 /\ h.reset >= 0 -> Larger(backoff, h.reset)
      [] h.after <= 0 /\ h.remaining \in 1..9 /\ h.reset > 0 ->
            Larger(backoff, CeilDiv(h.reset, h.remaining + 1))
      [] OTHER -> backoff

UpdateFromHeaders(c, h) ==
    /\ backoff' = BackoffAfter(h)
    /\ told' = Larger(told, h.after)
    /\ learned' = [learned EXCEPT ![c] = Larger(@, h.after)]

\* Get functions, DoREST: the limiter is told of every answer, then the call ends.
GetAnswered(c) ==
    /\ call[c].pc = "send"
    /\ call[c].op = "get"
    /\ \E h \in Headers : UpdateFromHeaders(c, h)
    /\ call' = [call EXCEPT ![c] = Idle]
    /\ UNCHANGED <<tokens, meter>>

\* Mutant: the pages after the first do not wait for the limiter.
PageAnsweredNoWait(c) ==
    /\ call[c].pc = "send"
    /\ call[c].op = "list"
    /\ \E h \in Headers : UpdateFromHeaders(c, h)
    /\ \/ /\ call' = [call EXCEPT ![c] = Idle]
          /\ meter' = meter
       \/ /\ call' = call
          /\ meter' = Metered
    /\ UNCHANGED tokens

\* List functions: the page is good.  It was the last, or the next one waits
\* for the limiter again.
PageAnswered(c) ==
    /\ call[c].pc = "send"
    /\ call[c].op = "list"
    /\ \E h \in Headers : UpdateFromHeaders(c, h)
    /\ \E next \in {Idle, [call[c] EXCEPT !.pc = "wait"]} : call' = [call EXCEPT ![c] = next]
    /\ UNCHANGED <<tokens, meter>>

\* A page that is an error ends the call, whatever its headers say; so does a
\* request that got no answer at all.
CallFails(c) ==
    /\ call[c].pc = "send"
    /\ call' = [call EXCEPT ![c] = Idle]
    /\ UNCHANGED <<backoff, tokens, told, learned, meter>>

\* GraphQL: no headers are seen.  A query that fails is skipped; the next
\* project's, if there is one, waits for the limiter.
QueryAnswered(c) ==
    /\ call[c].pc = "send"
    /\ call[c].op = "query"
    /\ call' = [call EXCEPT ![c].pc = "wait"]
    /\ UNCHANGED <<backoff, tokens, told, learned, meter>>

-----------------------------------------------------------------------------
(* Time and contexts                                                       *)

\* The meter counts over at most Window ticks and is then switched off.
Tick ==
    /\ backoff' = Less(backoff)
    /\ told' = Less(told)
    /\ learned' = [c \in Callers |-> Less(learned[c])]
    /\ call' = [c \in Callers |-> [call[c] EXCEPT !.read = Less(@)]]
    /\ tokens' = IF Unlimited THEN tokens ELSE Smaller(Capacity, tokens + Rps)
    /\ meter' = IF meter.on /\ meter.ticks < Window
                THEN [meter EXCEPT !.ticks = @ + 1]
                ELSE NoMeter

StartMeter ==
    /\ ~meter.on
    /\ ~Unlimited
    /\ meter' = [NoMeter EXCEPT !.on = TRUE]
    /\ UNCHANGED <<backoff, tokens, call, told, learned>>

Expire(c) ==
    /\ call[c].pc # "idle"
    /\ ~call[c].expired
    /\ call' = [call EXCEPT ![c].expired = TRUE]
    /\ UNCHANGED <<backoff, tokens, told, learned, meter>>

WaitStep(c) == ReadBackoff(c) \/ TestBackoff(c) \/ Wake(c) \/ GiveUp(c)

Next ==
    \/ \E c \in Callers :
          \/ \E op \in Ops : Begin(c, op)
          \/ WaitStep(c)
          \/ TakeToken(c)
          \/ GetAnswered(c)
          \/ PageAnswered(c)
          \/ CallFails(c)
          \/ QueryAnswered(c)
          \/ Expire(c)
    \/ Tick
    \/ StartMeter

Spec == Init /\ [][Next]_vars

\* Time passes and goroutines run.  The bucket serves its waiters in order of
\* arrival, so one that waits is not passed over for ever (SF).
FairSpec ==
    /\ Spec
    /\ WF_vars(Tick)
    /\ \A c \in Callers : WF_vars(WaitStep(c)) /\ SF_vars(TakeToken(c))

-----------------------------------------------------------------------------
(* Properties                                                              *)

CallStates == {"idle", "wait", "test", "sleep", "token", "send"}

TypeOK ==
    /\ backoff \in Nat
    /\ tokens \in 0..Capacity
    /\ call \in [Callers -> [pc : CallStates, op : Ops, read : Nat, expired : BOOLEAN]]
    /\ told \in Nat
    /\ learned \in [Callers -> Nat]
    /\ meter \in [on : BOOLEAN, ticks : 0..Window, admitted : Nat]

\* While a Retry-After runs that a caller was sent and told the limiter of, or
\* that any caller had told it of when this one looked, the caller sends nothing,
\* whatever other answers do to the shared backoff meanwhile.
RetryAfterHonoured == \A c \in Callers : call[c].pc = "send" => learned[c] = 0

\* Over any window of time, the calls of all callers, their pages included,
\* are admitted no faster than the bucket's size plus its rate.
CallsArePaced == meter.on => meter.admitted <= Capacity + Rps * meter.ticks

\* Every Wait returns, also when the answers to other callers extend the
\* backoff again and again.
Waiting(c) == call[c].pc \in {"wait", "test", "sleep", "token"}
WaitEnds == \A c \in Callers : Waiting(c) ~> ~Waiting(c)

\* What a Wait has behind it in each of its states.
Passed == [wait |-> {}, test |-> {"wait"}, sleep |-> {"wait", "test"},
           token |-> {"wait", "test", "sleep"}]

\* A Wait never goes back to what it has done, and its sleep is never made
\* longer: answers to other callers extend the backoff of the Waits to come.
WaitsAreNotExtended ==
    [][\A c \in Callers :
          Waiting(c) /\ Waiting(c)' =>
              /\ call'[c].pc \notin Passed[call[c].pc]
              /\ call[c].pc # "wait" => call'[c].read <= call[c].read
      ]_vars

\* The comment on Wait: it "blocks until the rate limiter allows one more
\* request, honouring both the local token bucket and any header-derived
\* backoff".
AnyBackoffHonoured ==
    [][\A c \in Callers : call[c].pc = "token" /\ call'[c].pc = "send" => backoff = 0]_vars
=============================================================================
