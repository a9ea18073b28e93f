-------------------------- MODULE RateLimiterProofs --------------------------
(***************************************************************************)
(* The safety of the rate limiter for any number of callers, any rate and  *)
(* any headers.                                                            *)
(*                                                                         *)
(* A caller acts on the copy of backoffUntil that it made, so what it has  *)
(* learned must be covered by the copy while it waits (CopyCovers), and    *)
(* what the limiter was told by backoffUntil itself at all times           *)
(* (BackoffCovers): backoffUntil never moves back.  For the pace, the      *)
(* tokens left in the bucket are counted with the requests already         *)
(* admitted.                                                               *)
(***************************************************************************)
EXTENDS RateLimiter, TLAPS

BackoffCovers == told <= backoff /\ \A c \in Callers : learned[c] <= told

CopyCovers ==
    \A c \in Callers :
        call[c].pc \in {"test", "sleep"} => learned[c] <= call[c].read

NothingPending ==
    \A c \in Callers : call[c].pc \in {"token", "send"} => learned[c] = 0

BucketAccounts ==
    meter.on => /\ ~Unlimited
                /\ meter.admitted + tokens <= Capacity + Rps * meter.ticks

LimiterInv == TypeOK /\ BackoffCovers /\ CopyCovers /\ NothingPending /\ BucketAccounts

\* The bucket holds at least one token when it is full.
LEMMA CapacityType == Capacity \in Nat \ {0}
BY LimiterAssumption DEF Capacity

\* What a header says is a number.
LEMMA HeaderTypes ==
    \A h \in Headers : h.after \in Int /\ h.remaining \in Int /\ h.reset \in Int
<1>1. Delays \cup {-1} \subseteq Int /\ Remainings \cup {-1} \subseteq Int
  <2>1. -1 \in Int
    OBVIOUS
  <2>. QED
    BY <2>1, LimiterAssumption
<1>. QED
  BY <1>1 DEF Headers

\* A header never shortens the backoff.
LEMMA BackoffGrows ==
    ASSUME backoff \in Nat, NEW h \in Headers
    PROVE  /\ BackoffAfter(h) \in Nat
           /\ BackoffAfter(h) >= backoff
           /\ BackoffAfter(h) >= h.after
<1>1. h.after \in Int /\ h.remaining \in Int /\ h.reset \in Int
  BY HeaderTypes
<1>2. \A x \in Int : /\ Larger(backoff, x) \in Nat
                     /\ Larger(backoff, x) >= backoff
                     /\ Larger(backoff, x) >= x
  BY DEF Larger
<1>3. h.remaining \in 1..9 => CeilDiv(h.reset, h.remaining + 1) \in Int
  BY <1>1 DEF CeilDiv
<1>. QED
  BY <1>1, <1>2, <1>3 DEF BackoffAfter

\* Initially nobody has learned anything and the bucket is full.
LEMMA LimiterInit == Init => LimiterInv
<1>. SUFFICES ASSUME Init PROVE LimiterInv
  OBVIOUS
<1>. USE CapacityType, LimiterAssumption DEF Init, Idle, NoMeter
<1>1. TypeOK
  BY DEF TypeOK, CallStates, Ops
<1>2. BackoffCovers /\ CopyCovers /\ NothingPending /\ BucketAccounts
  BY DEF BackoffCovers, CopyCovers, NothingPending, BucketAccounts
<1>. QED
  BY <1>1, <1>2 DEF LimiterInv

\* The steps that change no more than the state of one call.
LEMMA CallOnly ==
    ASSUME LimiterInv, NEW c \in Callers, NEW r,
           r \in [pc : CallStates, op : Ops, read : Nat, expired : BOOLEAN],
           r.pc \in {"test", "sleep"} => learned[c] <= r.read,
           r.pc \in {"token", "send"} => learned[c] = 0,
           call' = [call EXCEPT ![c] = r],
           UNCHANGED <<backoff, tokens, told, learned, meter>>
    PROVE  LimiterInv'
<1>. USE DEF LimiterInv
<1>1. TypeOK'
  BY DEF TypeOK
<1>2. BackoffCovers' /\ BucketAccounts'
  BY DEF BackoffCovers, BucketAccounts, Unlimited, Capacity
<1>3. CopyCovers'
  BY DEF CopyCovers, TypeOK
<1>4. NothingPending'
  BY DEF NothingPending, TypeOK
<1>. QED
  BY <1>1, <1>2, <1>3, <1>4

\* backoffUntil is copied: the caller learns what the limiter has been told.
LEMMA ReadStep ==
    ASSUME LimiterInv, NEW c \in Callers, ReadBackoff(c)
    PROVE  LimiterInv'
<1>. USE DEF LimiterInv
<1>1. /\ UNCHANGED <<backoff, tokens, told, meter>>
      /\ learned' = [learned EXCEPT ![c] = told]
      /\ call' = [call EXCEPT ![c].pc = "test", ![c].read = backoff]
  BY DEF ReadBackoff
<1>2. call[c] \in [pc : CallStates, op : Ops, read : Nat, expired : BOOLEAN]
  BY DEF TypeOK
<1>3. /\ call'[c].pc = "test" /\ call'[c].read = backoff /\ learned'[c] = told
      /\ \A d \in Callers \ {c} : call'[d] = call[d] /\ learned'[d] = learned[d]
  BY <1>1, <1>2 DEF TypeOK
<1>4. TypeOK'
  <2>. DEFINE r == [call[c] EXCEPT !.pc = "test", !.read = backoff]
  <2>1. r \in [pc : CallStates, op : Ops, read : Nat, expired : BOOLEAN]
    BY <1>2 DEF CallStates, TypeOK
  <2>2. call' = [call EXCEPT ![c] = r]
    BY <1>1, <1>2 DEF TypeOK
  <2>. HIDE DEF r
  <2>. QED
    BY <1>1, <2>1, <2>2 DEF TypeOK
<1>5. BackoffCovers' /\ CopyCovers' /\ NothingPending'
  BY <1>1, <1>3 DEF BackoffCovers, CopyCovers, NothingPending, TypeOK
<1>6. BucketAccounts'
  BY <1>1 DEF BucketAccounts, Unlimited, Capacity
<1>. QED
  BY <1>4, <1>5, <1>6

\* The steps that feed an answer's headers to the limiter: the caller is then
\* at the beginning of a wait, or has none.
LEMMA AnswerStep ==
    ASSUME LimiterInv, NEW c \in Callers, NEW h \in Headers, NEW r,
           UpdateFromHeaders(c, h),
           r \in [pc : {"idle", "wait"}, op : Ops, read : Nat, expired : BOOLEAN],
           call' = [call EXCEPT ![c] = r],
           UNCHANGED <<tokens, meter>>
    PROVE  LimiterInv'
<1>. USE DEF LimiterInv
<1>1. /\ backoff' \in Nat
      /\ backoff' >= backoff
      /\ backoff' >= h.after
  BY BackoffGrows DEF TypeOK, UpdateFromHeaders
<1>2. h.after \in Int
  BY HeaderTypes
<1>3. learned' = [learned EXCEPT ![c] = Larger(learned[c], h.after)]
  BY DEF UpdateFromHeaders
<1>4. /\ told' \in Nat /\ told <= told' /\ told' <= backoff'
      /\ Larger(learned[c], h.after) \in Nat /\ Larger(learned[c], h.after) <= told'
  BY <1>1, <1>2 DEF Larger, TypeOK, BackoffCovers, UpdateFromHeaders
<1>5. TypeOK'
  <2>1. learned' \in [Callers -> Nat]
    BY <1>3, <1>4 DEF TypeOK
  <2>2. call' \in [Callers -> [pc : CallStates, op : Ops, read : Nat, expired : BOOLEAN]]
    BY DEF TypeOK, CallStates
  <2>. QED
    BY <1>1, <1>4, <2>1, <2>2 DEF TypeOK
<1>6. BackoffCovers'
  BY <1>1, <1>3, <1>4 DEF BackoffCovers, TypeOK
<1>7. CopyCovers' /\ NothingPending'
  BY <1>3 DEF CopyCovers, NothingPending, TypeOK
<1>8. BucketAccounts'
  BY DEF BucketAccounts, Unlimited, Capacity
<1>. QED
  BY <1>5, <1>6, <1>7, <1>8

\* A token is taken: one request more, one token less.
LEMMA TokenStep ==
    ASSUME LimiterInv, NEW c \in Callers, TakeToken(c)
    PROVE  LimiterInv'
<1>. USE CapacityType, LimiterAssumption DEF LimiterInv, TakeToken
<1>1. TypeOK'
  BY DEF TypeOK, CallStates, Unlimited, Metered
<1>2. BackoffCovers'
  BY DEF BackoffCovers
<1>3. CopyCovers' /\ NothingPending'
  BY DEF CopyCovers, NothingPending, TypeOK
<1>4. BucketAccounts'
  <2>. SUFFICES ASSUME meter'.on PROVE BucketAccounts'
    BY DEF BucketAccounts
  <2>1. meter.on /\ meter' = [meter EXCEPT !.admitted = meter.admitted + 1]
    BY DEF Metered
  <2>2. tokens' = tokens - 1
    BY <2>1 DEF BucketAccounts
  <2>3. /\ meter'.admitted = meter.admitted + 1
        /\ meter'.ticks = meter.ticks
    BY <2>1 DEF TypeOK
  <2>4. Capacity + Rps * meter.ticks \in Int
    BY DEF TypeOK
  <2>5. meter.admitted \in Nat /\ tokens \in Nat
    BY DEF TypeOK
  <2>6. meter'.admitted + tokens' = meter.admitted + tokens
    BY ONLY <2>2, <2>3, <2>5
  <2>. QED
    BY <2>1, <2>3, <2>6 DEF BucketAccounts, Unlimited, Capacity
<1>. QED
  BY <1>1, <1>2, <1>3, <1>4

\* A tick brings every moment one tick nearer and Rps tokens.
LEMMA TickStep ==
    ASSUME LimiterInv, Tick
    PROVE  LimiterInv'
<1>. USE CapacityType, LimiterAssumption DEF LimiterInv, Tick
<1>1. \A n \in Nat : Less(n) \in Nat /\ (n = 0 => Less(n) = 0)
  BY DEF Less
<1>2. \A m, n \in Nat : m <= n => Less(m) <= Less(n)
  BY DEF Less
<1>3. \A c \in Callers :
        /\ call'[c].pc = call[c].pc
        /\ call'[c].read = Less(call[c].read)
        /\ learned'[c] = Less(learned[c])
  BY DEF TypeOK
<1>4. tokens' \in 0..Capacity /\ (~Unlimited => tokens' <= tokens + Rps)
  BY DEF TypeOK, Smaller, Unlimited
<1>5. TypeOK'
  <2>1. backoff' \in Nat /\ told' \in Nat /\ learned' \in [Callers -> Nat]
    BY <1>1 DEF TypeOK
  <2>2. call' \in [Callers -> [pc : CallStates, op : Ops, read : Nat, expired : BOOLEAN]]
    BY <1>1 DEF TypeOK
  <2>3. meter' \in [on : BOOLEAN, ticks : 0..Window, admitted : Nat]
    BY DEF TypeOK, NoMeter
  <2>. QED
    BY <1>4, <2>1, <2>2, <2>3 DEF TypeOK
<1>6. BackoffCovers'
  BY <1>2, <1>3 DEF BackoffCovers, TypeOK
<1>7. CopyCovers'
  BY <1>2, <1>3 DEF CopyCovers, TypeOK
<1>8. NothingPending'
  BY <1>1, <1>3 DEF NothingPending, TypeOK
<1>9. BucketAccounts'
  <2>. SUFFICES ASSUME meter'.on PROVE BucketAccounts'
    BY DEF BucketAccounts
  <2>1. meter.on /\ meter' = [meter EXCEPT !.ticks = meter.ticks + 1]
    BY DEF NoMeter
  <2>2. ~Unlimited /\ meter.admitted + tokens <= Capacity + Rps * meter.ticks
    BY <2>1 DEF BucketAccounts
  <2>3. /\ meter'.ticks = meter.ticks + 1
        /\ meter'.admitted = meter.admitted
    BY <2>1 DEF TypeOK
  <2>4. Rps * (meter.ticks + 1) = Rps * meter.ticks + Rps
    BY DEF TypeOK
  <2>5. Rps * meter.ticks \in Int
    BY DEF TypeOK
  <2>6. meter.admitted + tokens' <= Capacity + Rps * (meter.ticks + 1)
    BY <1>4, <2>2, <2>4, <2>5 DEF TypeOK
  <2>. QED
    BY <2>2, <2>3, <2>6 DEF BucketAccounts, Unlimited, Capacity
<1>. QED
  BY <1>5, <1>6, <1>7, <1>8, <1>9

\* Every step preserves the invariant.
LEMMA LimiterStep == LimiterInv /\ [Next]_vars => LimiterInv'
<1>. SUFFICES ASSUME LimiterInv, [Next]_vars PROVE LimiterInv'
  OBVIOUS
<1>. USE DEF LimiterInv
<1>t. \A c \in Callers :
        call[c] \in [pc : CallStates, op : Ops, read : Nat, expired : BOOLEAN]
  BY DEF TypeOK
<1>i. Idle \in [pc : {"idle", "wait"}, op : Ops, read : Nat, expired : BOOLEAN]
  BY DEF Idle, Ops
<1>j. Idle \in [pc : CallStates, op : Ops, read : Nat, expired : BOOLEAN] /\ Idle.pc = "idle"
  BY DEF Idle, Ops, CallStates
<1>1. ASSUME NEW c \in Callers, NEW op \in Ops, Begin(c, op) PROVE LimiterInv'
  <2>. DEFINE r == [Idle EXCEPT !.pc = "wait", !.op = op]
  <2>1. r \in [pc : CallStates, op : Ops, read : Nat, expired : BOOLEAN] /\ r.pc = "wait"
    BY <1>j DEF CallStates, Idle
  <2>2. call' = [call EXCEPT ![c] = r] /\ UNCHANGED <<backoff, tokens, told, learned, meter>>
    BY <1>1 DEF Begin
  <2>. HIDE DEF r
  <2>. QED
    BY <2>1, <2>2, CallOnly
<1>2. ASSUME NEW c \in Callers, ReadBackoff(c) PROVE LimiterInv'
  BY <1>2, ReadStep
<1>3. ASSUME NEW c \in Callers, TestBackoff(c) PROVE LimiterInv'
  <2>. DEFINE r == [call[c] EXCEPT !.pc = IF call[c].read > 0 THEN "sleep" ELSE "token"]
  <2>1. /\ r \in [pc : CallStates, op : Ops, read : Nat, expired : BOOLEAN]
        /\ r.pc \in {"test", "sleep"} => learned[c] <= r.read
        /\ r.pc \in {"token", "send"} => learned[c] = 0
    BY <1>3, <1>t DEF CallStates, TypeOK, CopyCovers, TestBackoff
  <2>2. call' = [call EXCEPT ![c] = r] /\ UNCHANGED <<backoff, tokens, told, learned, meter>>
    BY <1>3, <1>t DEF TestBackoff, TypeOK
  <2>. HIDE DEF r
  <2>. QED
    BY <2>1, <2>2, CallOnly
<1>4. ASSUME NEW c \in Callers, Wake(c) PROVE LimiterInv'
  <2>. DEFINE r == [call[c] EXCEPT !.pc = "token"]
  <2>1. /\ r \in [pc : CallStates, op : Ops, read : Nat, expired : BOOLEAN]
        /\ r.pc = "token" /\ learned[c] = 0
    BY <1>4, <1>t DEF CallStates, TypeOK, CopyCovers, Wake
  <2>2. call' = [call EXCEPT ![c] = r] /\ UNCHANGED <<backoff, tokens, told, learned, meter>>
    BY <1>4, <1>t DEF Wake, TypeOK
  <2>. HIDE DEF r
  <2>. QED
    BY <2>1, <2>2, CallOnly
<1>5. ASSUME NEW c \in Callers, GiveUp(c) PROVE LimiterInv'
  BY <1>5, <1>j, CallOnly DEF GiveUp
<1>6. ASSUME NEW c \in Callers, TakeToken(c) PROVE LimiterInv'
  BY <1>6, TokenStep
<1>7. ASSUME NEW c \in Callers, GetAnswered(c) PROVE LimiterInv'
  BY <1>7, <1>i, AnswerStep DEF GetAnswered
<1>8. ASSUME NEW c \in Callers, PageAnswered(c) PROVE LimiterInv'
  <2>1. PICK h \in Headers : UpdateFromHeaders(c, h)
    BY <1>8 DEF PageAnswered
  <2>2. PICK next \in {Idle, [call[c] EXCEPT !.pc = "wait"]} :
          call' = [call EXCEPT ![c] = next]
    BY <1>8 DEF PageAnswered
  <2>3. next \in [pc : {"idle", "wait"}, op : Ops, read : Nat, expired : BOOLEAN]
    BY <1>i, <1>t, <2>2
  <2>4. UNCHANGED <<tokens, meter>>
    BY <1>8 DEF PageAnswered
  <2>. QED
    BY <2>1, <2>2, <2>3, <2>4, AnswerStep
<1>9. ASSUME NEW c \in Callers, CallFails(c) PROVE LimiterInv'
  BY <1>9, <1>j, CallOnly DEF CallFails
<1>10. ASSUME NEW c \in Callers, QueryAnswered(c) PROVE LimiterInv'
  <2>. DEFINE r == [call[c] EXCEPT !.pc = "wait"]
  <2>1. r \in [pc : CallStates, op : Ops, read : Nat, expired : BOOLEAN] /\ r.pc = "wait"
    BY <1>t DEF CallStates
  <2>2. call' = [call EXCEPT ![c] = r] /\ UNCHANGED <<backoff, tokens, told, learned, meter>>
    BY <1>10, <1>t DEF QueryAnswered, TypeOK
  <2>. HIDE DEF r
  <2>. QED
    BY <2>1, <2>2, CallOnly
<1>11. ASSUME NEW c \in Callers, Expire(c) PROVE LimiterInv'
  <2>. DEFINE r == [call[c] EXCEPT !.expired = TRUE]
  <2>1. /\ r \in [pc : CallStates, op : Ops, read : Nat, expired : BOOLEAN]
        /\ r.pc = call[c].pc /\ r.read = call[c].read
    BY <1>t
  <2>2. call' = [call EXCEPT ![c] = r] /\ UNCHANGED <<backoff, tokens, told, learned, meter>>
    BY <1>11, <1>t DEF Expire, TypeOK
  <2>3. /\ r.pc \in {"test", "sleep"} => learned[c] <= r.read
        /\ r.pc \in {"token", "send"} => learned[c] = 0
    BY <2>1 DEF CopyCovers, NothingPending
  <2>. HIDE DEF r
  <2>. QED
    BY <2>1, <2>2, <2>3, CallOnly
<1>12. CASE Tick
  BY <1>12, TickStep
<1>13. CASE StartMeter
  <2>. USE <1>13 DEF StartMeter, NoMeter
  <2>1. TypeOK'
    <3>1. meter' = [on |-> TRUE, ticks |-> 0, admitted |-> 0]
      OBVIOUS
    <3>2. meter' \in [on : BOOLEAN, ticks : 0..Window, admitted : Nat]
      <4>1. 0 \in 0..Window /\ 0 \in Nat
        BY LimiterAssumption
      <4>2. [on |-> TRUE, ticks |-> 0, admitted |-> 0]
               \in [on : BOOLEAN, ticks : 0..Window, admitted : Nat]
        BY ONLY <4>1
      <4>. QED
        BY ONLY <3>1, <4>2
    <3>. QED
      BY <3>2 DEF TypeOK
  <2>2. BackoffCovers' /\ CopyCovers' /\ NothingPending'
    BY DEF BackoffCovers, CopyCovers, NothingPending
  <2>3. BucketAccounts'
    BY LimiterAssumption, CapacityType DEF BucketAccounts, TypeOK, Unlimited, Capacity
  <2>. QED
    BY <2>1, <2>2, <2>3
<1>14. CASE UNCHANGED vars
  BY <1>14 DEF vars, TypeOK, BackoffCovers, CopyCovers, NothingPending,
     BucketAccounts, Unlimited, Capacity
<1>. QED
  BY <1>1, <1>2, <1>3, <1>4, <1>5, <1>6, <1>7, <1>8, <1>9, <1>10, <1>11, <1>12, <1>13, <1>14
  DEF Next, WaitStep

\* The invariant holds in every behaviour of the limiter and its callers.
THEOREM LimiterSafe == Spec => []LimiterInv
BY LimiterInit, LimiterStep, PTL DEF Spec

\* Type correctness, for every rate, every burst and every set of callers.
THEOREM LimiterTypes == Spec => []TypeOK
<1>1. LimiterInv => TypeOK
  BY DEF LimiterInv
<1>. QED
  BY <1>1, LimiterSafe, PTL

\* A caller waits out every Retry-After that it was sent or that the limiter had
\* been told of when it looked.
THEOREM RetryAfterIsHonoured == Spec => []RetryAfterHonoured
<1>1. LimiterInv => RetryAfterHonoured
  BY DEF LimiterInv, NothingPending, RetryAfterHonoured
<1>. QED
  BY <1>1, LimiterSafe, PTL

\* The calls of all callers together keep to the bucket's size and rate.
THEOREM CallsKeepPace == Spec => []CallsArePaced
<1>1. LimiterInv => CallsArePaced
  <2>. SUFFICES ASSUME LimiterInv, meter.on
                PROVE  meter.admitted <= Capacity + Rps * meter.ticks
    BY DEF CallsArePaced
  <2>1. meter.admitted + tokens <= Capacity + Rps * meter.ticks
    BY DEF LimiterInv, BucketAccounts
  <2>2. meter.admitted \in Nat /\ tokens \in Nat /\ meter.ticks \in Nat
    BY CapacityType, LimiterAssumption DEF LimiterInv, TypeOK
  <2>3. Rps * meter.ticks \in Int
    BY <2>2, LimiterAssumption
  <2>. QED
    BY <2>1, <2>2, <2>3, CapacityType
<1>. QED
  BY <1>1, LimiterSafe, PTL

\* Every step of a Wait moves it on; every other leaves it where it is.
LEMMA WaitMoves ==
    ASSUME LimiterInv, [Next]_vars, NEW c \in Callers, Waiting(c), Waiting(c)'
    PROVE  /\ call'[c].pc \notin Passed[call[c].pc]
           /\ call[c].pc # "wait" => call'[c].read <= call[c].read
<1>. DEFINE Moved == /\ call'[c].pc \notin Passed[call[c].pc]
                     /\ call[c].pc # "wait" => call'[c].read <= call[c].read
<1>. SUFFICES Moved
  OBVIOUS
<1>1. /\ call \in [Callers -> [pc : CallStates, op : Ops, read : Nat, expired : BOOLEAN]]
      /\ call[c] \in [pc : CallStates, op : Ops, read : Nat, expired : BOOLEAN]
      /\ call[c].read \in Nat
      /\ call[c].pc \in {"wait", "test", "sleep", "token"}
      /\ call'[c].pc \in {"wait", "test", "sleep", "token"}
  BY DEF LimiterInv, TypeOK, Waiting
<1>2. ASSUME call'[c].pc = call[c].pc, call'[c].read <= call[c].read  PROVE Moved
  BY <1>1, <1>2 DEF Passed
<1>3. ASSUME call'[c] = call[c]  PROVE Moved
  BY <1>1, <1>2, <1>3
<1>4. CASE ReadBackoff(c)
  BY <1>1, <1>4 DEF ReadBackoff, Passed
<1>5. CASE TestBackoff(c)
  BY <1>1, <1>5 DEF TestBackoff, Passed
<1>6. CASE Wake(c)
  BY <1>1, <1>6 DEF Wake, Passed
<1>7. CASE Expire(c)
  BY <1>1, <1>2, <1>7 DEF Expire
<1>8. CASE Tick
  <2>1. call'[c].pc = call[c].pc /\ call'[c].read = Less(call[c].read)
    BY <1>1, <1>8 DEF Tick
  <2>2. Less(call[c].read) <= call[c].read
    BY <1>1 DEF Less
  <2>. QED
    BY <1>2, <2>1, <2>2
<1>9. ASSUME NEW op \in Ops, Begin(c, op)  PROVE FALSE
  BY <1>1, <1>9 DEF Begin
<1>10. ASSUME \/ TakeToken(c) \/ GiveUp(c) \/ GetAnswered(c) \/ PageAnswered(c)
              \/ CallFails(c) \/ QueryAnswered(c)
       PROVE  FALSE
  BY <1>1, <1>10 DEF TakeToken, GiveUp, GetAnswered, PageAnswered, CallFails, QueryAnswered, Idle
<1>11. ASSUME NEW d \in Callers, d # c,
              \/ \E op \in Ops : Begin(d, op)
              \/ WaitStep(d) \/ TakeToken(d) \/ GetAnswered(d) \/ PageAnswered(d)
              \/ CallFails(d) \/ QueryAnswered(d) \/ Expire(d)
       PROVE  call'[c] = call[c]
  BY <1>1, <1>11 DEF Begin, WaitStep, ReadBackoff, TestBackoff, Wake, GiveUp, TakeToken,
     GetAnswered, PageAnswered, CallFails, QueryAnswered, Expire
<1>12. CASE StartMeter \/ UNCHANGED vars
  BY <1>3, <1>12 DEF StartMeter, vars
<1>13. ASSUME NEW d \in Callers,
              \/ \E op \in Ops : Begin(d, op)
              \/ WaitStep(d) \/ TakeToken(d) \/ GetAnswered(d) \/ PageAnswered(d)
              \/ CallFails(d) \/ QueryAnswered(d) \/ Expire(d)
       PROVE  Moved
  <2>1. CASE d # c
    <3>1. call'[c] = call[c]
      BY <1>11, <1>13, <2>1
    <3>. QED
      BY <1>3, <3>1
  <2>2. CASE d = c
    <3>. HIDE DEF Moved
    <3>. QED
      BY <1>4, <1>5, <1>6, <1>7, <1>9, <1>10, <1>13, <2>2 DEF WaitStep
  <2>. QED
    BY <2>1, <2>2
<1>. HIDE DEF Moved
<1>. QED
  BY <1>8, <1>12, <1>13 DEF Next

\* Answers to other callers can hold up the Waits to come and never one that is
\* under way: for any number of callers and whatever headers they are sent.
THEOREM WaitsNeverExtended == Spec => WaitsAreNotExtended
<1>1. LimiterInv /\ [Next]_vars =>
        [\A c \in Callers :
            Waiting(c) /\ Waiting(c)' =>
                /\ call'[c].pc \notin Passed[call[c].pc]
                /\ call[c].pc # "wait" => call'[c].read <= call[c].read
        ]_vars
  BY WaitMoves
<1>. QED
  BY <1>1, LimiterSafe, PTL DEF Spec, WaitsAreNotExtended
=============================================================================
