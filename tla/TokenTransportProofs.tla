------------------------ MODULE TokenTransportProofs ------------------------
(***************************************************************************)
(* What holds of the installation token transport for any number of        *)
(* requests, any lifetime and any buffer shorter than it.                  *)
(***************************************************************************)
EXTENDS TokenTransport, TLAPS

\* Whoever is between Lock and unlock holds the mutex, so nobody changes the
\* cache that it found to be expired.
Exclusion ==
  \A r \in Requests :
     /\ pc[r] \in {"check", "exchange", "answer"} => mu = r
     /\ pc[r] \in {"exchange", "answer"} => ~CacheValid

\* The cached token was issued before it was stored, and expires as counted
\* from then.
CacheDated ==
  token # None => /\ token.issued <= token.stored /\ token.stored <= now
                  /\ expiresAt = token.stored + Lifetime - Buffer

\* A carried token was new or in its period of use when it was given out.
Dated(r) ==
  /\ pc[r] = "answer" => issued[r] <= now
  /\ pc[r] = "send" =>
       /\ carried[r] \in Token
       /\ checked[r] <= now
       /\ carried[r].issued <= carried[r].stored
       /\ carried[r].stored <= checked[r]
       /\ \/ checked[r] = carried[r].stored
          \/ checked[r] < carried[r].stored + Lifetime - Buffer

IInv == TypeOK /\ Exclusion /\ CacheDated /\ \A r \in Requests : Dated(r)

LEMMA InitIInv == Init => IInv
BY TokenTransportAssumption, NoneAssumption
DEF Init, IInv, TypeOK, Exclusion, CacheDated, Dated

\* Giving out a token unlocks the mutex and moves no other request.
LEMMA CarryIInv ==
  ASSUME IInv, NEW r \in Requests, NEW t \in Token, mu = r,
         pc[r] \in {"check", "answer"}, Carry(r, t),
         UNCHANGED <<now, issued>>,
         t.issued <= t.stored, t.stored <= now,
         now = t.stored \/ now < t.stored + Lifetime - Buffer
  PROVE  /\ mu' \in Requests \cup {None}
         /\ pc' \in [Requests -> {"idle", "lock", "check", "exchange", "answer",
                                  "send", "done", "failed"}]
         /\ carried' \in [Requests -> Token \cup {None}]
         /\ checked' \in [Requests -> Nat]
         /\ \A q \in Requests : pc'[q] \notin {"check", "exchange", "answer"}
         /\ \A q \in Requests : Dated(q)'
<1>1. ASSUME NEW q \in Requests PROVE pc'[q] \notin {"check", "exchange", "answer"}
  BY <1>1 DEF IInv, Exclusion, TypeOK, Carry, Goto
<1>2. Dated(r)'
  BY DEF IInv, TypeOK, Carry, Goto, Dated
<1>3. ASSUME NEW q \in Requests, q # r PROVE Dated(q)'
  BY <1>3 DEF IInv, TypeOK, Carry, Goto, Dated
<1>4. /\ mu' \in Requests \cup {None}
      /\ pc' \in [Requests -> {"idle", "lock", "check", "exchange", "answer",
                               "send", "done", "failed"}]
      /\ carried' \in [Requests -> Token \cup {None}]
      /\ checked' \in [Requests -> Nat]
  BY DEF IInv, TypeOK, Carry, Goto
<1> QED BY <1>1, <1>2, <1>3, <1>4

LEMMA NextIInv == IInv /\ [Next]_vars => IInv'
<1> SUFFICES ASSUME IInv, [Next]_vars PROVE IInv'
  OBVIOUS
<1> USE TokenTransportAssumption, NoneAssumption
<1>1. CASE Tick
  BY <1>1 DEF Tick, IInv, TypeOK, Exclusion, CacheValid, CacheDated, Dated, Token
<1>2. CASE UNCHANGED vars
  BY <1>2 DEF vars, IInv, TypeOK, Exclusion, CacheValid, CacheDated, Dated
<1>3. ASSUME NEW r \in Requests, Call(r) \/ Cancel(r) PROVE IInv'
  BY <1>3 DEF Call, Cancel, Goto, IInv, TypeOK, Exclusion, CacheValid, CacheDated, Dated
<1>4. ASSUME NEW r \in Requests, Lock(r) PROVE IInv'
  BY <1>4 DEF Lock, Goto, IInv, TypeOK, Exclusion, CacheValid, CacheDated, Dated
<1>5. ASSUME NEW r \in Requests, UseCached(r) PROVE IInv'
  <2>1. /\ mu = r /\ token \in Token
        /\ token.issued <= token.stored /\ token.stored <= now
        /\ now < token.stored + Lifetime - Buffer
    BY <1>5 DEF UseCached, CacheValid, IInv, TypeOK, Exclusion, CacheDated
  <2>2. /\ Carry(r, token) /\ pc[r] = "check"
        /\ UNCHANGED <<now, token, expiresAt, issued, over, faults>>
    BY <1>5 DEF UseCached
  <2> QED BY <2>1, <2>2, CarryIInv DEF IInv, TypeOK, Exclusion, CacheDated
<1>6. ASSUME NEW r \in Requests, Exchange(r) \/ Issue(r) PROVE IInv'
  BY <1>6
  DEF Exchange, Issue, Goto, IInv, TypeOK, Exclusion, CacheValid, CacheDated, Dated
<1>7. ASSUME NEW r \in Requests, Store(r) PROVE IInv'
  <2> DEFINE t == [issued |-> issued[r], stored |-> now]
  <2>1. /\ pc[r] = "answer" /\ token' = t /\ Carry(r, t)
        /\ expiresAt' = now + Lifetime - Buffer
        /\ UNCHANGED <<now, issued, over, faults>>
    BY <1>7 DEF Store, Expiry
  <2>2. /\ mu = r /\ t \in Token
        /\ t.issued <= t.stored /\ t.stored <= now /\ t.stored = now
    BY <2>1 DEF IInv, TypeOK, Exclusion, Dated, Token
  <2>3. TypeOK'
    BY <2>1, <2>2, CarryIInv DEF IInv, TypeOK
  <2>4. Exclusion'
    BY <2>1, <2>2, CarryIInv DEF Exclusion
  <2>5. CacheDated'
    BY <2>1, <2>2 DEF CacheDated
  <2> QED BY <2>1, <2>2, <2>3, <2>4, <2>5, CarryIInv DEF IInv
<1>8. ASSUME NEW r \in Requests, ExchangeFails(r) PROVE IInv'
  BY <1>8
  DEF ExchangeFails, CallFails, Goto, IInv, TypeOK, Exclusion, CacheValid, CacheDated, Dated
<1>9. ASSUME NEW r \in Requests, Send(r) \/ SendFails(r) PROVE IInv'
  BY <1>9
  DEF Send, SendFails, CallFails, Goto, IInv, TypeOK, Exclusion, CacheValid,
      CacheDated, Dated
<1> QED
  BY <1>1, <1>2, <1>3, <1>4, <1>5, <1>6, <1>7, <1>8, <1>9 DEF Next, Idle

LEMMA Invariant == Spec => []IInv
BY InitIInv, NextIInv, PTL DEF Spec

\* Every variable keeps its type: clock, mutex, cache and requests.
THEOREM TypeCorrect == Spec => []TypeOK
<1>1. IInv => TypeOK
  BY DEF IInv
<1> QED BY <1>1, Invariant, PTL

\* A request goes out with a token that GitHub still honours, unless answer
\* and sending took longer than the buffer.
THEOREM Honoured == Spec => []HonouredWhenSent
<1>1. IInv => HonouredWhenSent
  <2> SUFFICES ASSUME IInv, NEW r \in Requests, pc[r] = "send"
               PROVE  now < carried[r].issued + Lifetime \/ Delay(r) > Buffer
    BY DEF HonouredWhenSent
  <2>1. /\ carried[r].issued \in Nat /\ carried[r].stored \in Nat
        /\ checked[r] \in Nat /\ now \in Nat
    BY DEF IInv, TypeOK, Dated, Token
  <2> QED BY <2>1, TokenTransportAssumption DEF IInv, Dated, Delay
<1> QED BY <1>1, Invariant, PTL

\* A cached token is replaced only once it has expired in the cache.
THEOREM ReplacedOnlyWhenExpired == Spec => ReplacedWhenExpired
<1> DEFINE A == token' # token => token = None \/ now >= expiresAt
<1>1. IInv /\ [Next]_vars => [A]_vars
  <2> SUFFICES ASSUME IInv, Next, token' # token PROVE token = None \/ now >= expiresAt
    BY DEF vars
  <2>1. PICK r \in Requests : Store(r)
    BY DEF Next, Tick, Idle, vars, Call, Cancel, Lock, UseCached, Exchange, Issue,
           ExchangeFails, Send, SendFails
  <2> QED BY <2>1 DEF Store, IInv, TypeOK, Exclusion, CacheValid
<1> QED BY <1>1, Invariant, PTL DEF Spec, ReplacedWhenExpired
=============================================================================
