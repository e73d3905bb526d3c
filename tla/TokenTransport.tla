--------------------------- MODULE TokenTransport ---------------------------
(***************************************************************************)
(* InstallationTokenAuth of internal/github/transport: the RoundTripper    *)
(* that gives the requests of the health service the installation token of *)
(* the platform App.  Requests share one cached token under a mutex, which *)
(* the first to find it expired keeps while it exchanges it at GitHub.     *)
(*                                                                         *)
(* GitHub is external: it issues a token at some moment of the exchange    *)
(* and honours it for Lifetime ticks from then on, while the transport     *)
(* counts from the arrival of the answer.  A token is represented by the   *)
(* two moments.                                                            *)
(***************************************************************************)
EXTENDS Integers

CONSTANTS
  Requests,    \* calls of RoundTrip
  None,        \* null value: no token, nobody holds the mutex
  Lifetime,    \* InstallationTokenLifetime, in clock ticks
  Buffer,      \* InstallationTokenRefreshBuffer, in clock ticks
  MaxTime,     \* bound: clock ticks
  MaxFaults    \* bound: failed exchanges and requests

ASSUME TokenTransportAssumption ==
  /\ None \notin Requests
  /\ Lifetime \in Nat
  /\ Buffer \in 0 .. Lifetime - 1
  /\ MaxTime \in Nat
  /\ MaxFaults \in Nat

VARIABLES
  now,         \* the clock
  mu,          \* the request that holds the mutex
  token,       \* the cached token
  expiresAt,   \* when the cache takes it for expired
  pc,          \* pc[r]: where request r is
  issued,      \* issued[r]: when GitHub issued the token r asked for
  carried,     \* carried[r]: the token in r's Authorization header
  checked,     \* history: checked[r], when r was given that token
  over,        \* over[r]: r's context is done
  faults       \* faults injected so far

vars == <<now, mu, token, expiresAt, pc, issued, carried, checked, over, faults>>

Token == [issued : Nat, stored : Nat]

\* None is not a record.
ASSUME NoneAssumption == None \notin Token

TypeOK ==
  /\ now \in Nat
  /\ mu \in Requests \cup {None}
  /\ token \in Token \cup {None}
  /\ expiresAt \in Nat
  /\ pc \in [Requests -> {"idle", "lock", "check", "exchange", "answer", "send",
                          "done", "failed"}]
  /\ issued \in [Requests -> Nat]
  /\ carried \in [Requests -> Token \cup {None}]
  /\ checked \in [Requests -> Nat]
  /\ over \in [Requests -> BOOLEAN]
  /\ faults \in Nat

Init ==
  /\ now = 0
  /\ mu = None
  /\ token = None
  /\ expiresAt = 0
  /\ pc = [r \in Requests |-> "idle"]
  /\ issued = [r \in Requests |-> 0]
  /\ carried = [r \in Requests |-> None]
  /\ checked = [r \in Requests |-> 0]
  /\ over = [r \in Requests |-> FALSE]
  /\ faults = 0

Goto(r, l) == pc' = [pc EXCEPT ![r] = l]

Tick ==
  /\ now < MaxTime
  /\ now' = now + 1
  /\ UNCHANGED <<mu, token, expiresAt, pc, issued, carried, checked, over, faults>>

\* The caller gives up: its probe times out or its connection closes.
Cancel(r) ==
  /\ pc[r] \notin {"idle", "done", "failed"} /\ ~over[r]
  /\ over' = [over EXCEPT ![r] = TRUE]
  /\ UNCHANGED <<now, mu, token, expiresAt, pc, issued, carried, checked, faults>>

(***************************************************************************)
(* ensureToken.                                                            *)
(***************************************************************************)
Call(r) ==
  /\ pc[r] = "idle"
  /\ Goto(r, "lock")
  /\ UNCHANGED <<now, mu, token, expiresAt, issued, carried, checked, over, faults>>

\* sync.Mutex knows nothing of contexts: a cancelled request waits as well.
Lock(r) ==
  /\ pc[r] = "lock" /\ mu = None
  /\ mu' = r
  /\ Goto(r, "check")
  /\ UNCHANGED <<now, token, expiresAt, issued, carried, checked, over, faults>>

CacheValid == token # None /\ now < expiresAt

\* Request r leaves ensureToken with token t; the deferred unlock runs.
Carry(r, t) ==
  /\ carried' = [carried EXCEPT ![r] = t]
  /\ checked' = [checked EXCEPT ![r] = now]
  /\ mu' = None
  /\ Goto(r, "send")

UseCached(r) ==
  /\ pc[r] = "check" /\ CacheValid
  /\ Carry(r, token)
  /\ UNCHANGED <<now, token, expiresAt, issued, over, faults>>

\* Mutant: the mutex is given up during the exchange.
ExchangeUnlocked(r) ==
  /\ pc[r] = "check" /\ ~CacheValid
  /\ Goto(r, "exchange")
  /\ mu' = None
  /\ UNCHANGED <<now, token, expiresAt, issued, carried, checked, over, faults>>

Exchange(r) ==
  /\ pc[r] = "check" /\ ~CacheValid
  /\ Goto(r, "exchange")
  /\ UNCHANGED <<now, mu, token, expiresAt, issued, carried, checked, over, faults>>

\* GitHub, external, issues a token; its answer is still on the way.
Issue(r) ==
  /\ pc[r] = "exchange"
  /\ issued' = [issued EXCEPT ![r] = now]
  /\ Goto(r, "answer")
  /\ UNCHANGED <<now, mu, token, expiresAt, carried, checked, over, faults>>

\* Mutant: the two durations are swapped.
ExpirySwapped == now + Buffer - Lifetime

\* Mutant: the buffer is left out.
ExpiryOfLifetime == now + Lifetime

Expiry == now + Lifetime - Buffer

Store(r) ==
  /\ pc[r] = "answer"
  /\ token' = [issued |-> issued[r], stored |-> now]
  /\ expiresAt' = Expiry
  /\ Carry(r, token')
  /\ UNCHANGED <<now, issued, over, faults>>

\* A call fails because r's context is done, or by a fault.
CallFails(r) ==
  \/ over[r] /\ UNCHANGED faults
  \/ faults < MaxFaults /\ faults' = faults + 1

\* Mutant: the exchange is not tied to the request's context.
ExchangeFailsDetached(r) ==
  /\ pc[r] \in {"exchange", "answer"}
  /\ faults < MaxFaults /\ faults' = faults + 1
  /\ mu' = None
  /\ Goto(r, "failed")
  /\ UNCHANGED <<now, token, expiresAt, issued, carried, checked, over>>

\* The cache stays as it is; a token already issued is lost.
ExchangeFails(r) ==
  /\ pc[r] \in {"exchange", "answer"}
  /\ CallFails(r)
  /\ mu' = None
  /\ Goto(r, "failed")
  /\ UNCHANGED <<now, token, expiresAt, issued, carried, checked, over>>

(***************************************************************************)
(* The request itself.                                                     *)
(***************************************************************************)
\* GitHub receives the request and answers.
Send(r) ==
  /\ pc[r] = "send"
  /\ Goto(r, "done")
  /\ UNCHANGED <<now, mu, token, expiresAt, issued, carried, checked, over, faults>>

SendFails(r) ==
  /\ pc[r] = "send"
  /\ CallFails(r)
  /\ Goto(r, "failed")
  /\ UNCHANGED <<now, mu, token, expiresAt, issued, carried, checked, over>>

\* Every request is through.
Idle == (\A r \in Requests : pc[r] \in {"done", "failed"}) /\ UNCHANGED vars

Next ==
  \/ Tick \/ Idle
  \/ \E r \in Requests :
       \/ Call(r) \/ Cancel(r)
       \/ Lock(r) \/ UseCached(r) \/ Exchange(r)
       \/ Issue(r) \/ Store(r) \/ ExchangeFails(r)
       \/ Send(r) \/ SendFails(r)

Spec == Init /\ [][Next]_vars

\* Go hands a mutex over to waiters in the end, a goroutine that can go on
\* does, a call whose context is done returns, and every caller gives up at
\* some time.  That GitHub answers is not assumed.
FairSpec ==
  /\ Spec
  /\ \A r \in Requests :
       /\ SF_vars(Lock(r))
       /\ WF_vars(UseCached(r) \/ Exchange(r) \/ Store(r))
       /\ WF_vars(over[r] /\ (ExchangeFails(r) \/ SendFails(r)))
       /\ WF_vars(Cancel(r))

(***************************************************************************)
(* Properties.                                                             *)
(***************************************************************************)
\* What the refresh buffer is for: a request is sent with a token that
\* GitHub still honours, unless the answer to the exchange and the sending
\* of the request together took longer than the buffer.
Delay(r) == (carried[r].stored - carried[r].issued) + (now - checked[r])

HonouredWhenSent ==
  \A r \in Requests : pc[r] = "send" =>
     now < carried[r].issued + Lifetime \/ Delay(r) > Buffer

\* A token is replaced only when it has expired in the cache: requests that
\* wait for an exchange use its result instead of exchanging again.
ReplacedWhenExpired ==
  [][token' # token => token = None \/ now >= expiresAt]_vars

\* Every request returns, even if GitHub never answers an exchange: one that
\* hangs keeps the others waiting no longer than its own caller waits.
EveryRequestReturns ==
  \A r \in Requests : pc[r] = "lock" ~> pc[r] \in {"done", "failed"}
=============================================================================
