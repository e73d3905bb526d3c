------------------------------ MODULE Dispatch ------------------------------
(***************************************************************************)
(* The webhook handler of internal/push: ServeHTTP answers a delivery and  *)
(* leaves the matched targets to a goroutine, processTargets, that starts  *)
(* one goroutine per target.  A channel shared by all deliveries bounds    *)
(* how many targets are processed at once, a WaitGroup per delivery tells  *)
(* when its event span ends.  main starts the two servers and shuts them   *)
(* down, without waiting for any of these goroutines.                      *)
(*                                                                         *)
(* Process itself is Pipeline's; here it starts and returns, with or       *)
(* without an error.  Which targets a delivery matches is arbitrary, and   *)
(* so is the order in which the API server listed them.                    *)
(***************************************************************************)
EXTENDS Integers, FiniteSets

CONSTANTS
  Deliveries,     \* deliveries of push events
  Targets,        \* source targets of the tenant
  MaxConcurrent   \* MAX_CONCURRENT_TARGETS

ASSUME DispatchAssumption == MaxConcurrent \in Nat

VARIABLES
  status,    \* status[d]: what ServeHTTP answered
  matched,   \* matched[d]: the targets given to processTargets
  dpc,       \* dpc[d]: where processTargets is
  todo,      \* todo[d]: matched targets whose goroutine was not started
  wg,        \* wg[d]: the WaitGroup's counter
  tpc,       \* tpc[d][t]: where the goroutine of target t is
  sem,       \* tokens in the semaphore channel
  main,      \* where main is
  serving    \* servers whose goroutine is in Serve

vars == <<status, matched, dpc, todo, wg, tpc, sem, main, serving>>

Servers == {"http", "grpc"}

\* The request was received and not yet answered.
Open == 1

TypeOK ==
  /\ status \in [Deliveries -> {0, Open, 200, 202, 400, 401, 404}]
  /\ matched \in [Deliveries -> SUBSET Targets]
  /\ dpc \in [Deliveries -> {"idle", "dispatch", "start", "wait", "ended"}]
  /\ todo \in [Deliveries -> SUBSET Targets]
  /\ wg \in [Deliveries -> Nat]
  /\ tpc \in [Deliveries ->
                [Targets -> {"none", "process", "release", "signal", "ended"}]]
  /\ sem \in 0 .. MaxConcurrent
  /\ main \in {"serve", "drain", "shutdown", "closing", "wait", "late",
              "returned", "cut"}
  /\ serving \subseteq Servers

Init ==
  /\ status = [d \in Deliveries |-> 0]
  /\ matched = [d \in Deliveries |-> {}]
  /\ dpc = [d \in Deliveries |-> "idle"]
  /\ todo = [d \in Deliveries |-> {}]
  /\ wg = [d \in Deliveries |-> 0]
  /\ tpc = [d \in Deliveries |-> [t \in Targets |-> "none"]]
  /\ sem = 0
  /\ main = "serve"
  /\ serving = Servers

\* The process is alive.
up == main \notin {"returned", "cut"}

DGoto(d, l) == dpc' = [dpc EXCEPT ![d] = l]
TGoto(d, t, l) == tpc' = [tpc EXCEPT ![d][t] = l]

(***************************************************************************)
(* ServeHTTP.                                                              *)
(***************************************************************************)
Arrive(d) ==
  /\ up /\ status[d] = 0 /\ "http" \in serving
  /\ status' = [status EXCEPT ![d] = Open]
  /\ UNCHANGED <<matched, dpc, todo, wg, tpc, sem, main, serving>>

\* No secret, no list of targets: 404.  A bad signature: 401.  No namespace,
\* no parseable payload: 400.  No push, or no match: 200.
Decline(d) ==
  /\ up /\ status[d] = Open
  /\ \E code \in {200, 400, 401, 404} : status' = [status EXCEPT ![d] = code]
  /\ UNCHANGED <<matched, dpc, todo, wg, tpc, sem, main, serving>>

\* 202, and processTargets goes on by itself with the matched targets.
Accept(d) ==
  /\ up /\ status[d] = Open
  /\ status' = [status EXCEPT ![d] = 202]
  /\ \E m \in (SUBSET Targets) \ {{}} :
        /\ matched' = [matched EXCEPT ![d] = m]
        /\ todo' = [todo EXCEPT ![d] = m]
  /\ DGoto(d, "dispatch")
  /\ UNCHANGED <<wg, tpc, sem, main, serving>>

(***************************************************************************)
(* processTargets.                                                         *)
(***************************************************************************)
\* Mutant: room for one more.
SlotFreeExtra == sem <= MaxConcurrent

\* The semaphore channel takes as many tokens as its capacity.
SlotFree == sem < MaxConcurrent

TakeSlot(d) ==
  /\ up /\ dpc[d] = "dispatch" /\ todo[d] # {}
  /\ SlotFree
  /\ sem' = sem + 1
  /\ DGoto(d, "start")
  /\ UNCHANGED <<status, matched, todo, wg, tpc, main, serving>>

\* Mutant: wg.Add is left to the goroutine.
StartUncounted(d) ==
  /\ up /\ dpc[d] = "start"
  /\ \E t \in todo[d] : /\ todo' = [todo EXCEPT ![d] = @ \ {t}]
                        /\ TGoto(d, t, "process")
  /\ DGoto(d, "dispatch")
  /\ UNCHANGED <<status, matched, wg, sem, main, serving>>

\* wg.Add, then the goroutine of the next target.
Start(d) ==
  /\ up /\ dpc[d] = "start"
  /\ wg' = [wg EXCEPT ![d] = @ + 1]
  /\ \E t \in todo[d] : /\ todo' = [todo EXCEPT ![d] = @ \ {t}]
                        /\ TGoto(d, t, "process")
  /\ DGoto(d, "dispatch")
  /\ UNCHANGED <<status, matched, sem, main, serving>>

AllStarted(d) ==
  /\ up /\ dpc[d] = "dispatch" /\ todo[d] = {}
  /\ DGoto(d, "wait")
  /\ UNCHANGED <<status, matched, todo, wg, tpc, sem, main, serving>>

\* wg.Wait returns and the event span ends.
EndSpan(d) ==
  /\ up /\ dpc[d] = "wait" /\ wg[d] = 0
  /\ DGoto(d, "ended")
  /\ UNCHANGED <<status, matched, todo, wg, tpc, sem, main, serving>>

(***************************************************************************)
(* The goroutine of a target: the deferred calls run last to first.        *)
(***************************************************************************)
ProcessReturns(d, t) ==
  /\ up /\ tpc[d][t] = "process"
  /\ TGoto(d, t, "release")
  /\ UNCHANGED <<status, matched, dpc, todo, wg, sem, main, serving>>

\* Mutant: the token stays in the channel.
ReleaseNothing(d, t) ==
  /\ up /\ tpc[d][t] = "release"
  /\ TGoto(d, t, "signal")
  /\ UNCHANGED <<status, matched, dpc, todo, wg, sem, main, serving>>

ReleaseSlot(d, t) ==
  /\ up /\ tpc[d][t] = "release" /\ sem > 0
  /\ sem' = sem - 1
  /\ TGoto(d, t, "signal")
  /\ UNCHANGED <<status, matched, dpc, todo, wg, main, serving>>

Signal(d, t) ==
  /\ up /\ tpc[d][t] = "signal"
  /\ wg' = [wg EXCEPT ![d] = @ - 1]
  /\ TGoto(d, t, "ended")
  /\ UNCHANGED <<status, matched, dpc, todo, sem, main, serving>>

(***************************************************************************)
(* main, from the start of its servers.                                    *)
(***************************************************************************)
Goroutines == <<status, matched, dpc, todo, wg, tpc, sem>>

\* Mutant: the error is only logged.
ServerFailsAlone(s) ==
  /\ up /\ s \in serving
  /\ serving' = serving \ {s}
  /\ UNCHANGED <<main, Goroutines>>

\* ListenAndServe or Serve returns an error: stop is called.
ServerFails(s) ==
  /\ up /\ s \in serving
  /\ serving' = serving \ {s}
  /\ main' = IF main = "serve" THEN "drain" ELSE main
  /\ UNCHANGED Goroutines

\* HandleGracefulShutdown is told to stop by a signal.
Signalled ==
  /\ main = "serve"
  /\ main' = "drain"
  /\ UNCHANGED <<serving, Goroutines>>

\* It ends the gRPC server, by force after its timeout, and returns.
Drain ==
  /\ main = "drain"
  /\ main' = "shutdown"
  /\ serving' = serving \ {"grpc"}
  /\ UNCHANGED Goroutines

\* httpServer.Shutdown closes the listener, then waits for open requests.
Shutdown ==
  /\ main = "shutdown"
  /\ main' = "closing"
  /\ serving' = serving \ {"http"}
  /\ UNCHANGED Goroutines

\* Mutant: the listener is closed only (Close).
ShutdownWaitsNot ==
  /\ main = "closing"
  /\ main' = "wait"
  /\ UNCHANGED <<serving, Goroutines>>

ShutdownReturns ==
  /\ main = "closing"
  /\ \/ main' = "wait" /\ \A d \in Deliveries : status[d] # Open
     \/ main' = "late" /\ \E d \in Deliveries : status[d] = Open
  /\ UNCHANGED <<serving, Goroutines>>

\* wg.Wait for both servers, and main returns.
MainReturns ==
  /\ main \in {"wait", "late"} /\ serving = {}
  /\ main' = IF main = "wait" THEN "returned" ELSE "cut"
  /\ UNCHANGED <<serving, Goroutines>>

\* A goroutine panics.
Panic ==
  /\ up
  /\ main' = "cut"
  /\ UNCHANGED <<serving, Goroutines>>

Main == Drain \/ Shutdown \/ ShutdownReturns \/ MainReturns

Handle(d) == TakeSlot(d) \/ Start(d) \/ AllStarted(d) \/ EndSpan(d)

Run(d, t) == ProcessReturns(d, t) \/ ReleaseSlot(d, t) \/ Signal(d, t)

Down == ~up /\ UNCHANGED vars

Next ==
  \/ \E d \in Deliveries : Arrive(d) \/ Decline(d) \/ Accept(d) \/ Handle(d)
  \/ \E d \in Deliveries, t \in Targets : Run(d, t)
  \/ \E s \in Servers : ServerFails(s)
  \/ Signalled \/ Main \/ Panic \/ Down

Spec == Init /\ [][Next]_vars

\* The Go scheduler runs every goroutine that is not blocked, and Process
\* returns; the timeouts of the shutdown pass.
FairSpec == /\ Spec
            /\ \A d \in Deliveries : WF_vars(Handle(d))
            /\ \A d \in Deliveries, t \in Targets : WF_vars(Run(d, t))
            /\ WF_vars(Main)

(***************************************************************************)
(* Properties.                                                             *)
(***************************************************************************)
\* At most MAX_CONCURRENT_TARGETS targets are processed at once, over all
\* deliveries together.
Processing ==
  {p \in Deliveries \X Targets : tpc[p[1]][p[2]] = "process"}

ConcurrencyBounded == Cardinality(Processing) <= MaxConcurrent

\* The event span ends after the last of its targets: no span is started
\* under an event span that has ended, and a replay finds them all.
SpanEndsLast ==
  \A d \in Deliveries : dpc[d] = "ended" =>
     \A t \in matched[d] : tpc[d][t] = "ended"

\* An accepted delivery is processed to its end, whatever other deliveries
\* do and whichever of its targets fail, as long as the instance is up.
AcceptedUnlessStopped ==
  \A d \in Deliveries : status[d] = 202 ~> dpc[d] = "ended" \/ ~up

\* main returns once it was told to stop or either server failed: no process
\* goes on with half its servers, and the exporter's deferred shutdown runs.
MainEnds == main # "serve" \/ serving # Servers ~> ~up

\* Unless Shutdown timed out, no request is cut off by main's return.
ReturnsAnswered ==
  main = "returned" => \A d \in Deliveries : status[d] # Open
=============================================================================
