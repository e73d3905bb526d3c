--------------------------- MODULE DispatchProofs ---------------------------
(***************************************************************************)
(* What holds of the webhook handler and of main's shutdown for any number *)
(* of deliveries and targets and any capacity of the semaphore.  Neither   *)
(* set is assumed finite: that only finitely many goroutines hold a token  *)
(* or are counted by a WaitGroup is part of what is proved.                *)
(***************************************************************************)
EXTENDS Dispatch, FiniteSetTheorems, TLAPS

\* Who has put a token into the semaphore and not yet taken one out: the
\* goroutines up to their first deferred call ...
Holding ==
  {p \in Deliveries \X Targets : tpc[p[1]][p[2]] \in {"process", "release"}}

\* ... and processTargets between the channel send and its go statement.
Starting == {d \in Deliveries : dpc[d] = "start"}

\* Every token in the channel is accounted for.
Slots ==
  /\ IsFiniteSet(Holding) /\ IsFiniteSet(Starting)
  /\ sem = Cardinality(Holding) + Cardinality(Starting)

\* The goroutines of d that have not called wg.Done.
Pending(d) == {t \in Targets : tpc[d][t] \in {"process", "release", "signal"}}

Counted ==
  \A d \in Deliveries : IsFiniteSet(Pending(d)) /\ wg[d] = Cardinality(Pending(d))

\* A matched target waits in todo or has its goroutine, and an ended span
\* has none of either.
Staged ==
  \A d \in Deliveries :
     /\ status[d] # 202 => dpc[d] = "idle"
     /\ dpc[d] = "idle" => matched[d] = {}
     /\ todo[d] \subseteq matched[d]
     /\ \A t \in Targets : tpc[d][t] # "none" <=> t \in matched[d] \ todo[d]
     /\ dpc[d] \in {"wait", "ended"} => todo[d] = {}
     /\ dpc[d] = "ended" => Pending(d) = {}

\* Once the listener is closed nothing arrives, and what had arrived is
\* answered when Shutdown returns without an error.
Closed ==
  /\ main \in {"closing", "wait", "returned"} => "http" \notin serving
  /\ main \in {"wait", "returned"} => \A d \in Deliveries : status[d] # Open

IInv == TypeOK /\ Slots /\ Counted /\ Staged /\ Closed

LEMMA InitIInv == Init => IInv
<1> SUFFICES ASSUME Init PROVE IInv
  OBVIOUS
<1>1. Holding = {} /\ Starting = {} /\ \A d \in Deliveries : Pending(d) = {}
  BY DEF Init, Holding, Starting, Pending
<1>2. TypeOK
  BY DispatchAssumption DEF Init, TypeOK, Open
<1>3. Slots /\ Counted
  BY <1>1, FS_EmptySet DEF Init, Slots, Counted
<1>4. Staged /\ Closed
  BY <1>1 DEF Init, Staged, Closed
<1> QED BY <1>2, <1>3, <1>4 DEF IInv

(***************************************************************************)
(* What a move of processTargets or of a goroutine does to the program     *)
(* counters, and which steps move neither.                                 *)
(***************************************************************************)
LEMMA DMoved ==
  ASSUME TypeOK, NEW d \in Deliveries, NEW l, DGoto(d, l)
  PROVE  \A e \in Deliveries : dpc'[e] = IF e = d THEN l ELSE dpc[e]
BY DEF TypeOK, DGoto

LEMMA TMoved ==
  ASSUME TypeOK, NEW d \in Deliveries, NEW t \in Targets, NEW l, TGoto(d, t, l)
  PROVE  \A e \in Deliveries, u \in Targets :
            tpc'[e][u] = IF e = d /\ u = t THEN l ELSE tpc[e][u]
BY DEF TypeOK, TGoto

MainStep == Signalled \/ Main \/ Panic \/ Down \/ \E s \in Servers : ServerFails(s)

LEMMA MainEffect == ASSUME MainStep PROVE UNCHANGED Goroutines
BY DEF MainStep, Signalled, Main, Drain, Shutdown, ShutdownReturns, MainReturns,
       Panic, Down, ServerFails, Goroutines, vars

LEMMA NextKinds ==
  ASSUME [Next]_vars
  PROVE  \/ \E d \in Deliveries : \/ Arrive(d) \/ Decline(d) \/ Accept(d) \/ TakeSlot(d)
                                  \/ Start(d) \/ AllStarted(d) \/ EndSpan(d)
         \/ \E d \in Deliveries, t \in Targets :
               ProcessReturns(d, t) \/ ReleaseSlot(d, t) \/ Signal(d, t)
         \/ MainStep
         \/ UNCHANGED vars
BY DEF Next, Handle, Run, MainStep

\* The next goroutine is started: it gets the token that was put in for it.
LEMMA StartEffect ==
  ASSUME IInv, NEW d \in Deliveries, Start(d)
  PROVE  /\ dpc[d] = "start" /\ wg' = [wg EXCEPT ![d] = @ + 1]
         /\ \A e \in Deliveries : dpc'[e] = IF e = d THEN "dispatch" ELSE dpc[e]
         /\ \E t \in todo[d] :
               /\ t \in Targets /\ tpc[d][t] = "none"
               /\ todo' = [todo EXCEPT ![d] = @ \ {t}]
               /\ \A e \in Deliveries, u \in Targets :
                     tpc'[e][u] = IF e = d /\ u = t THEN "process" ELSE tpc[e][u]
<1>1. /\ dpc[d] = "start" /\ wg' = [wg EXCEPT ![d] = @ + 1]
      /\ \A e \in Deliveries : dpc'[e] = IF e = d THEN "dispatch" ELSE dpc[e]
  BY DMoved DEF Start, IInv
<1>2. PICK t \in todo[d] : todo' = [todo EXCEPT ![d] = @ \ {t}] /\ TGoto(d, t, "process")
  BY DEF Start
<1>3. t \in Targets /\ tpc[d][t] = "none"
  BY <1>2 DEF IInv, TypeOK, Staged
<1>4. \A e \in Deliveries, u \in Targets :
         tpc'[e][u] = IF e = d /\ u = t THEN "process" ELSE tpc[e][u]
  BY <1>2, <1>3, TMoved DEF IInv
<1> QED BY <1>1, <1>2, <1>3, <1>4

(***************************************************************************)
(* The semaphore.                                                          *)
(***************************************************************************)
LEMMA SlotsKept ==
  ASSUME IInv, UNCHANGED sem,
         \A d \in Deliveries : dpc'[d] = "start" <=> dpc[d] = "start",
         \A d \in Deliveries, t \in Targets :
            tpc'[d][t] \in {"process", "release"} <=> tpc[d][t] \in {"process", "release"}
  PROVE  Slots'
<1>1. Holding' = Holding /\ Starting' = Starting
  BY DEF Holding, Starting
<1> QED BY <1>1 DEF IInv, Slots

LEMMA SlotsStep == IInv /\ [Next]_vars => Slots'
<1> SUFFICES ASSUME IInv, [Next]_vars PROVE Slots'
  OBVIOUS
<1>1. /\ IsFiniteSet(Holding) /\ Cardinality(Holding) \in Nat
      /\ IsFiniteSet(Starting) /\ Cardinality(Starting) \in Nat
      /\ sem = Cardinality(Holding) + Cardinality(Starting)
  BY FS_CardinalityType DEF IInv, Slots
<1>2. ASSUME NEW d \in Deliveries, TakeSlot(d) PROVE Slots'
  <2>1. \A e \in Deliveries : dpc'[e] = IF e = d THEN "start" ELSE dpc[e]
    BY <1>2, DMoved DEF TakeSlot, IInv
  <2>2. dpc[d] = "dispatch" /\ sem' = sem + 1 /\ tpc' = tpc
    BY <1>2 DEF TakeSlot
  <2>3. Holding' = Holding /\ Starting' = Starting \cup {d} /\ d \notin Starting
    BY <2>1, <2>2 DEF Holding, Starting
  <2>4. /\ IsFiniteSet(Starting \cup {d})
        /\ Cardinality(Starting \cup {d}) = Cardinality(Starting) + 1
    BY <1>1, <2>3, FS_AddElement
  <2> QED BY <1>1, <2>2, <2>3, <2>4 DEF Slots
<1>3. ASSUME NEW d \in Deliveries, Start(d) PROVE Slots'
  <2>1. PICK t \in Targets :
           /\ tpc[d][t] = "none"
           /\ \A e \in Deliveries, u \in Targets :
                 tpc'[e][u] = IF e = d /\ u = t THEN "process" ELSE tpc[e][u]
    BY <1>3, StartEffect
  <2>2. /\ Starting' = Starting \ {d} /\ d \in Starting
        /\ Holding' = Holding \cup {<<d, t>>} /\ <<d, t>> \notin Holding
    <3>1. Starting' = Starting \ {d} /\ d \in Starting
      BY <1>3, StartEffect DEF Starting
    <3>2. \A p \in Deliveries \X Targets : p = <<d, t>> <=> p[1] = d /\ p[2] = t
      OBVIOUS
    <3> QED BY <2>1, <3>1, <3>2 DEF Holding
  <2>3. /\ IsFiniteSet(Starting \ {d})
        /\ Cardinality(Starting \ {d}) = Cardinality(Starting) - 1
    BY <1>1, <2>2, FS_RemoveElement
  <2>4. /\ IsFiniteSet(Holding \cup {<<d, t>>})
        /\ Cardinality(Holding \cup {<<d, t>>}) = Cardinality(Holding) + 1
    BY <1>1, <2>2, FS_AddElement
  <2>5. sem' = sem
    BY <1>3 DEF Start
  <2> QED BY <1>1, <2>2, <2>3, <2>4, <2>5 DEF Slots
<1>4. ASSUME NEW d \in Deliveries, NEW t \in Targets, ReleaseSlot(d, t) PROVE Slots'
  <2>1. \A e \in Deliveries, u \in Targets :
           tpc'[e][u] = IF e = d /\ u = t THEN "signal" ELSE tpc[e][u]
    BY <1>4, TMoved DEF ReleaseSlot, IInv
  <2>2. tpc[d][t] = "release" /\ sem' = sem - 1 /\ dpc' = dpc
    BY <1>4 DEF ReleaseSlot
  <2>3. Holding' = Holding \ {<<d, t>>} /\ <<d, t>> \in Holding /\ Starting' = Starting
    <3>1. \A p \in Deliveries \X Targets : p = <<d, t>> <=> p[1] = d /\ p[2] = t
      OBVIOUS
    <3> QED BY <2>1, <2>2, <3>1 DEF Holding, Starting
  <2>4. /\ IsFiniteSet(Holding \ {<<d, t>>})
        /\ Cardinality(Holding \ {<<d, t>>}) = Cardinality(Holding) - 1
    BY <1>1, <2>3, FS_RemoveElement
  <2> QED BY <1>1, <2>2, <2>3, <2>4 DEF Slots
<1>5. ASSUME NEW d \in Deliveries, NEW t \in Targets, ProcessReturns(d, t) PROVE Slots'
  <2>1. \A e \in Deliveries, u \in Targets :
           tpc'[e][u] = IF e = d /\ u = t THEN "release" ELSE tpc[e][u]
    BY <1>5, TMoved DEF ProcessReturns, IInv
  <2> QED BY <1>5, <2>1, SlotsKept DEF ProcessReturns
<1>6. ASSUME NEW d \in Deliveries, NEW t \in Targets, Signal(d, t) PROVE Slots'
  <2>1. \A e \in Deliveries, u \in Targets :
           tpc'[e][u] = IF e = d /\ u = t THEN "ended" ELSE tpc[e][u]
    BY <1>6, TMoved DEF Signal, IInv
  <2> QED BY <1>6, <2>1, SlotsKept DEF Signal
<1>7. ASSUME NEW d \in Deliveries, \/ Arrive(d) \/ Decline(d) \/ Accept(d)
                                   \/ AllStarted(d) \/ EndSpan(d)
      PROVE  Slots'
  <2>1. UNCHANGED <<sem, tpc>>
    BY <1>7 DEF Arrive, Decline, Accept, AllStarted, EndSpan
  <2>2. \A e \in Deliveries : dpc'[e] = "start" <=> dpc[e] = "start"
    BY <1>7 DEF Arrive, Decline, Accept, AllStarted, EndSpan, DGoto, IInv, TypeOK,
                Staged, Open
  <2> QED BY <2>1, <2>2, SlotsKept
<1>8. CASE MainStep \/ UNCHANGED vars
  BY <1>8, MainEffect, SlotsKept DEF Goroutines, vars
<1> QED BY <1>2, <1>3, <1>4, <1>5, <1>6, <1>7, <1>8, NextKinds

(***************************************************************************)
(* The WaitGroups.                                                         *)
(***************************************************************************)
LEMMA CountedKept ==
  ASSUME IInv, UNCHANGED wg,
         \A d \in Deliveries, t \in Targets :
            tpc'[d][t] \in {"process", "release", "signal"}
               <=> tpc[d][t] \in {"process", "release", "signal"}
  PROVE  Counted'
<1>1. \A d \in Deliveries : Pending(d)' = Pending(d)
  BY DEF Pending
<1> QED BY <1>1 DEF IInv, Counted

LEMMA CountedStep == IInv /\ [Next]_vars => Counted'
<1> SUFFICES ASSUME IInv, [Next]_vars PROVE Counted'
  OBVIOUS
<1>1. \A d \in Deliveries : /\ IsFiniteSet(Pending(d)) /\ Cardinality(Pending(d)) \in Nat
                            /\ wg[d] = Cardinality(Pending(d))
  BY FS_CardinalityType DEF IInv, Counted
<1>2. ASSUME NEW d \in Deliveries, Start(d) PROVE Counted'
  <2>1. PICK t \in Targets :
           /\ tpc[d][t] = "none"
           /\ \A e \in Deliveries, u \in Targets :
                 tpc'[e][u] = IF e = d /\ u = t THEN "process" ELSE tpc[e][u]
    BY <1>2, StartEffect
  <2>2. Pending(d)' = Pending(d) \cup {t} /\ t \notin Pending(d)
    BY <2>1 DEF Pending
  <2>3. \A e \in Deliveries \ {d} : Pending(e)' = Pending(e)
    BY <2>1 DEF Pending
  <2>4. /\ IsFiniteSet(Pending(d) \cup {t})
        /\ Cardinality(Pending(d) \cup {t}) = Cardinality(Pending(d)) + 1
    BY <1>1, <2>2, FS_AddElement
  <2>5. \A e \in Deliveries : wg'[e] = IF e = d THEN wg[e] + 1 ELSE wg[e]
    BY <1>2, StartEffect DEF IInv, TypeOK
  <2> QED BY <1>1, <2>2, <2>3, <2>4, <2>5 DEF Counted
<1>3. ASSUME NEW d \in Deliveries, NEW t \in Targets, Signal(d, t) PROVE Counted'
  <2>1. \A e \in Deliveries, u \in Targets :
           tpc'[e][u] = IF e = d /\ u = t THEN "ended" ELSE tpc[e][u]
    BY <1>3, TMoved DEF Signal, IInv
  <2>2. tpc[d][t] = "signal" /\ \A e \in Deliveries : wg'[e] = IF e = d THEN wg[e] - 1 ELSE wg[e]
    BY <1>3 DEF Signal, IInv, TypeOK
  <2>3. Pending(d)' = Pending(d) \ {t} /\ t \in Pending(d)
    BY <2>1, <2>2 DEF Pending
  <2>4. \A e \in Deliveries \ {d} : Pending(e)' = Pending(e)
    BY <2>1 DEF Pending
  <2>5. /\ IsFiniteSet(Pending(d) \ {t})
        /\ Cardinality(Pending(d) \ {t}) = Cardinality(Pending(d)) - 1
    BY <1>1, <2>3, FS_RemoveElement
  <2> QED BY <1>1, <2>2, <2>3, <2>4, <2>5 DEF Counted
<1>4. ASSUME NEW d \in Deliveries, NEW t \in Targets, ProcessReturns(d, t) \/ ReleaseSlot(d, t)
      PROVE  Counted'
  <2>1. PICK l \in {"release", "signal"} :
           \A e \in Deliveries, u \in Targets :
              tpc'[e][u] = IF e = d /\ u = t THEN l ELSE tpc[e][u]
    BY <1>4, TMoved DEF ProcessReturns, ReleaseSlot, IInv
  <2> QED BY <1>4, <2>1, CountedKept DEF ProcessReturns, ReleaseSlot
<1>5. ASSUME NEW d \in Deliveries, \/ Arrive(d) \/ Decline(d) \/ Accept(d)
                                   \/ TakeSlot(d) \/ AllStarted(d) \/ EndSpan(d)
      PROVE  Counted'
  BY <1>5, CountedKept DEF Arrive, Decline, Accept, TakeSlot, AllStarted, EndSpan
<1>6. CASE MainStep \/ UNCHANGED vars
  BY <1>6, MainEffect, CountedKept DEF Goroutines, vars
<1> QED BY <1>2, <1>3, <1>4, <1>5, <1>6, NextKinds

(***************************************************************************)
(* The order of a delivery's steps.                                        *)
(***************************************************************************)
\* Staged, of one delivery.
StagedAt(d) ==
  /\ status[d] # 202 => dpc[d] = "idle"
  /\ dpc[d] = "idle" => matched[d] = {}
  /\ todo[d] \subseteq matched[d]
  /\ \A t \in Targets : tpc[d][t] # "none" <=> t \in matched[d] \ todo[d]
  /\ dpc[d] \in {"wait", "ended"} => todo[d] = {}
  /\ dpc[d] = "ended" => Pending(d) = {}

LEMMA StagedKept ==
  ASSUME IInv, NEW e \in Deliveries,
         status'[e] = status[e], matched'[e] = matched[e], dpc'[e] = dpc[e],
         todo'[e] = todo[e], \A t \in Targets : tpc'[e][t] = tpc[e][t]
  PROVE  StagedAt(e)'
BY DEF IInv, Staged, StagedAt, Pending

LEMMA StagedStep == IInv /\ [Next]_vars => Staged'
<1> SUFFICES ASSUME IInv, [Next]_vars, NEW e \in Deliveries PROVE StagedAt(e)'
  BY DEF Staged, StagedAt
<1>1. StagedAt(e) /\ Counted /\ TypeOK
  BY DEF IInv, Staged, StagedAt
<1>2. ASSUME NEW d \in Deliveries, Arrive(d) \/ Decline(d) PROVE StagedAt(e)'
  <2>1. UNCHANGED <<matched, dpc, todo, tpc>>
    BY <1>2 DEF Arrive, Decline
  <2>2. status'[e] # 202 => status[e] # 202
    BY <1>1, <1>2 DEF Arrive, Decline, TypeOK, Open
  <2> QED BY <1>1, <2>1, <2>2 DEF StagedAt, Pending
<1>3. ASSUME NEW d \in Deliveries, Accept(d) PROVE StagedAt(e)'
  <2>1. CASE e = d
    <3>1. /\ status[d] # 202 /\ status'[d] = 202 /\ dpc'[d] = "dispatch"
          /\ matched'[d] = todo'[d] /\ tpc' = tpc
      BY <1>1, <1>3 DEF Accept, DGoto, TypeOK, Open
    <3> QED BY <1>1, <2>1, <3>1 DEF StagedAt
  <2>2. CASE e # d
    BY <1>1, <1>3, <2>2, StagedKept DEF Accept, DGoto, TypeOK
  <2> QED BY <2>1, <2>2
<1>4. ASSUME NEW d \in Deliveries, TakeSlot(d) \/ AllStarted(d) \/ EndSpan(d)
      PROVE  StagedAt(e)'
  <2>1. UNCHANGED <<status, matched, todo, tpc, wg>>
    BY <1>4 DEF TakeSlot, AllStarted, EndSpan
  <2>2. CASE e = d
    <3>1. /\ dpc[d] # "idle" /\ dpc'[d] # "idle"
          /\ dpc'[d] \in {"wait", "ended"} => todo[d] = {}
          /\ dpc'[d] = "ended" => wg[d] = 0
      BY <1>1, <1>4, <2>2 DEF TakeSlot, AllStarted, EndSpan, DGoto, TypeOK, StagedAt
    <3>2. wg[d] = 0 => Pending(d) = {}
      BY <1>1, FS_EmptySet DEF Counted
    <3> QED BY <1>1, <2>1, <2>2, <3>1, <3>2 DEF StagedAt, Pending
  <2>3. CASE e # d
    BY <1>1, <1>4, <2>1, <2>3, StagedKept DEF TakeSlot, AllStarted, EndSpan, DGoto, TypeOK
  <2> QED BY <2>2, <2>3
<1>5. ASSUME NEW d \in Deliveries, Start(d) PROVE StagedAt(e)'
  <2>1. UNCHANGED <<status, matched>>
    BY <1>5 DEF Start
  <2>2. PICK t \in todo[d] :
           /\ t \in Targets /\ tpc[d][t] = "none"
           /\ todo' = [todo EXCEPT ![d] = @ \ {t}]
           /\ \A f \in Deliveries, u \in Targets :
                 tpc'[f][u] = IF f = d /\ u = t THEN "process" ELSE tpc[f][u]
    BY <1>5, StartEffect
  <2>3. dpc[d] = "start" /\ \A f \in Deliveries : dpc'[f] = IF f = d THEN "dispatch" ELSE dpc[f]
    BY <1>5, StartEffect
  <2>4. CASE e = d
    <3>1. todo'[d] = todo[d] \ {t}
      BY <1>1, <2>2 DEF TypeOK
    <3> QED BY <1>1, <2>1, <2>2, <2>3, <2>4, <3>1 DEF StagedAt
  <2>5. CASE e # d
    BY <1>1, <2>1, <2>2, <2>3, <2>5, StagedKept DEF TypeOK
  <2> QED BY <2>4, <2>5
<1>6. ASSUME NEW d \in Deliveries, NEW t \in Targets,
             ProcessReturns(d, t) \/ ReleaseSlot(d, t) \/ Signal(d, t)
      PROVE  StagedAt(e)'
  <2>1. UNCHANGED <<status, matched, dpc, todo>>
    BY <1>6 DEF ProcessReturns, ReleaseSlot, Signal
  <2>2. PICK l \in {"release", "signal", "ended"} :
           \A f \in Deliveries, u \in Targets :
              tpc'[f][u] = IF f = d /\ u = t THEN l ELSE tpc[f][u]
    BY <1>1, <1>6, TMoved DEF ProcessReturns, ReleaseSlot, Signal
  <2>3. t \in Pending(d)
    BY <1>6 DEF ProcessReturns, ReleaseSlot, Signal, Pending
  <2>4. CASE e = d
    BY <1>1, <2>1, <2>2, <2>3, <2>4 DEF StagedAt, Pending
  <2>5. CASE e # d
    BY <2>1, <2>2, <2>5, StagedKept
  <2> QED BY <2>4, <2>5
<1>7. CASE MainStep \/ UNCHANGED vars
  BY <1>7, MainEffect, StagedKept DEF Goroutines, vars
<1> QED BY <1>2, <1>3, <1>4, <1>5, <1>6, <1>7, NextKinds

(***************************************************************************)
(* main, and the types.                                                    *)
(***************************************************************************)
LEMMA ClosedStep == IInv /\ [Next]_vars => Closed'
<1> SUFFICES ASSUME IInv, [Next]_vars PROVE Closed'
  OBVIOUS
<1>1. ASSUME NEW d \in Deliveries, Arrive(d) \/ Decline(d) \/ Accept(d) PROVE Closed'
  BY <1>1 DEF Arrive, Decline, Accept, up, Open, IInv, Closed, TypeOK
<1>2. ASSUME NEW d \in Deliveries, TakeSlot(d) \/ Start(d) \/ AllStarted(d) \/ EndSpan(d)
      PROVE  Closed'
  BY <1>2 DEF TakeSlot, Start, AllStarted, EndSpan, IInv, Closed
<1>3. ASSUME NEW d \in Deliveries, NEW t \in Targets,
             ProcessReturns(d, t) \/ ReleaseSlot(d, t) \/ Signal(d, t)
      PROVE  Closed'
  BY <1>3 DEF ProcessReturns, ReleaseSlot, Signal, IInv, Closed
<1>4. CASE MainStep
  BY <1>4, MainEffect
  DEF MainStep, Signalled, Main, Drain, Shutdown, ShutdownReturns, MainReturns, Panic,
      Down, ServerFails, up, Goroutines, vars, IInv, TypeOK, Closed
<1>5. CASE UNCHANGED vars
  BY <1>5 DEF vars, IInv, Closed
<1> QED BY <1>1, <1>2, <1>3, <1>4, <1>5, NextKinds

LEMMA TypeStep == IInv /\ [Next]_vars => TypeOK'
<1> SUFFICES ASSUME IInv, [Next]_vars PROVE TypeOK'
  OBVIOUS
<1> USE DispatchAssumption DEF DGoto, TGoto
<1>1. ASSUME NEW d \in Deliveries, Arrive(d) \/ Decline(d) \/ AllStarted(d) \/ EndSpan(d)
      PROVE  TypeOK'
  BY <1>1 DEF Arrive, Decline, AllStarted, EndSpan, Open, IInv, TypeOK
<1>2. ASSUME NEW d \in Deliveries, Accept(d) PROVE TypeOK'
  <2>1. /\ status' \in [Deliveries -> {0, Open, 200, 202, 400, 401, 404}]
        /\ dpc' \in [Deliveries -> {"idle", "dispatch", "start", "wait", "ended"}]
        /\ UNCHANGED <<wg, tpc, sem, main, serving>>
    BY <1>2 DEF Accept, IInv, TypeOK
  <2>2. /\ matched' \in [Deliveries -> SUBSET Targets]
        /\ todo' \in [Deliveries -> SUBSET Targets]
    BY <1>2 DEF Accept, IInv, TypeOK
  <2> QED BY <2>1, <2>2 DEF IInv, TypeOK
<1>3. ASSUME NEW d \in Deliveries, TakeSlot(d) PROVE TypeOK'
  BY <1>3 DEF TakeSlot, SlotFree, IInv, TypeOK
<1>4. ASSUME NEW d \in Deliveries, Start(d) PROVE TypeOK'
  BY <1>4 DEF Start, IInv, TypeOK
<1>5. ASSUME NEW d \in Deliveries, NEW t \in Targets, ProcessReturns(d, t) \/ ReleaseSlot(d, t)
      PROVE  TypeOK'
  <2>1. tpc' \in [Deliveries ->
                    [Targets -> {"none", "process", "release", "signal", "ended"}]]
    <3>1. PICK l \in {"release", "signal"} : tpc' = [tpc EXCEPT ![d][t] = l]
      BY <1>5 DEF ProcessReturns, ReleaseSlot
    <3> QED BY <3>1 DEF IInv, TypeOK
  <2>2. sem' \in 0 .. MaxConcurrent
    BY <1>5 DEF ProcessReturns, ReleaseSlot, IInv, TypeOK
  <2> QED BY <1>5, <2>1, <2>2 DEF ProcessReturns, ReleaseSlot, IInv, TypeOK
<1>6. ASSUME NEW d \in Deliveries, NEW t \in Targets, Signal(d, t) PROVE TypeOK'
  <2>1. /\ t \in Pending(d) /\ IsFiniteSet(Pending(d)) /\ wg[d] = Cardinality(Pending(d))
        /\ Cardinality(Pending(d)) \in Nat
    BY <1>6, FS_CardinalityType DEF Signal, Pending, IInv, Counted
  <2>2. wg[d] - 1 \in Nat
    BY <2>1, FS_EmptySet
  <2> QED BY <1>6, <2>2 DEF Signal, IInv, TypeOK
<1>7. CASE MainStep
  <2>1. UNCHANGED Goroutines
    BY <1>7, MainEffect
  <2>2. /\ main' \in {"serve", "drain", "shutdown", "closing", "wait", "late",
                      "returned", "cut"}
        /\ serving' \subseteq Servers
    BY <1>7
    DEF MainStep, Signalled, Main, Drain, Shutdown, ShutdownReturns, MainReturns, Panic,
        Down, ServerFails, vars, IInv, TypeOK
  <2> QED BY <2>1, <2>2 DEF Goroutines, IInv, TypeOK
<1>8. CASE UNCHANGED vars
  BY <1>8 DEF vars, IInv, TypeOK
<1> QED BY <1>1, <1>3, <1>4, <1>5, <1>6, <1>7, <1>8, <1>2, NextKinds

(***************************************************************************)
(* The theorems.                                                           *)
(***************************************************************************)
LEMMA Invariant == Spec => []IInv
<1>1. IInv /\ [Next]_vars => IInv'
  BY TypeStep, SlotsStep, CountedStep, StagedStep, ClosedStep DEF IInv
<1> QED BY InitIInv, <1>1, PTL DEF Spec

\* Every variable keeps its type; in particular no WaitGroup goes below 0,
\* which would be a panic.
THEOREM TypeCorrect == Spec => []TypeOK
<1>1. IInv => TypeOK
  BY DEF IInv
<1> QED BY <1>1, Invariant, PTL

\* The semaphore bounds how many targets are processed at once, over all
\* deliveries together.
THEOREM Bounded == Spec => []ConcurrencyBounded
<1>1. IInv => ConcurrencyBounded
  <2> SUFFICES ASSUME IInv PROVE Cardinality(Processing) <= MaxConcurrent
    BY DEF ConcurrencyBounded
  <2>1. Processing \in SUBSET Holding
    BY DEF Processing, Holding
  <2>2. /\ IsFiniteSet(Holding) /\ IsFiniteSet(Starting)
        /\ sem = Cardinality(Holding) + Cardinality(Starting)
        /\ sem \in 0 .. MaxConcurrent
    BY DEF IInv, Slots, TypeOK
  <2>3. IsFiniteSet(Processing) /\ Cardinality(Processing) <= Cardinality(Holding)
    BY <2>1, <2>2, FS_Subset
  <2>4. /\ Cardinality(Processing) \in Nat /\ Cardinality(Holding) \in Nat
        /\ Cardinality(Starting) \in Nat
    BY <2>2, <2>3, FS_CardinalityType
  <2> QED BY <2>2, <2>3, <2>4, DispatchAssumption
<1> QED BY <1>1, Invariant, PTL

\* The event span ends after the last of its targets.
THEOREM SpansNested == Spec => []SpanEndsLast
<1>1. IInv => SpanEndsLast
  BY DEF IInv, TypeOK, Staged, Pending, SpanEndsLast
<1> QED BY <1>1, Invariant, PTL

\* Unless Shutdown timed out, main returns with no request left unanswered.
THEOREM AnsweredBeforeReturn == Spec => []ReturnsAnswered
<1>1. IInv => ReturnsAnswered
  BY DEF IInv, Closed, ReturnsAnswered
<1> QED BY <1>1, Invariant, PTL
=============================================================================
