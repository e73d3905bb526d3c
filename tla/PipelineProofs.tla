--------------------------- MODULE PipelineProofs ---------------------------
(***************************************************************************)
(* What holds of the pipeline for any number of targets, runs, instances,  *)
(* pushes, faults and tenant changes.                                      *)
(***************************************************************************)
EXTENDS Pipeline, FiniteSetTheorems, TLAPS

USE DEF Leased, TargetOf, TargetOfSpan

\* The arithmetic that typing needs: whole seconds, the next replay count.
LEMMA FormatType ==
  ASSUME NEW t \in Nat
  PROVE  Format(t) \in Nat
BY PipelineAssumption, SMT DEF Format

\* A stored time is the second it lies in.
LEMMA FormatBounds ==
  ASSUME NEW t \in Nat
  PROVE  Format(t) \in Nat /\ Format(t) <= t /\ Format(t) + Second > t
BY PipelineAssumption, SMT DEF Format

LEMMA InitType == Init => TypeOK /\ TargetOK
BY PipelineAssumption DEF Init, TypeOK, TargetOK, Object, RunState, NewRun, NotCloned, Kinds, Working

LEMMA BeginType ==
  ASSUME TypeOK, TargetOK, NEW r \in Runs, NEW i \in Instances,
         Trigger(r, i)
  PROVE  TypeOK' /\ TargetOK'
<1> USE PipelineAssumption
<1>1. ASSUME NEW l \in {"check", "get"}, NEW kind \in Kinds, NEW t \in Targets,
             NEW e \in Runs, NEW d \in [gen : Nat, secret : BOOLEAN], NEW want \in Nat,
             Begin(r, l, kind, t, i, e, d, want)
      PROVE  TypeOK' /\ TargetOK'
  BY <1>1 DEF Begin, Goto, TypeOK, TargetOK, RunState, NewRun, Working, NotCloned, Kinds
<1>2. ASSUME NEW t \in Targets PROVE TargetOf(t) \in [gen : Nat, secret : BOOLEAN]
  BY <1>2 DEF TypeOK, Object
<1> HIDE DEF TargetOf
<1>3. ASSUME NEW t \in Targets, Webhook(r, t, i) PROVE TypeOK' /\ TargetOK'
  BY <1>1, <1>2, <1>3 DEF Webhook, TypeOK, Kinds
<1>4. ASSUME NEW t \in Targets, Retrieve(r, t, i) PROVE TypeOK' /\ TargetOK'
  BY <1>1, <1>2, <1>4 DEF Retrieve, TypeOK, Kinds
<1>5. ASSUME NEW e \in Runs, Replay(r, e, i) PROVE TypeOK' /\ TargetOK'
  BY <1>1, <1>5 DEF Replay, TypeOK, TargetOK, RunState, Traced, Kinds
<1> QED BY <1>3, <1>4, <1>5 DEF Trigger

\* A change of an object's tenant data keeps its type.
LEMMA EditedType ==
  ASSUME NEW o \in Object, NEW x \in BOOLEAN
  PROVE  /\ [o EXCEPT !.rv = @ + 1, !.gen = @ + 1] \in Object
         /\ [o EXCEPT !.exists = x, !.rv = @ + 1, !.gen = @ + 1] \in Object
<1>1. PICK a \in Nat, b \in Nat : a = o.rv + 1 /\ b = o.gen + 1
  BY DEF Object
<1>2. [o EXCEPT !.rv = a, !.gen = b] \in Object
  BY DEF Object
<1>3. [o EXCEPT !.exists = x, !.rv = a, !.gen = b] \in Object
  BY DEF Object
<1> QED BY <1>1, <1>2, <1>3

LEMMA EnvironmentType ==
  ASSUME TypeOK, TargetOK, Environment
  PROVE  TypeOK' /\ TargetOK'
<1>1. CASE Tick
  BY <1>1 DEF Tick, TypeOK, TargetOK
<1>2. ASSUME NEW t \in Targets, Push(t) PROVE TypeOK' /\ TargetOK'
  BY <1>2 DEF Push, TypeOK, TargetOK
<1>3. ASSUME NEW t \in Targets, NEW o \in Object, TenantWrite(t, o)
      PROVE  TypeOK' /\ TargetOK'
  BY <1>3 DEF TenantWrite, TypeOK, TargetOK
<1>4. ASSUME NEW t \in Targets, Edit(t) PROVE TypeOK' /\ TargetOK'
  <2>1. obj[t] \in Object
    BY DEF TypeOK
  <2>2. [obj[t] EXCEPT !.rv = @ + 1, !.gen = @ + 1] \in Object
    BY <2>1, EditedType
  <2> QED BY <1>3, <1>4, <2>2 DEF Edit
<1>5. ASSUME NEW t \in Targets, Delete(t) PROVE TypeOK' /\ TargetOK'
  <2>1. obj[t] \in Object
    BY DEF TypeOK
  <2>2. [obj[t] EXCEPT !.exists = FALSE, !.rv = @ + 1, !.gen = @ + 1] \in Object
    BY <2>1, EditedType
  <2> QED BY <1>3, <1>5, <2>2 DEF Delete
<1>6. ASSUME NEW t \in Targets, Create(t) PROVE TypeOK' /\ TargetOK'
  <2>1. [exists |-> TRUE, rv |-> obj[t].rv + 1, gen |-> obj[t].gen + 1,
         id |-> None, started |-> 0, count |-> 0] \in Object
    BY PipelineAssumption, obj[t] \in Object DEF Object, TypeOK
  <2> QED BY <1>3, <1>6, <2>1 DEF Create
<1> QED BY <1>1, <1>2, <1>4, <1>5, <1>6 DEF Environment

\* A run's lease is written: the object and the run keep their types.
LEMMA WriteLeaseType ==
  ASSUME TypeOK, TargetOK, NEW r \in Runs, pc[r] = "update", WriteLease(r)
  PROVE  /\ obj' \in [Targets -> Object]
         /\ run' \in [Runs -> RunState]
         /\ holder' \in [Targets -> Runs \cup {None}]
         /\ \A q \in Runs : /\ run'[q].target = run[q].target
                            /\ run'[q].inst = run[q].inst
                            /\ run'[q].snap = run[q].snap
<1> DEFINE t == run[r].target
<1>1. t \in Targets /\ run[r] \in RunState /\ obj[t] \in Object
  BY DEF TypeOK, TargetOK
<1>2. PICK at \in run[r].readAt .. now :
        obj' = [obj EXCEPT ![t] =
                 [exists |-> TRUE, rv |-> obj[t].rv + 1, gen |-> run[r].readGen,
                  id |-> r, started |-> Format(at), count |-> run[r].count]]
  BY DEF WriteLease
<1>3. Format(at) \in Nat
  BY <1>1, FormatType DEF TypeOK, RunState
<1>4. obj' \in [Targets -> Object]
  BY <1>1, <1>2, <1>3 DEF TypeOK, Object, RunState
<1> DEFINE s == [run[r] EXCEPT !.landed = obj[t].rv + 1, !.landedAt = now]
<1>5. /\ s \in RunState
      /\ s.target = run[r].target /\ s.inst = run[r].inst /\ s.snap = run[r].snap
  <2>1. obj[t].rv + 1 \in Nat /\ now \in Nat
    BY <1>1 DEF TypeOK, Object
  <2> QED BY <1>1, <2>1 DEF RunState
<1>6. run' = [run EXCEPT ![r] = s]
  BY <1>1 DEF WriteLease, TypeOK
<1>7. holder' \in [Targets -> Runs \cup {None}]
  BY <1>1 DEF WriteLease, TypeOK
<1> HIDE DEF s
<1> QED BY <1>4, <1>5, <1>6, <1>7 DEF TypeOK

LEMMA StepType ==
  ASSUME TypeOK, TargetOK, NEW r \in Runs,
         Step(r) \/ AcquireReplyLost(r) \/ Fail(r)
  PROVE  TypeOK' /\ TargetOK'
<1> USE PipelineAssumption DEF Goto, Working, Traced, Untraced
<1>1. CASE ReplayCheck(r)
  <2> DEFINE o == obj[run[r].target]
             s == [run[r] EXCEPT !.count = ReplayCount(o) + 1]
  <2>1. run[r] \in RunState /\ o \in Object
    BY <1>1 DEF ReplayCheck, TypeOK, TargetOK
  <2>2. /\ s \in RunState
        /\ s.target = run[r].target /\ s.inst = run[r].inst /\ s.snap = run[r].snap
    BY <2>1 DEF ReplayCount, Object, RunState
  <2>3. run' = run \/ run' = [run EXCEPT ![r] = s]
    BY <1>1 DEF ReplayCheck
  <2> HIDE DEF s
  <2>4. /\ run' \in [Runs -> RunState]
        /\ \A q \in Runs : /\ run'[q].target = run[q].target
                           /\ run'[q].inst = run[q].inst
                           /\ run'[q].snap = run[q].snap
    BY <2>2, <2>3 DEF TypeOK
  <2>5. pc' \in [Runs -> {"idle"} \cup Working \cup Traced \cup Untraced]
    BY <1>1 DEF ReplayCheck, TypeOK
  <2>6. \A q \in Runs : /\ pc'[q] # "idle" => pc[q] # "idle"
                        /\ pc'[q] = "verify" => pc[q] = "verify"
    BY <1>1 DEF ReplayCheck, TypeOK
  <2>7. UNCHANGED <<obj, head, now, faults, edits, holder, approved>>
    BY <1>1 DEF ReplayCheck
  <2> QED BY <2>4, <2>5, <2>6, <2>7 DEF TypeOK, TargetOK
<1>2. CASE AcquireGet(r)
  <2> DEFINE o == obj[run[r].target]
             s == [run[r] EXCEPT !.readRv = o.rv, !.readGen = o.gen, !.readAt = now]
  <2>1. run[r] \in RunState /\ o \in Object /\ now \in Nat
    BY <1>2 DEF AcquireGet, TypeOK, TargetOK
  <2>2. /\ s \in RunState
        /\ s.target = run[r].target /\ s.inst = run[r].inst /\ s.snap = run[r].snap
    BY <2>1 DEF Object, RunState
  <2>3. run' = run \/ run' = [run EXCEPT ![r] = s]
    BY <1>2 DEF AcquireGet
  <2> HIDE DEF s
  <2>4. /\ run' \in [Runs -> RunState]
        /\ \A q \in Runs : /\ run'[q].target = run[q].target
                           /\ run'[q].inst = run[q].inst
                           /\ run'[q].snap = run[q].snap
    BY <2>2, <2>3 DEF TypeOK
  <2>5. pc' \in [Runs -> {"idle"} \cup Working \cup Traced \cup Untraced]
    BY <1>2 DEF AcquireGet, TypeOK
  <2>6. \A q \in Runs : /\ pc'[q] # "idle" => pc[q] # "idle"
                        /\ pc'[q] = "verify" => pc[q] = "verify"
    BY <1>2 DEF AcquireGet, TypeOK
  <2>7. UNCHANGED <<obj, head, now, faults, edits, holder, approved>>
    BY <1>2 DEF AcquireGet
  <2> QED BY <2>4, <2>5, <2>6, <2>7 DEF TypeOK, TargetOK
<1>3. CASE AcquireUpdate(r)
  BY <1>3, WriteLeaseType DEF AcquireUpdate, TypeOK, TargetOK
<1>4. CASE AcquireReplyLost(r)
  BY <1>4, WriteLeaseType DEF AcquireReplyLost, TypeOK, TargetOK
<1>5. CASE AcquireRejected(r)
  BY <1>5 DEF AcquireRejected, TypeOK, TargetOK
<1>6. CASE Clone(r)
  BY <1>6 DEF Clone, TypeOK, TargetOK, RunState
<1>7. CASE CloneDenied(r)
  BY <1>7 DEF CloneDenied, TypeOK, TargetOK
<1>8. CASE VerifyHeld(r)
  BY <1>8 DEF VerifyHeld, Object, RunState, TypeOK, TargetOK
<1>9. CASE VerifyLost(r)
  BY <1>9 DEF VerifyLost, TypeOK, TargetOK
<1>10. CASE VerifyPanics(r)
  BY <1>10 DEF VerifyPanics, StopInstance, RunningOn, TypeOK, TargetOK
<1>11. CASE Stream(r)
  BY <1>11 DEF Stream, TypeOK, TargetOK
<1>12. CASE Fail(r)
  BY <1>12 DEF Fail, TypeOK, TargetOK
<1> QED BY <1>1, <1>2, <1>3, <1>4, <1>5, <1>6, <1>7, <1>8, <1>9, <1>10, <1>11, <1>12 DEF Step

\* Every step keeps the types, and a started run keeps its target.
LEMMA NextType == TypeOK /\ TargetOK /\ [Next]_vars => TypeOK' /\ TargetOK'
<1> SUFFICES ASSUME TypeOK, TargetOK, [Next]_vars
             PROVE  TypeOK' /\ TargetOK'
  OBVIOUS
<1>1. ASSUME NEW i \in Instances, Crash(i) PROVE TypeOK' /\ TargetOK'
  <2>1. \A q \in Runs : pc'[q] = pc[q] \/ (pc[q] \in Working /\ pc'[q] = "dead")
    BY <1>1, PipelineAssumption DEF Crash, StopInstance, RunningOn
  <2>2. pc' \in [Runs -> {"idle"} \cup Working \cup Traced \cup Untraced]
    BY <1>1, <2>1 DEF Crash, StopInstance, TypeOK, Untraced
  <2>3. UNCHANGED <<obj, head, now, run, edits, holder, approved>> /\ faults' \in Nat
    BY <1>1 DEF Crash, TypeOK
  <2> QED BY <2>1, <2>2, <2>3 DEF TypeOK, TargetOK, Working
<1>2. CASE UNCHANGED vars
  BY <1>2 DEF vars, TypeOK, TargetOK
<1> QED BY <1>1, <1>2, EnvironmentType, BeginType, StepType DEF Next, Quiescent

\* The state keeps its types: counters and versions are naturals, every
\* started run has a target, every verifying run a snapshot.
THEOREM TypeCorrect == Spec => []TypeOK
<1>1. Spec => [](TypeOK /\ TargetOK)
  BY InitType, NextType, PTL DEF Spec
<1> QED BY <1>1, PTL

(***************************************************************************)
(* Fencing.  Most steps touch neither an object nor a snapshot.            *)
(***************************************************************************)
Quiet ==
  /\ UNCHANGED <<obj, head, holder, approved>>
  /\ \A q \in Runs : /\ pc[q] = "verify" => pc'[q] # "stream"
                     /\ pc'[q] = "verify" => /\ pc[q] = "verify"
                                             /\ run'[q].target = run[q].target
                                             /\ run'[q].snap = run[q].snap

\* The lease of r is written, whether or not the reply arrives.
Acquired(r) ==
  /\ pc[r] = "update" /\ UpdateAccepted(r) /\ WriteLease(r)
  /\ Goto(r, "clone") \/ Goto(r, "failed")
  /\ UNCHANGED <<head, approved>>

TenantStep(t) == Edit(t) \/ Delete(t) \/ Create(t)

LEMMA StepKinds ==
  ASSUME TypeOK, TargetOK, [Next]_vars
  PROVE  \/ Quiet
         \/ \E t \in Targets : Push(t) \/ TenantStep(t)
         \/ \E r \in Runs : Acquired(r) \/ Clone(r) \/ VerifyHeld(r)
<1> USE PipelineAssumption
<1>1. ASSUME NEW r \in Runs, NEW i \in Instances, Trigger(r, i) PROVE Quiet
  <2>1. PICK l \in {"get", "check"} : /\ pc' = [pc EXCEPT ![r] = l]
                                      /\ \E s : run' = [run EXCEPT ![r] = s]
                                      /\ UNCHANGED <<obj, head, holder, approved>>
    BY <1>1 DEF Trigger, Webhook, Retrieve, Replay, Begin, Goto
  <2> QED BY <2>1 DEF Quiet, TypeOK
<1>2. ASSUME NEW r \in Runs, ReplayCheck(r) \/ AcquireGet(r) PROVE Quiet
  <2>1. /\ UNCHANGED <<obj, head, holder, approved>>
        /\ \A q \in Runs : q # r => pc'[q] = pc[q] /\ run'[q] = run[q]
        /\ pc[r] # "verify" /\ pc'[r] # "verify"
    BY <1>2 DEF ReplayCheck, AcquireGet, Goto, TypeOK
  <2> QED BY <2>1 DEF Quiet
<1>3. ASSUME NEW r \in Runs, \/ AcquireRejected(r) \/ CloneDenied(r) \/ VerifyLost(r)
                             \/ Stream(r) \/ Fail(r)
      PROVE  Quiet
  BY <1>3 DEF AcquireRejected, CloneDenied, VerifyLost, Stream, Fail, Goto, Quiet, TypeOK
<1>4. ASSUME NEW r \in Runs, VerifyPanics(r) PROVE Quiet
  BY <1>4 DEF VerifyPanics, StopInstance, Goto, Quiet, TypeOK
<1>5. ASSUME NEW i \in Instances, Crash(i) PROVE Quiet
  BY <1>5 DEF Crash, StopInstance, Quiet, TypeOK
<1>6. CASE Tick \/ UNCHANGED vars
  BY <1>6 DEF Tick, vars, Quiet, TypeOK
<1>7. ASSUME NEW r \in Runs, AcquireUpdate(r) \/ AcquireReplyLost(r) PROVE Acquired(r)
  BY <1>7 DEF AcquireUpdate, AcquireReplyLost, Acquired
<1> QED
  BY <1>1, <1>2, <1>3, <1>4, <1>5, <1>6, <1>7
  DEF Next, Environment, Step, Quiescent, TenantStep

\* What r went by before it took the lease.
SameButLease(r) ==
  /\ run'[r].target = run[r].target /\ run'[r].kind = run[r].kind
  /\ run'[r].gen = run[r].gen /\ run'[r].secret = run[r].secret
  /\ run'[r].want = run[r].want /\ run'[r].snap = run[r].snap
  /\ run'[r].readRv = run[r].readRv /\ run'[r].readGen = run[r].readGen
  /\ run'[r].readAt = run[r].readAt

\* What an acquisition does to the objects.
LEMMA AcquiredEffect ==
  ASSUME TypeOK, TargetOK, NEW r \in Runs, Acquired(r)
  PROVE  /\ run[r].target \in Targets
         /\ obj'[run[r].target].id = r
         /\ obj'[run[r].target].gen = run[r].readGen
         /\ obj'[run[r].target].rv = obj[run[r].target].rv + 1
         /\ obj'[run[r].target].exists
         /\ \A t \in Targets : t # run[r].target => obj'[t] = obj[t]
         /\ holder'[run[r].target] = r
         /\ \A t \in Targets : t # run[r].target => holder'[t] = holder[t]
         /\ run'[r].landed = obj[run[r].target].rv + 1 /\ run'[r].landedAt = now
         /\ SameButLease(r)
         /\ \A q \in Runs : q # r => pc'[q] = pc[q] /\ run'[q] = run[q]
         /\ pc'[r] \in {"clone", "failed"}
<1>1. run[r].target \in Targets
  BY DEF Acquired, TargetOK
<1> DEFINE t == run[r].target
           s == [run[r] EXCEPT !.landed = obj[t].rv + 1, !.landedAt = now]
<1>2. run[r] \in RunState
  BY DEF TypeOK
<1>3. run' = [run EXCEPT ![r] = s]
  BY <1>1 DEF Acquired, WriteLease, TypeOK
<1>4. /\ s.landed = obj[t].rv + 1 /\ s.landedAt = now
      /\ s.target = run[r].target /\ s.kind = run[r].kind /\ s.gen = run[r].gen
      /\ s.secret = run[r].secret /\ s.want = run[r].want /\ s.snap = run[r].snap
      /\ s.readRv = run[r].readRv /\ s.readGen = run[r].readGen
      /\ s.readAt = run[r].readAt
  BY <1>2 DEF RunState
<1> HIDE DEF s
<1>5. run'[r] = s /\ \A q \in Runs : q # r => run'[q] = run[q]
  BY <1>3 DEF TypeOK
<1>6. /\ run'[r].landed = obj[t].rv + 1 /\ run'[r].landedAt = now
      /\ SameButLease(r)
  BY <1>4, <1>5 DEF SameButLease
<1>7. /\ obj'[t].id = r /\ obj'[t].gen = run[r].readGen
      /\ obj'[t].rv = obj[t].rv + 1 /\ obj'[t].exists
      /\ \A u \in Targets : u # t => obj'[u] = obj[u] /\ holder'[u] = holder[u]
      /\ holder'[t] = r
  BY <1>1 DEF Acquired, WriteLease, TypeOK
<1>8. /\ \A q \in Runs : q # r => pc'[q] = pc[q]
      /\ pc'[r] \in {"clone", "failed"}
  BY DEF Acquired, Goto, TypeOK
<1> QED BY <1>1, <1>5, <1>6, <1>7, <1>8

LEMMA TenantEffect ==
  ASSUME TypeOK, NEW t \in Targets, TenantStep(t)
  PROVE  /\ obj'[t].id \in {obj[t].id, None}
         /\ obj'[t].id = None \/ obj'[t].count = obj[t].count
         /\ obj'[t].id = None \/ obj'[t].started = obj[t].started
         /\ obj'[t].gen = obj[t].gen + 1
         /\ obj'[t].rv = obj[t].rv + 1
         /\ \A u \in Targets : u # t => obj'[u] = obj[u]
         /\ UNCHANGED <<head, now, pc, run, faults, holder, approved>>
<1>1. obj[t] \in Object
  BY DEF TypeOK
<1>2. PICK o : /\ TenantWrite(t, o)
               /\ o.id \in {obj[t].id, None}
               /\ o.id = None \/ o.count = obj[t].count
               /\ o.id = None \/ o.started = obj[t].started
               /\ o.gen = obj[t].gen + 1 /\ o.rv = obj[t].rv + 1
  <2>1. CASE Edit(t)
    <3> DEFINE o == [obj[t] EXCEPT !.rv = @ + 1, !.gen = @ + 1]
    <3>1. /\ o.id = obj[t].id /\ o.count = obj[t].count
          /\ o.started = obj[t].started
          /\ o.gen = obj[t].gen + 1 /\ o.rv = obj[t].rv + 1
      BY <1>1 DEF Object
    <3>2. TenantWrite(t, o)
      BY <2>1 DEF Edit
    <3> HIDE DEF o
    <3> QED BY <3>1, <3>2
  <2>2. CASE Delete(t)
    <3> DEFINE o == [obj[t] EXCEPT !.exists = FALSE, !.rv = @ + 1, !.gen = @ + 1]
    <3>1. /\ o.id = obj[t].id /\ o.count = obj[t].count
          /\ o.started = obj[t].started
          /\ o.gen = obj[t].gen + 1 /\ o.rv = obj[t].rv + 1
      BY <1>1 DEF Object
    <3>2. TenantWrite(t, o)
      BY <2>2 DEF Delete
    <3> HIDE DEF o
    <3> QED BY <3>1, <3>2
  <2>3. CASE Create(t)
    BY <1>1, <2>3 DEF Create, Object
  <2> QED BY <2>1, <2>2, <2>3 DEF TenantStep
<1> QED BY <1>2 DEF TenantWrite, TypeOK

LEMMA FencingStep ==
  TypeOK /\ TargetOK /\ Fencing /\ [Next]_vars => Fencing'
<1> SUFFICES ASSUME TypeOK, TargetOK, Fencing, [Next]_vars PROVE Fencing'
  OBVIOUS
<1> USE PipelineAssumption
<1>1. CASE Quiet
  BY <1>1 DEF Quiet, Fencing
<1>2. ASSUME NEW t \in Targets, Push(t) PROVE Fencing'
  <2>1. \A u \in Targets : head[u] \in Nat /\ head'[u] >= head[u] /\ approved[u] \in Nat
    BY <1>2 DEF Push, TypeOK
  <2>2. \A r \in Runs : pc[r] = "verify" => run[r].snap \in Nat /\ run[r].target \in Targets
    BY DEF TargetOK
  <2>3. UNCHANGED <<obj, pc, run, holder, approved>> /\ head' \in [Targets -> Nat]
    BY <1>2 DEF Push, TypeOK
  <2> QED BY <2>1, <2>2, <2>3 DEF Fencing, TypeOK
<1>3. ASSUME NEW t \in Targets, TenantStep(t) PROVE Fencing'
  BY <1>3, TenantEffect DEF Fencing, TypeOK, TargetOK
<1>4. ASSUME NEW r \in Runs, Acquired(r) PROVE Fencing'
  <2> DEFINE t == run[r].target
  <2>1. /\ UNCHANGED <<head, approved>> /\ t \in Targets
        /\ obj'[t].id = r /\ holder'[t] = r
        /\ \A u \in Targets : u # t => obj'[u] = obj[u] /\ holder'[u] = holder[u]
        /\ \A q \in Runs : q # r => pc'[q] = pc[q] /\ run'[q] = run[q]
        /\ pc'[r] # "verify"
    BY <1>4, AcquiredEffect DEF Acquired
  <2> QED BY <2>1 DEF Fencing, TypeOK, TargetOK
<1>5. ASSUME NEW r \in Runs, Clone(r) PROVE Fencing'
  <2> DEFINE t == run[r].target
  <2>1. /\ t \in Targets /\ run'[r].snap = head[t] /\ run'[r].target = t
        /\ \A q \in Runs : q # r => pc'[q] = pc[q] /\ run'[q] = run[q]
        /\ UNCHANGED <<obj, head, holder, approved>>
    BY <1>5 DEF Clone, Goto, TypeOK, TargetOK, RunState
  <2> QED BY <2>1 DEF Fencing, TypeOK
<1>6. ASSUME NEW r \in Runs, VerifyHeld(r) PROVE Fencing'
  <2> DEFINE t == run[r].target
  <2>1. /\ t \in Targets /\ obj[t].id = r /\ run[r].snap \in Nat
        /\ run[r].snap <= head[t]
        /\ approved' = [approved EXCEPT ![t] = run[r].snap]
        /\ \A q \in Runs : q # r => pc'[q] = pc[q]
        /\ pc'[r] = "stream"
        /\ UNCHANGED <<obj, head, run, holder>>
    BY <1>6 DEF VerifyHeld, Holds, Goto, TypeOK, TargetOK, Fencing
  <2>2. \A u \in Targets : /\ obj'[u].id \in {holder'[u], None}
                           /\ approved'[u] <= head'[u]
    BY <2>1 DEF Fencing, TypeOK
  <2>3. ASSUME NEW q \in Runs, pc'[q] = "verify"
        PROVE  /\ run[q].snap <= head[run[q].target]
               /\ obj[run[q].target].id = q => approved'[run[q].target] <= run[q].snap
    <3>1. q # r /\ pc[q] = "verify" /\ run[q].target \in Targets
      BY <2>1, <2>3 DEF TargetOK
    <3>2. obj[run[q].target].id = q => run[q].target # t
      BY <2>1, <3>1
    <3> QED BY <2>1, <3>1, <3>2 DEF Fencing, TypeOK
  <2> QED BY <2>1, <2>2, <2>3 DEF Fencing
<1> QED BY <1>1, <1>2, <1>3, <1>4, <1>5, <1>6, StepKinds

LEMMA FencingInvariant == Spec => [](TypeOK /\ TargetOK /\ Fencing)
<1>1. Init => Fencing
  BY DEF Init, Fencing
<1> QED BY <1>1, InitType, NextType, FencingStep, PTL DEF Spec

\* The lease on a target is always that of the last run that wrote one, and
\* whoever verifies with it cloned no less than was cleared before.
THEOREM LeaseFences == Spec => []Fencing
<1> QED BY FencingInvariant, PTL

\* A run passes verification only as the last run that wrote its lease.
THEOREM VerifyIsFenced == Spec => FencedVerify
<1> DEFINE A == \A r \in Runs : pc[r] = "verify" /\ pc'[r] = "stream"
                                 => holder[run[r].target] = r
<1>1. TypeOK /\ TargetOK /\ Fencing /\ [Next]_vars => A
  <2> SUFFICES ASSUME TypeOK, TargetOK, Fencing, [Next]_vars PROVE A
    OBVIOUS
  <2>1. CASE Quiet
    BY <2>1 DEF Quiet
  <2>2. ASSUME NEW t \in Targets, Push(t) \/ TenantStep(t) PROVE A
    BY <2>2, TenantEffect DEF Push
  <2>3. ASSUME NEW q \in Runs, Acquired(q) PROVE A
    BY <2>3, AcquiredEffect
  <2>4. ASSUME NEW q \in Runs, Clone(q) PROVE A
    BY <2>4 DEF Clone, Goto, TypeOK
  <2>5. ASSUME NEW q \in Runs, VerifyHeld(q) PROVE A
    BY <2>5, PipelineAssumption DEF VerifyHeld, Holds, Goto, TypeOK, TargetOK, Fencing
  <2> QED BY <2>1, <2>2, <2>3, <2>4, <2>5, StepKinds
<1> QED BY <1>1, FencingInvariant, PTL DEF Spec, FencedVerify

\* The pipeline implements the abstract publication: the snapshots it clears
\* for rendering exist and never go back in time.
THEOREM Refinement == Spec => RefinesPublication
<1>1. Init => Pub!Init
  BY DEF Init, Pub!Init
<1>2. TypeOK /\ TargetOK /\ Fencing /\ [Next]_vars => [Pub!Next]_(Pub!vars)
  <2> SUFFICES ASSUME TypeOK, TargetOK, Fencing, [Next]_vars
               PROVE  [Pub!Next]_(Pub!vars)
    OBVIOUS
  <2>1. CASE Quiet
    BY <2>1 DEF Quiet, Pub!vars
  <2>2. ASSUME NEW t \in Targets, Push(t) PROVE Pub!Next
    BY <2>2 DEF Push, Pub!Next, Pub!Push
  <2>3. ASSUME NEW t \in Targets, TenantStep(t) PROVE UNCHANGED Pub!vars
    BY <2>3, TenantEffect DEF Pub!vars
  <2>4. ASSUME NEW q \in Runs, Acquired(q) \/ Clone(q) PROVE UNCHANGED Pub!vars
    BY <2>4 DEF Acquired, Clone, Pub!vars
  <2>5. ASSUME NEW q \in Runs, VerifyHeld(q) PROVE Pub!Next
    <3> DEFINE t == run[q].target
    <3>1. /\ t \in Targets
          /\ run[q].snap \in approved[t] .. head[t]
          /\ approved' = [approved EXCEPT ![t] = run[q].snap]
          /\ UNCHANGED head
      BY <2>5 DEF VerifyHeld, Holds, TypeOK, TargetOK, Fencing
    <3>2. Pub!Publish(t)
      BY <3>1 DEF Pub!Publish
    <3> QED BY <3>1, <3>2 DEF Pub!Next
  <2> QED BY <2>1, <2>2, <2>3, <2>4, <2>5, StepKinds
<1> QED BY <1>1, <1>2, FencingInvariant, PTL DEF Spec, RefinesPublication, Pub!Spec

(***************************************************************************)
(* Superseding: what the runs know of each other.  The lease passes from   *)
(* one run to the next; each that looked at the object stands by what it   *)
(* read, or holds the lease, or comes before its last holder.              *)
(***************************************************************************)
\* From its Get on a run that is under way, or gave way to another.
Looked == {"update", "clone", "verify", "lost", "conflict"}

\* The last run to take the lease of r's target took it after r looked.
After(r) ==
  LET q == holder[run[r].target]
  IN q \in Runs \ {r} /\ run[q].landed > run[r].readRv

\* What a run goes by is no newer than what is there.
Steady(r) ==
  LET t == run[r].target IN
     /\ pc[r] = "idle" => run[r].landed = 0
     /\ pc[r] # "idle" => /\ run[r].want <= head[t]
                          /\ run[r].landed <= obj[t].rv
                          /\ run[r].readRv <= obj[t].rv
                          /\ run[r].readGen <= obj[t].gen
     /\ pc[r] \in {"check", "get", "update", "clone"} => run[r].snap = NotCloned
     /\ pc[r] \in {"verify", "stream", "done"} => run[r].snap \in Nat
     /\ pc[r] = "update" /\ run[r].readRv = obj[t].rv => run[r].readGen = obj[t].gen

\* A run that looked has the current version, or the lease, or a successor,
\* unless the tenant wrote; a successor has not cloned yet or has its push.
Stands(r) ==
  LET t == run[r].target  q == holder[t] IN
     pc[r] \in Looked =>
        /\ \/ After(r)
           \/ pc[r] = "update" /\ run[r].readRv = obj[t].rv
           \/ pc[r] \in {"update", "conflict"} /\ run[r].readGen < obj[t].gen
           \/ pc[r] \in {"clone", "verify"} /\ q = r
        /\ After(r) => run[q].snap = NotCloned \/ run[q].snap >= run[r].want

\* The last run to take a lease is under way, done, or broke down.
Custody(t) ==
  LET q == holder[t] IN
     q # None => /\ run[q].target = t
                 /\ run[q].landed > 0
                 /\ pc[q] \in {"clone", "verify", "stream", "done"} \/ BrokeDown(q)

\* The time on a lease lies between the Get and the Update of its run, the
\* fraction of a second aside.
Dated(t) ==
  LET q == holder[t] IN
     Leased(obj[t]) => /\ obj[t].started <= run[q].landedAt
                       /\ obj[t].started + Second > run[q].readAt

\* Until the tenant changes something, all work from one configuration.
Undisturbed ==
  edits = 0 => /\ \A t \in Targets : /\ obj[t].exists /\ obj[t].gen = 0
                                     /\ obj[t].id = holder[t]
               /\ \A r \in Runs : pc[r] # "idle" => run[r].gen = 0

Superseding ==
  /\ \A r \in Runs : Steady(r) /\ Stands(r)
  /\ \A t \in Targets : Custody(t) /\ Dated(t)
  /\ Undisturbed

\* A run that has not looked yet is no holder: what it does concerns itself.
LEMMA OutsiderStep ==
  ASSUME TypeOK, TargetOK, Fencing, Superseding, NEW r \in Runs,
         pc[r] \in {"idle", "check", "get"},
         UNCHANGED <<obj, head, holder, faults, edits>>,
         \A q \in Runs : q # r => pc'[q] = pc[q] /\ run'[q] = run[q],
         Steady(r)', Stands(r)',
         edits = 0 /\ pc'[r] # "idle" => run'[r].gen = 0
  PROVE  Superseding'
<1> USE PipelineAssumption
<1>1. \A t \in Targets : holder[t] # r
  BY DEF Superseding, Custody, BrokeDown
<1>2. ASSUME NEW t \in Targets PROVE Custody(t)' /\ Dated(t)'
  <2>1. holder[t] # None => /\ holder[t] \in Runs
                            /\ run'[holder[t]] = run[holder[t]]
                            /\ pc'[holder[t]] = pc[holder[t]]
    BY <1>1 DEF TypeOK
  <2>2. Custody(t)'
    BY <2>1 DEF Superseding, Custody, BrokeDown, CanClone
  <2>3. Dated(t) /\ (Leased(obj[t]) => holder[t] # None)
    BY DEF Superseding, Fencing
  <2>4. Dated(t)'
    BY <2>1, <2>3 DEF Dated
  <2> QED BY <2>2, <2>4
<1>3. ASSUME NEW q \in Runs, q # r PROVE Steady(q)' /\ Stands(q)'
  <2>1. pc'[q] = pc[q] /\ run'[q] = run[q]
    BY <1>3
  <2>2. pc[q] # "idle" => run[q].target \in Targets
    BY DEF TargetOK
  <2>3. Steady(q)'
    BY <2>1 DEF Superseding, Steady
  <2>4. Stands(q)'
    <3> DEFINE h == holder[run[q].target]
    <3>1. CASE pc[q] \in Looked
      <4>1. h \in Runs => run'[h] = run[h]
        BY <1>1, <2>2, <3>1 DEF Looked
      <4>2. After(q)' = After(q)
        BY <2>1, <4>1 DEF After
      <4>3. After(q) => run'[h] = run[h]
        BY <4>1 DEF After
      <4> QED BY <2>1, <3>1, <4>2, <4>3 DEF Superseding, Stands
    <3>2. CASE pc[q] \notin Looked
      BY <2>1, <3>2 DEF Stands
    <3> QED BY <3>1, <3>2
  <2> QED BY <2>3, <2>4
<1>4. Undisturbed'
  BY DEF Superseding, Undisturbed
<1> QED BY <1>2, <1>3, <1>4 DEF Superseding

\* Runs that end, or give way to a successor, leave the rest as it is.
Ended == {"aborted", "failed", "panicked", "dead", "stream", "done"}

Ends(q) ==
  \/ pc'[q] = pc[q]
  \/ /\ pc[q] # "idle" /\ pc'[q] \in Ended
     /\ pc'[q] \in {"stream", "done"} => pc[q] \in {"verify", "stream"}
     /\ pc'[q] = "aborted" => pc[q] = "check"
     /\ pc'[q] \notin {"stream", "done"} =>
           faults' > 0 \/ edits > 0 \/ ~CanClone(q)
  \/ /\ pc[q] \in {"update", "verify"} /\ pc'[q] \in {"lost", "conflict"}
     /\ After(q) \/ (pc'[q] = "conflict" /\ run[q].readGen < obj[run[q].target].gen)
     /\ \A t \in Targets : holder[t] # q

LEMMA EndsStep ==
  ASSUME TypeOK, TargetOK, Superseding,
         UNCHANGED <<obj, head, run, holder, edits>>,
         faults > 0 => faults' > 0,
         \A q \in Runs : Ends(q)
  PROVE  Superseding'
<1> USE PipelineAssumption
<1>1. ASSUME NEW t \in Targets PROVE Custody(t)' /\ Dated(t)'
  <2> DEFINE q == holder[t]
  <2>1. CASE q = None
    BY <2>1 DEF Superseding, Custody, Dated
  <2>2. CASE q # None
    <3>1. q \in Runs /\ Ends(q) /\ Custody(t)
      BY <2>2 DEF TypeOK, Superseding
    <3>2. pc'[q] \in {"clone", "verify", "stream", "done"} \/ BrokeDown(q)'
      BY <2>2, <3>1 DEF Custody, BrokeDown, Ends, Ended, CanClone
    <3>3. Custody(t)'
      BY <2>2, <3>1, <3>2 DEF Custody
    <3> QED BY <3>3 DEF Superseding, Dated
  <2> QED BY <2>1, <2>2
<1>2. ASSUME NEW q \in Runs PROVE Steady(q)' /\ Stands(q)'
  <2>1. Ends(q) /\ Steady(q) /\ Stands(q) /\ After(q)' = After(q)
    BY DEF Superseding, After
  <2>2. CASE pc'[q] = pc[q]
    BY <2>1, <2>2 DEF Steady, Stands
  <2>3. CASE pc'[q] # pc[q] /\ pc'[q] \in Ended
    BY <2>1, <2>3 DEF Ends, Ended, Looked, Steady, Stands
  <2>4. CASE pc'[q] # pc[q] /\ pc'[q] \notin Ended
    BY <2>1, <2>4 DEF Ends, Ended, Looked, Steady, Stands
  <2> QED BY <2>2, <2>3, <2>4
<1>3. Undisturbed'
  <2>1. \A q \in Runs : pc'[q] # "idle" => pc[q] # "idle"
    BY DEF Ends, Ended
  <2> QED BY <2>1 DEF Superseding, Undisturbed
<1> QED BY <1>1, <1>2, <1>3 DEF Superseding

LEMMA SupersedingTrigger ==
  ASSUME TypeOK, TargetOK, Fencing, Superseding, NEW r \in Runs, NEW i \in Instances,
         Trigger(r, i)
  PROVE  Superseding'
<1>1. /\ pc[r] = "idle" /\ pc'[r] \in {"get", "check"}
      /\ run'[r].want <= head[run'[r].target]
      /\ run'[r].target \in Targets
      /\ run'[r].snap = NotCloned /\ run'[r].landed = 0
      /\ run'[r].readRv = 0 /\ run'[r].readGen = 0
      /\ edits = 0 => run'[r].gen = 0
      /\ \A q \in Runs : q # r => pc'[q] = pc[q] /\ run'[q] = run[q]
      /\ UNCHANGED <<obj, head, holder, faults, edits>>
  <2>1. ASSUME NEW l \in {"get", "check"}, NEW kind, NEW t \in Targets, NEW e,
               NEW d, NEW want \in Nat, want <= head[t], edits = 0 => d.gen = 0,
               Begin(r, l, kind, t, i, e, d, want)
        PROVE  <1>1!:
    BY <2>1 DEF Begin, Goto, NewRun, TypeOK
  <2>2. ASSUME NEW t \in Targets PROVE edits = 0 => TargetOf(t).gen = 0
    BY <2>2 DEF Superseding, Undisturbed
  <2>3. ASSUME NEW e \in Runs, pc[e] \in Traced
        PROVE  edits = 0 => TargetOfSpan(e).gen = 0
    BY <2>3 DEF Superseding, Undisturbed, Traced
  <2> HIDE DEF TargetOf, TargetOfSpan
  <2>4. ASSUME NEW t \in Targets, Webhook(r, t, i) PROVE <1>1!:
    BY <2>1, <2>2, <2>4 DEF Webhook, TypeOK
  <2>5. ASSUME NEW t \in Targets, Retrieve(r, t, i) PROVE <1>1!:
    BY <2>1, <2>2, <2>5 DEF Retrieve, TypeOK
  <2>6. ASSUME NEW e \in Runs, Replay(r, e, i) PROVE <1>1!:
    BY <2>1, <2>3, <2>6 DEF Replay, Traced, TypeOK, TargetOK
  <2> QED BY <2>4, <2>5, <2>6 DEF Trigger
<1>2. Steady(r)' /\ Stands(r)'
  BY <1>1 DEF Steady, Stands, Looked, TypeOK, Object
<1> QED BY <1>1, <1>2, OutsiderStep

LEMMA SupersedingRead ==
  ASSUME TypeOK, TargetOK, Fencing, Superseding, NEW r \in Runs,
         ReplayCheck(r) \/ AcquireGet(r)
  PROVE  Superseding'
<1> USE PipelineAssumption
<1> DEFINE t == run[r].target
           q == holder[t]
<1>1. /\ pc[r] \in {"check", "get"} /\ t \in Targets
      /\ UNCHANGED <<obj, head, holder, faults, edits>>
      /\ \A p \in Runs : p # r => pc'[p] = pc[p] /\ run'[p] = run[p]
      /\ run'[r].target = t /\ run'[r].gen = run[r].gen
      /\ run'[r].landed = run[r].landed /\ run'[r].want = run[r].want
      /\ run'[r].snap = run[r].snap
      /\ \/ /\ pc'[r] \in {"aborted", "skipped", "refused", "failed", "get"}
            /\ run'[r].readRv = run[r].readRv /\ run'[r].readGen = run[r].readGen
         \/ /\ pc'[r] = "update"
            /\ run'[r].readRv = obj[t].rv /\ run'[r].readGen = obj[t].gen
  BY DEF ReplayCheck, AcquireGet, Goto, TypeOK, TargetOK, RunState
<1>2. q \in Runs => q # r /\ run[q].landed <= obj[t].rv
  BY <1>1 DEF Superseding, Custody, BrokeDown, Steady
<1>3. Steady(r)'
  BY <1>1 DEF Superseding, Steady, TypeOK, Object
<1>4. Stands(r)'
  <2>1. CASE pc'[r] = "update"
    <3>1. ~After(r)'
      <4>1. q \in Runs => run'[q].landed <= run'[r].readRv
        BY <1>1, <1>2, <2>1
      <4>2. q \in Runs => run'[q].landed \in Nat /\ run'[r].readRv \in Nat
        BY <1>1, <1>2, <2>1 DEF TypeOK, RunState, Object
      <4> QED BY <1>1, <4>1, <4>2 DEF After
    <3> QED BY <1>1, <2>1, <3>1 DEF Stands
  <2>2. CASE pc'[r] # "update"
    BY <1>1, <2>2 DEF Stands, Looked
  <2> QED BY <2>1, <2>2
<1> QED BY <1>1, <1>3, <1>4, OutsiderStep DEF Superseding, Undisturbed

\* Whoever takes the lease comes after all that looked at the object before.
LEMMA SupersedingAcquired ==
  ASSUME TypeOK, TargetOK, Fencing, Superseding, NEW r \in Runs, Acquired(r),
         UNCHANGED edits, faults > 0 => faults' > 0,
         pc'[r] = "failed" => faults' > 0
  PROVE  Superseding'
<1> USE PipelineAssumption
<1> DEFINE t == run[r].target
<1>1. /\ t \in Targets /\ pc[r] = "update" /\ run[r] \in RunState
      /\ UNCHANGED head
      /\ obj[t].rv = run[r].readRv /\ obj[t].rv \in Nat /\ obj[t].gen \in Nat
  BY DEF Acquired, UpdateAccepted, TypeOK, TargetOK, Object
<1>2. Steady(r) /\ run[r].readGen = obj[t].gen /\ run[r].snap = NotCloned
  BY <1>1 DEF Superseding, Steady
<1>3. /\ run'[r].landed = obj[t].rv + 1 /\ run'[r].landedAt = now
      /\ run'[r].target = t /\ run'[r].gen = run[r].gen
      /\ run'[r].snap = NotCloned /\ run'[r].want = run[r].want
      /\ run'[r].readRv = run[r].readRv /\ run'[r].readGen = run[r].readGen
      /\ run'[r].secret = run[r].secret /\ run'[r].readAt = run[r].readAt
  BY <1>2, AcquiredEffect DEF SameButLease
<1>4. /\ obj'[t].gen = obj[t].gen /\ obj'[t].rv = obj[t].rv + 1
      /\ obj'[t].id = r /\ obj'[t].exists /\ holder'[t] = r
      /\ \A u \in Targets : u # t => obj'[u] = obj[u] /\ holder'[u] = holder[u]
      /\ \A q \in Runs : q # r => pc'[q] = pc[q] /\ run'[q] = run[q]
      /\ pc'[r] \in {"clone", "failed"}
  BY <1>2, AcquiredEffect
<1>5. Steady(r)' /\ Stands(r)'
  <2>1. ~After(r)'
    BY <1>1, <1>3, <1>4 DEF After
  <2>2. holder'[t] = r
    BY <1>1, <1>4 DEF TypeOK
  <2>3. Steady(r)'
    BY <1>1, <1>4, <1>3, <1>4 DEF Superseding, Steady
  <2> QED BY <1>1, <1>4, <1>3, <2>1, <2>2, <2>3, <1>4 DEF Stands, Looked
<1>6. ASSUME NEW q \in Runs, q # r PROVE Steady(q)' /\ Stands(q)'
  <2>1. pc'[q] = pc[q] /\ run'[q] = run[q] /\ run[q] \in RunState
    BY <1>6, <1>4 DEF TypeOK
  <2>2. CASE pc[q] = "idle"
    BY <2>1, <2>2 DEF Superseding, Steady, Stands, Looked
  <2>3. CASE pc[q] # "idle" /\ run[q].target # t
    <3> DEFINE u == run[q].target
    <3>1. u \in Targets /\ obj'[u] = obj[u] /\ holder'[u] = holder[u]
      BY <2>3, <1>4 DEF TargetOK
    <3>2. holder[u] \in Runs => run'[holder[u]] = run[holder[u]]
      <4>1. holder[u] \in Runs => Custody(u) /\ holder[u] # None
        BY <3>1 DEF Superseding
      <4> QED BY <1>1, <1>4, <2>3, <4>1 DEF Custody
    <3>3. Steady(q)'
      BY <1>1, <2>1, <2>3, <3>1 DEF Superseding, Steady
    <3>4. ASSUME pc[q] \in Looked PROVE Stands(q)'
      <4>1. After(q)' = After(q)
        BY <2>1, <3>1, <3>2 DEF After
      <4>2. After(q) => run'[holder[u]] = run[holder[u]]
        BY <3>2 DEF After
      <4> QED BY <2>1, <3>1, <3>4, <4>1, <4>2 DEF Superseding, Stands
    <3>5. ASSUME pc[q] \notin Looked PROVE Stands(q)'
      BY <2>1, <3>5 DEF Stands
    <3> QED BY <3>3, <3>4, <3>5
  <2>4. CASE pc[q] # "idle" /\ run[q].target = t
    <3>1. /\ run[q].readRv \in Nat /\ run[q].readGen \in Nat
          /\ run[q].readRv <= obj[t].rv /\ run[q].landed <= obj[t].rv
          /\ run[q].landed \in Nat
      BY <2>1, <2>4 DEF RunState, Superseding, Steady
    <3>2. holder'[t] = r
      BY <1>1, <1>4 DEF TypeOK
    <3>3. After(q)'
      BY <1>1, <1>3, <1>6, <2>1, <2>4, <3>1, <3>2 DEF After
    <3>4. Steady(q)'
      BY <1>1, <1>4, <2>1, <2>4, <3>1 DEF Superseding, Steady
    <3>5. Stands(q)'
      BY <1>3, <2>1, <2>4, <3>2, <3>3 DEF Stands
    <3> QED BY <3>4, <3>5
  <2> QED BY <2>2, <2>3, <2>4
<1>7. ASSUME NEW u \in Targets PROVE Custody(u)' /\ Dated(u)'
  <2>1. CASE u = t
    <3>1. holder'[u] = r /\ run'[r].target = u
      BY <1>3, <1>4, <2>1
    <3>2. Custody(u)'
      BY <1>1, <1>3, <3>1, <1>4 DEF Custody, BrokeDown
    <3>3. PICK at \in run[r].readAt .. now : obj'[u].started = Format(at)
      BY <1>1, <2>1 DEF Acquired, WriteLease, TypeOK
    <3>4. at \in Nat /\ run[r].readAt \in Nat /\ now \in Nat
      BY <1>1 DEF TypeOK, RunState
    <3>5. Format(at) <= at /\ Format(at) + Second > at /\ Format(at) \in Nat
      BY <3>4, FormatBounds
    <3>6. Dated(u)'
      BY <1>3, <3>1, <3>3, <3>4, <3>5 DEF Dated
    <3> QED BY <3>2, <3>6
  <2>2. CASE u # t
    <3> DEFINE h == holder[u]
    <3>1. obj'[u] = obj[u] /\ holder'[u] = h
      BY <1>4, <2>2
    <3>2. h # None => h \in Runs /\ h # r
      BY <2>2 DEF TypeOK, Superseding, Custody
    <3>3. h # None => run'[h] = run[h] /\ pc'[h] = pc[h]
      BY <3>2, <1>4
    <3>4. Custody(u)'
      BY <3>1, <3>2, <3>3 DEF Superseding, Custody, BrokeDown, CanClone
    <3>5. Dated(u)'
      <4>1. CASE Leased(obj[u])
        BY <3>1, <3>3, <4>1 DEF Superseding, Dated, Fencing
      <4>2. CASE ~Leased(obj[u])
        BY <3>1, <4>2 DEF Dated
      <4> QED BY <4>1, <4>2
    <3> QED BY <3>4, <3>5
  <2> QED BY <2>1, <2>2
<1>8. Undisturbed'
  <2>1. ASSUME edits = 0, NEW u \in Targets
        PROVE  obj'[u].exists /\ obj'[u].gen = 0 /\ obj'[u].id = holder'[u]
    BY <1>1, <1>4, <2>1, <1>4 DEF Superseding, Undisturbed, TypeOK
  <2>2. ASSUME edits = 0, NEW q \in Runs, pc'[q] # "idle" PROVE run'[q].gen = 0
    <3>1. pc[q] # "idle" /\ run'[q].gen = run[q].gen
      BY <1>1, <1>3, <2>2, <1>4
    <3> QED BY <2>2, <3>1 DEF Superseding, Undisturbed
  <2> QED BY <2>1, <2>2 DEF Undisturbed
<1> QED BY <1>5, <1>6, <1>7, <1>8 DEF Superseding

LEMMA SupersedingClone ==
  ASSUME TypeOK, TargetOK, Fencing, Superseding, NEW r \in Runs, Clone(r)
  PROVE  Superseding'
<1> USE PipelineAssumption
<1> DEFINE t == run[r].target
<1>1. /\ pc[r] = "clone" /\ pc'[r] = "verify" /\ t \in Targets
      /\ UNCHANGED <<obj, head, holder, faults, edits>>
      /\ \A q \in Runs : q # r => pc'[q] = pc[q] /\ run'[q] = run[q]
      /\ run' = [run EXCEPT ![r].snap = head[t]] /\ head[t] \in Nat
  BY DEF Clone, Goto, TypeOK, TargetOK
<1>2. /\ run'[r].snap = head[t]
      /\ \A q \in Runs : /\ run'[q].target = run[q].target
                         /\ run'[q].want = run[q].want
                         /\ run'[q].gen = run[q].gen
                         /\ run'[q].secret = run[q].secret
                         /\ run'[q].landed = run[q].landed
                         /\ run'[q].landedAt = run[q].landedAt
                         /\ run'[q].readRv = run[q].readRv
                         /\ run'[q].readGen = run[q].readGen
                         /\ run'[q].readAt = run[q].readAt
                         /\ run'[q].snap = run[q].snap \/ q = r
  BY <1>1 DEF TypeOK, RunState
<1>3. ASSUME NEW q \in Runs PROVE Steady(q)' /\ Stands(q)'
  <2>1. Steady(q)'
    BY <1>1, <1>2 DEF Superseding, Steady, TypeOK
  <2>2. CASE pc'[q] \in Looked
    <3> DEFINE u == run[q].target
               h == holder[u]
    <3>1. pc[q] \in Looked /\ u \in Targets /\ run[q].want <= head[u]
      BY <1>1, <2>2 DEF Looked, Superseding, Steady, TargetOK
    <3>2. After(q)' = After(q)
      BY <1>1, <1>2 DEF After
    <3>3. After(q) => h \in Runs /\ run[h].target = u
      BY <3>1 DEF After, Superseding, Custody
    <3>4. After(q) => run'[h].snap = NotCloned \/ run'[h].snap >= run[q].want
      <4>1. CASE After(q) /\ h = r
        BY <1>2, <3>1, <3>3, <4>1
      <4>2. CASE After(q) /\ h # r
        BY <1>2, <3>1, <3>3, <4>2 DEF Superseding, Stands
      <4> QED BY <4>1, <4>2
    <3>5. \/ After(q)
          \/ pc'[q] = "update" /\ run[q].readRv = obj[u].rv
          \/ pc'[q] \in {"update", "conflict"} /\ run[q].readGen < obj[u].gen
          \/ pc'[q] \in {"clone", "verify"} /\ h = q
      BY <1>1, <3>1 DEF Superseding, Stands
    <3> QED BY <1>1, <1>2, <2>1, <3>2, <3>4, <3>5 DEF Stands
  <2>3. CASE pc'[q] \notin Looked
    BY <2>1, <2>3 DEF Stands
  <2> QED BY <2>2, <2>3
<1>4. ASSUME NEW u \in Targets PROVE Custody(u)' /\ Dated(u)'
  <2> DEFINE h == holder[u]
  <2>1. CASE h = None
    BY <1>1, <2>1 DEF Custody, Dated, Fencing
  <2>2. CASE h # None
    <3>1. h \in Runs /\ Custody(u) /\ Dated(u)
      BY <2>2 DEF TypeOK, Superseding
    <3>2. pc'[h] \in {"clone", "verify", "stream", "done"} \/ BrokeDown(h)'
      BY <1>1, <1>2, <2>2, <3>1 DEF Custody, BrokeDown, CanClone
    <3> QED BY <1>1, <1>2, <2>2, <3>1, <3>2 DEF Custody, Dated
  <2> QED BY <2>1, <2>2
<1>5. Undisturbed'
  BY <1>1, <1>2 DEF Superseding, Undisturbed
<1> QED BY <1>3, <1>4, <1>5 DEF Superseding

\* A run that gives up because of what it finds on the object.
LEMMA SupersedingGivesUp ==
  ASSUME TypeOK, TargetOK, Fencing, Superseding, NEW r \in Runs,
         AcquireRejected(r) \/ VerifyLost(r)
  PROVE  Superseding'
<1> USE PipelineAssumption
<1> DEFINE t == run[r].target
<1>1. /\ UNCHANGED <<obj, head, run, holder, faults, edits>>
      /\ \A q \in Runs : q # r => pc'[q] = pc[q]
      /\ pc[r] \in {"update", "verify"} /\ t \in Targets
      /\ \/ pc'[r] = "failed" /\ ~obj[t].exists
         \/ pc[r] = "update" /\ pc'[r] = "conflict" /\ run[r].readRv # obj[t].rv
         \/ /\ pc[r] = "verify" /\ pc'[r] = "lost"
            /\ obj[t].id # r /\ Leased(obj[t])
  BY DEF AcquireRejected, UpdateAccepted, VerifyLost, Holds, Goto, TypeOK, TargetOK
<1>2. /\ Steady(r) /\ Stands(r)
      /\ \A u \in Targets : holder[u] = r => u = t /\ pc[r] \in {"clone", "verify"}
  BY <1>1 DEF Superseding, Custody, BrokeDown
<1>3. Ends(r)
  <2>1. CASE pc'[r] = "failed" /\ ~obj[t].exists
    <3>1. edits > 0
      BY <1>1, <2>1 DEF Superseding, Undisturbed, TypeOK
    <3> QED BY <1>1, <2>1, <3>1 DEF Ends, Ended
  <2>2. CASE pc[r] = "update" /\ pc'[r] = "conflict" /\ run[r].readRv # obj[t].rv
    BY <1>2, <2>2 DEF Ends, Stands, Looked
  <2>3. CASE pc[r] = "verify" /\ pc'[r] = "lost" /\ obj[t].id # r /\ Leased(obj[t])
    <3>1. holder[t] # r
      BY <1>1, <2>3 DEF Fencing
    <3> QED BY <1>2, <2>3, <3>1 DEF Ends, Stands, Looked
  <2> QED BY <1>1, <2>1, <2>2, <2>3
<1>4. \A q \in Runs : Ends(q)
  BY <1>1, <1>3 DEF Ends
<1> QED BY <1>1, <1>4, EndsStep

\* The tenant's change raises version and generation of one object.
LEMMA SupersedingTenant ==
  ASSUME TypeOK, TargetOK, Superseding, NEW t \in Targets, TenantStep(t)
  PROVE  Superseding'
<1> USE PipelineAssumption
<1>1. /\ UNCHANGED <<head, pc, run, faults, holder>>
      /\ obj[t].rv \in Nat /\ obj[t].gen \in Nat
      /\ obj'[t].rv = obj[t].rv + 1 /\ obj'[t].gen = obj[t].gen + 1
      /\ \A u \in Targets : u # t => obj'[u] = obj[u]
      /\ edits' > 0
  <2>1. obj[t] \in Object
    BY DEF TypeOK
  <2>2. edits' = edits + 1 /\ edits \in Nat
    BY DEF TypeOK, TenantStep, Edit, Delete, Create, TenantWrite
  <2> QED BY <2>1, <2>2, TenantEffect DEF Object
<1>2. ASSUME NEW q \in Runs PROVE Steady(q)' /\ Stands(q)'
  <2>1. /\ Steady(q) /\ Stands(q) /\ After(q)' = After(q)
        /\ run[q].readRv \in Nat /\ run[q].readGen \in Nat /\ run[q].landed \in Nat
    BY <1>1 DEF Superseding, After, TypeOK, RunState
  <2>2. CASE pc[q] = "idle"
    BY <1>1, <2>1, <2>2 DEF Steady, Stands, Looked
  <2>3. CASE pc[q] # "idle"
    <3>1. run[q].target \in Targets
      BY <2>3 DEF TargetOK
    <3>2. Steady(q)'
      BY <1>1, <2>1, <2>3, <3>1 DEF Steady
    <3>3. Stands(q)'
      BY <1>1, <2>1, <2>3, <3>1 DEF Steady, Stands
    <3> QED BY <3>2, <3>3
  <2> QED BY <2>2, <2>3
<1>3. ASSUME NEW u \in Targets PROVE Custody(u)' /\ Dated(u)'
  <2>1. Custody(u)'
    BY <1>1 DEF Superseding, Custody, BrokeDown, CanClone
  <2>2. Dated(u)'
    BY <1>1, TenantEffect DEF Superseding, Dated
  <2> QED BY <2>1, <2>2
<1>4. Undisturbed'
  BY <1>1 DEF Undisturbed
<1> QED BY <1>2, <1>3, <1>4 DEF Superseding

LEMMA SupersedingStep ==
  TypeOK /\ TargetOK /\ Fencing /\ Superseding /\ [Next]_vars => Superseding'
<1> SUFFICES ASSUME TypeOK, TargetOK, Fencing, Superseding, [Next]_vars
             PROVE  Superseding'
  OBVIOUS
<1> USE PipelineAssumption
<1>1. ASSUME NEW t \in Targets, Push(t) PROVE Superseding'
  <2>1. /\ UNCHANGED <<obj, pc, run, holder, faults, edits>>
        /\ \A u \in Targets : head[u] \in Nat /\ head'[u] \in Nat /\ head[u] <= head'[u]
    BY <1>1 DEF Push, TypeOK
  <2>2. ASSUME NEW q \in Runs PROVE Steady(q)' /\ Stands(q)'
    <3>1. pc[q] # "idle" => run[q].want \in Nat /\ run[q].target \in Targets
      BY DEF TypeOK, TargetOK, RunState
    <3>2. Steady(q)'
      BY <2>1, <3>1 DEF Superseding, Steady
    <3>3. Stands(q)'
      BY <2>1 DEF Superseding, Stands, After
    <3> QED BY <3>2, <3>3
  <2>3. \A u \in Targets : Custody(u)' /\ Dated(u)'
    BY <2>1 DEF Superseding, Custody, Dated, BrokeDown, CanClone
  <2>4. Undisturbed'
    BY <2>1 DEF Superseding, Undisturbed
  <2> QED BY <2>2, <2>3, <2>4 DEF Superseding
<1>2. ASSUME NEW r \in Runs, CloneDenied(r) \/ VerifyHeld(r) \/ Stream(r) \/ Fail(r)
      PROVE  Superseding'
  <2>1. UNCHANGED <<obj, head, run, holder, edits>> /\ (faults > 0 => faults' > 0)
    BY <1>2 DEF CloneDenied, VerifyHeld, Stream, Fail, TypeOK
  <2>2. \A q \in Runs : q # r => pc'[q] = pc[q]
    BY <1>2 DEF CloneDenied, VerifyHeld, Stream, Fail, Goto, TypeOK
  <2>3. Ends(r)
    BY <1>2 DEF CloneDenied, VerifyHeld, Stream, Fail, Goto, Ends, Ended, Working, TypeOK
  <2> QED BY <2>1, <2>2, <2>3, EndsStep DEF Ends
<1>3. ASSUME NEW i \in Instances, Crash(i) PROVE Superseding'
  <2>1. UNCHANGED <<obj, head, run, holder, edits>> /\ faults' > 0
    BY <1>3 DEF Crash, TypeOK
  <2>2. \A q \in Runs : Ends(q)
    BY <1>3, <2>1 DEF Crash, StopInstance, RunningOn, Working, Ends, Ended, TypeOK
  <2> QED BY <2>1, <2>2, EndsStep
<1>4. CASE Tick \/ UNCHANGED vars
  <2>1. UNCHANGED <<obj, head, pc, run, holder, faults, edits>>
    BY <1>4 DEF Tick, vars
  <2>2. \A q \in Runs : Ends(q)
    BY <2>1 DEF Ends
  <2> QED BY <2>1, <2>2, EndsStep
<1>5. ASSUME NEW r \in Runs, VerifyPanics(r) PROVE Superseding'
  <2>1. /\ UNCHANGED <<obj, head, run, holder, faults, edits>>
        /\ pc[r] = "verify" /\ ~Leased(obj[run[r].target])
    BY <1>5 DEF VerifyPanics
  <2>2. edits > 0
    <3>1. run[r].target \in Targets /\ holder[run[r].target] \in Runs
      BY <2>1 DEF TargetOK, Superseding, Stands, Looked, After
    <3> QED BY <2>1, <3>1 DEF Superseding, Undisturbed, TypeOK
  <2>3. \A q \in Runs : Ends(q)
    <3>1. CASE Goto(r, "failed")
      BY <2>1, <2>2, <3>1 DEF Goto, Ends, Ended, TypeOK
    <3>2. CASE StopInstance(run[r].inst, r, "panicked")
      BY <2>1, <2>2, <3>2 DEF StopInstance, RunningOn, Working, Ends, Ended, TypeOK
    <3> QED BY <1>5, <3>1, <3>2 DEF VerifyPanics
  <2> QED BY <2>1, <2>3, EndsStep
<1>6. ASSUME NEW r \in Runs, AcquireUpdate(r) \/ AcquireReplyLost(r) PROVE Superseding'
  <2>1. /\ Acquired(r) /\ UNCHANGED edits
        /\ faults > 0 => faults' > 0
        /\ pc'[r] = "failed" => faults' > 0
    BY <1>6 DEF AcquireUpdate, AcquireReplyLost, Acquired, Goto, TypeOK
  <2> QED BY <2>1, SupersedingAcquired
<1> QED
  BY <1>1, <1>2, <1>3, <1>4, <1>5, <1>6, SupersedingTrigger, SupersedingRead,
     SupersedingClone, SupersedingGivesUp, SupersedingTenant
  DEF Next, Environment, Step, Quiescent, TenantStep

LEMMA SupersedingInvariant == Spec => [](TypeOK /\ TargetOK /\ Fencing /\ Superseding)
<1>1. Init => Fencing /\ Superseding
  BY DEF Init, Fencing, Superseding, Steady, Stands, Looked, Custody, Dated, Undisturbed, NewRun
<1> QED BY <1>1, InitType, NextType, FencingStep, SupersedingStep, PTL DEF Spec

\* A run that gives way makes room for the last run to take the lease, which
\* took it later and brings its push, from the same configuration unless the
\* tenant changed it, or broke down itself.
THEOREM SupersededCovered == Spec => []SupersededIsCovered
<1>1. TypeOK /\ TargetOK /\ Superseding => SupersededIsCovered
  <2> SUFFICES ASSUME TypeOK, TargetOK, Superseding, NEW r \in Runs, GaveWay(r)
               PROVE  LET q == holder[run[r].target]
                      IN /\ q \in Runs \ {r}
                         /\ run[q].target = run[r].target
                         /\ run[q].landed > run[r].readRv
                         /\ edits = 0 => run[q].gen = run[r].gen
                         /\ Brings(q, r) \/ BrokeDown(q)
    BY DEF SupersededIsCovered
  <2> DEFINE t == run[r].target
             q == holder[t]
  <2>1. /\ pc[r] \in Looked /\ pc[r] # "idle" /\ t \in Targets
        /\ Steady(r) /\ Stands(r) /\ Custody(t)
    BY DEF GaveWay, Looked, TargetOK, Superseding
  <2>2. After(r)
    BY <2>1 DEF GaveWay, Stands, TypeOK, Object, RunState
  <2>3. q \in Runs \ {r} /\ q # None /\ run[q].landed > run[r].readRv
    BY <2>2, PipelineAssumption DEF After
  <2>4. /\ run[q].target = t
        /\ pc[q] \in {"clone", "verify", "stream", "done"} \/ BrokeDown(q)
    BY <2>1, <2>3 DEF Custody
  <2>5. edits = 0 => run[q].gen = run[r].gen
    BY <2>1, <2>3, <2>4 DEF Superseding, Undisturbed, BrokeDown
  <2>6. Brings(q, r) \/ BrokeDown(q)
    <3>1. Steady(q) /\ (run[q].snap = NotCloned \/ run[q].snap >= run[r].want)
      BY <2>1, <2>2, <2>3 DEF Superseding, Stands
    <3> QED BY <2>4, <3>1 DEF Brings, Steady, NotCloned
  <2> QED BY <2>3, <2>4, <2>5, <2>6
<1> QED BY <1>1, SupersedingInvariant, PTL

\* Only its own look at the lease takes a replay further.
LEMMA CheckLeaves ==
  ASSUME TypeOK, [Next]_vars, NEW r \in Runs, pc[r] = "check",
         pc'[r] \in {"skipped", "get", "refused"}
  PROVE  ReplayCheck(r)
<1> USE DEF Goto
<1>1. ASSUME NEW q \in Runs, NEW i \in Instances, Trigger(q, i) PROVE FALSE
  BY <1>1 DEF Trigger, Webhook, Retrieve, Replay, Begin, TypeOK
<1>2. ASSUME NEW q \in Runs, Step(q), ~ReplayCheck(r) PROVE FALSE
  <2>1. CASE VerifyPanics(q)
    BY <2>1 DEF VerifyPanics, StopInstance, TypeOK
  <2>2. CASE ReplayCheck(q) \/ AcquireGet(q)
    BY <1>2, <2>2 DEF ReplayCheck, AcquireGet, TypeOK
  <2>3. CASE AcquireUpdate(q) \/ AcquireRejected(q)
    BY <2>3 DEF AcquireUpdate, AcquireRejected, TypeOK
  <2>4. CASE \/ Clone(q) \/ CloneDenied(q) \/ VerifyHeld(q) \/ VerifyLost(q)
             \/ Stream(q)
    BY <2>4 DEF Clone, CloneDenied, VerifyHeld, VerifyLost, Stream, TypeOK
  <2> QED BY <1>2, <2>1, <2>2, <2>3, <2>4 DEF Step
<1>3. ASSUME NEW q \in Runs, AcquireReplyLost(q) \/ Fail(q) PROVE FALSE
  BY <1>3 DEF AcquireReplyLost, Fail, TypeOK
<1>4. ASSUME NEW i \in Instances, Crash(i) PROVE FALSE
  BY <1>4, PipelineAssumption DEF Crash, StopInstance, TypeOK
<1>5. CASE Environment \/ UNCHANGED vars
  BY <1>5 DEF Environment, Tick, Push, Edit, Delete, Create, TenantWrite, vars
<1> QED BY <1>1, <1>2, <1>3, <1>4, <1>5 DEF Next, Quiescent

\* A replay finds a lease active or stale by when its run wrote it.
THEOREM StaleOnTime == Spec => StaleInTime
<1> DEFINE A == \A r \in Runs : pc[r] = "check" =>
                  LET t == run[r].target  q == holder[t] IN
                     /\ pc'[r] = "skipped" => now < run[q].landedAt + StaleAfter
                     /\ pc'[r] \in {"get", "refused"} /\ Leased(obj[t]) =>
                           now > run[q].readAt + StaleAfter - Second
<1>1. TypeOK /\ TargetOK /\ Fencing /\ Superseding /\ [Next]_vars => A
  <2> SUFFICES ASSUME TypeOK, TargetOK, Fencing, Superseding, [Next]_vars,
                      NEW r \in Runs, pc[r] = "check",
                      pc'[r] \in {"skipped", "get", "refused"}
               PROVE  LET t == run[r].target  q == holder[t] IN
                     /\ pc'[r] = "skipped" => now < run[q].landedAt + StaleAfter
                     /\ pc'[r] \in {"get", "refused"} /\ Leased(obj[t]) =>
                           now > run[q].readAt + StaleAfter - Second
    OBVIOUS
  <2> DEFINE t == run[r].target
             q == holder[t]
  <2>1. ReplayCheck(r)
    BY CheckLeaves
  <2>2. t \in Targets /\ obj[t].started \in Nat /\ now \in Nat
    BY DEF TargetOK, TypeOK, Object
  <2>3. CASE Leased(obj[t])
    <3>1. q \in Runs /\ Dated(t)
      BY <2>2, <2>3 DEF Fencing, Superseding, TypeOK, Object
    <3>2. run[q].readAt \in Nat /\ run[q].landedAt \in Nat
      BY <3>1 DEF TypeOK, RunState
    <3>3. IF pc'[r] = "skipped" THEN now - obj[t].started < StaleAfter
                                ELSE ~(now - obj[t].started < StaleAfter)
      BY <2>1, <2>3 DEF ReplayCheck, IsLeaseActive, Goto, TypeOK
    <3> QED BY <2>2, <2>3, <3>1, <3>2, <3>3, PipelineAssumption DEF Dated
  <2>4. CASE ~Leased(obj[t])
    BY <2>1, <2>4 DEF ReplayCheck, IsLeaseActive, Goto, TypeOK
  <2> QED BY <2>3, <2>4
<1> QED BY <1>1, SupersedingInvariant, PTL DEF Spec, StaleInTime

\* No acquisition undoes a change of the tenant's.
THEOREM EditsSurvive == Spec => NoLostEdit
<1> DEFINE A == \A t \in Targets : obj'[t].gen >= obj[t].gen
<1>1. TypeOK /\ TargetOK /\ Superseding /\ [Next]_vars => A
  <2> SUFFICES ASSUME TypeOK, TargetOK, Superseding, [Next]_vars PROVE A
    OBVIOUS
  <2>1. \A t \in Targets : obj[t].gen \in Nat
    BY DEF TypeOK, Object
  <2>2. CASE UNCHANGED obj
    BY <2>1, <2>2
  <2>3. ASSUME NEW t \in Targets, TenantStep(t) PROVE A
    BY <2>1, <2>3, TenantEffect
  <2>4. ASSUME NEW r \in Runs, Acquired(r) PROVE A
    <3> DEFINE t == run[r].target
    <3>1. pc[r] = "update" /\ t \in Targets /\ obj[t].rv = run[r].readRv
      BY <2>4 DEF Acquired, UpdateAccepted, TargetOK
    <3>2. obj[t].rv \in Nat /\ obj'[t].gen = obj[t].gen
      BY <2>4, <3>1, AcquiredEffect DEF Superseding, Steady, TypeOK, Object
    <3> QED BY <2>1, <2>4, <3>2, AcquiredEffect
  <2> QED BY <2>2, <2>3, <2>4, StepKinds DEF Quiet, Push, Clone, VerifyHeld
<1> QED BY <1>1, SupersedingInvariant, PTL DEF Spec, NoLostEdit

(***************************************************************************)
(* The limit on replays: the stored count never exceeds the replays that   *)
(* wrote their lease.                                                      *)
(***************************************************************************)
\* The replays that took the lease of t.
Earned(t) == {q \in Runs : /\ run[q].kind = "replay"
                           /\ run[q].target = t
                           /\ run[q].landed # 0}

\* A run's count is at most one more than its target's replays have earned,
\* and a run that is refused has found the limit earned.
Limited(r) ==
  LET earned == Cardinality(Earned(run[r].target)) IN
     /\ pc[r] \in {"idle", "check", "get", "update"} => run[r].landed = 0
     /\ pc[r] = "check" => run[r].kind = "replay"
     /\ pc[r] \in {"get", "update"} =>
           run[r].count <= IF run[r].kind = "replay" THEN earned + 1 ELSE 0
     /\ pc[r] = "refused" => earned >= MaxReplays

CountEarned ==
  /\ \A t \in Targets : /\ IsFiniteSet(Earned(t))
                        /\ Leased(obj[t]) => obj[t].count <= Cardinality(Earned(t))
  /\ \A r \in Runs : Limited(r)

LEMMA InitCountEarned == Init => CountEarned
<1> SUFFICES ASSUME Init PROVE CountEarned
  OBVIOUS
<1>1. \A t : Earned(t) = {}
  BY DEF Init, NewRun, Earned
<1> QED BY <1>1, FS_EmptySet DEF Init, CountEarned, Limited, NewRun

\* Runs that have landed keep their kind and target, and no other lands.
LEMMA EarnedKept ==
  ASSUME NEW t,
         \A q \in Runs : /\ run'[q].landed = run[q].landed
                         /\ run[q].landed # 0 => /\ run'[q].kind = run[q].kind
                                                 /\ run'[q].target = run[q].target
  PROVE  Earned(t)' = Earned(t)
BY DEF Earned

\* Steps of one run r, or of those it takes down, that land no run and take
\* no other run to a refusal or an acquisition.
LEMMA CountKept ==
  ASSUME TypeOK, TargetOK, CountEarned,
         \A t \in Targets : /\ obj'[t].id \in {obj[t].id, None}
                            /\ obj'[t].count = obj[t].count \/ obj'[t].id = None,
         UNCHANGED run,
         \A q \in Runs : \/ pc'[q] = pc[q]
                         \/ pc'[q] \notin {"idle", "check", "get", "update", "refused"}
  PROVE  CountEarned'
<1>1. \A t : Earned(t)' = Earned(t)
  BY EarnedKept
<1> QED BY <1>1 DEF CountEarned, Limited

LEMMA CountTrigger ==
  ASSUME TypeOK, TargetOK, CountEarned, NEW r \in Runs, NEW i \in Instances,
         Trigger(r, i)
  PROVE  CountEarned'
<1>1. /\ pc[r] = "idle" /\ run'[r].landed = 0
      /\ run'[r].count = 0 /\ run'[r].target \in Targets
      /\ \/ pc'[r] = "get" /\ run'[r].kind # "replay"
         \/ pc'[r] = "check" /\ run'[r].kind = "replay"
      /\ \A q \in Runs : q # r => pc'[q] = pc[q] /\ run'[q] = run[q]
      /\ UNCHANGED obj
  <2>1. ASSUME NEW l, NEW kind, NEW t \in Targets, NEW e, NEW d, NEW want,
               Begin(r, l, kind, t, i, e, d, want)
        PROVE  /\ pc[r] = "idle" /\ run'[r].landed = 0
               /\ run'[r].count = 0 /\ run'[r].target = t
               /\ pc'[r] = l /\ run'[r].kind = kind
               /\ \A q \in Runs : q # r => pc'[q] = pc[q] /\ run'[q] = run[q]
               /\ UNCHANGED obj
    BY <2>1 DEF Begin, Goto, NewRun, TypeOK
  <2> HIDE DEF TargetOf, TargetOfSpan
  <2>2. ASSUME NEW t \in Targets, Webhook(r, t, i) PROVE <1>1!:
    <3>1. PICK h : Begin(r, "get", "webhook", t, i, r, TargetOf(t), h)
      BY <2>2 DEF Webhook
    <3> QED BY <2>1, <3>1
  <2>3. ASSUME NEW t \in Targets, Retrieve(r, t, i) PROVE <1>1!:
    BY <2>1, <2>3 DEF Retrieve
  <2>4. ASSUME NEW e \in Runs, Replay(r, e, i) PROVE <1>1!:
    <3>1. PICK t \in Targets :
             Begin(r, "check", "replay", t, i, e, TargetOfSpan(e), head[t])
      BY <2>4 DEF Replay, Traced, TargetOK
    <3> QED BY <2>1, <3>1
  <2> QED BY <2>2, <2>3, <2>4 DEF Trigger
<1>2. \A q \in Runs : /\ run'[q].landed = run[q].landed
                      /\ run[q].landed # 0 => /\ run'[q].kind = run[q].kind
                                              /\ run'[q].target = run[q].target
  BY <1>1 DEF CountEarned, Limited, TypeOK, RunState
<1>3. \A t : Earned(t)' = Earned(t)
  BY <1>2, EarnedKept
<1>4. ASSUME NEW q \in Runs, q # r PROVE Limited(q)'
  <2>1. pc'[q] = pc[q] /\ run'[q] = run[q]
    BY <1>1, <1>4
  <2> QED BY <1>3, <2>1 DEF CountEarned, Limited
<1>5. Limited(r)'
  <2>1. IsFiniteSet(Earned(run[r].target))'
    BY <1>1, <1>3 DEF CountEarned
  <2> QED BY <1>1, <2>1, FS_CardinalityType DEF Limited
<1> QED BY <1>1, <1>3, <1>4, <1>5 DEF CountEarned

LEMMA CountCheck ==
  ASSUME TypeOK, TargetOK, CountEarned, NEW r \in Runs,
         ReplayCheck(r) \/ AcquireGet(r)
  PROVE  CountEarned'
<1> DEFINE t == run[r].target
           earned == Cardinality(Earned(t))
<1>1. /\ t \in Targets /\ pc[r] \in {"check", "get"} /\ run[r].landed = 0
      /\ UNCHANGED obj
      /\ run'[r].target = t /\ run'[r].kind = run[r].kind
      /\ run'[r].landed = run[r].landed
      /\ \A q \in Runs : q # r => pc'[q] = pc[q] /\ run'[q] = run[q]
  BY DEF ReplayCheck, AcquireGet, Goto, CountEarned, Limited, TypeOK, TargetOK, RunState
<1>2. \A u : Earned(u)' = Earned(u)
  BY <1>1, EarnedKept
<1>3. earned \in Nat /\ obj[t] \in Object /\ run[r] \in RunState
      /\ (Leased(obj[t]) => obj[t].count <= earned)
  BY <1>1, FS_CardinalityType DEF CountEarned, TypeOK
<1>4. ASSUME NEW q \in Runs, q # r PROVE Limited(q)'
  <2>1. pc'[q] = pc[q] /\ run'[q] = run[q]
    BY <1>1, <1>4
  <2> QED BY <1>2, <2>1 DEF CountEarned, Limited
<1>5. ReplayCount(obj[t]) \in Nat /\ ReplayCount(obj[t]) <= earned
  BY <1>3 DEF ReplayCount, Object
<1>6. Limited(r)'
  <2>1. CASE ReplayCheck(r)
    <3>1. \/ pc'[r] \in {"aborted", "skipped"}
          \/ pc'[r] = "refused" /\ ReplayCount(obj[t]) + 1 > MaxReplays
          \/ /\ pc'[r] = "get" /\ run[r].kind = "replay"
             /\ run'[r].count = ReplayCount(obj[t]) + 1
      BY <2>1 DEF ReplayCheck, Goto, CountEarned, Limited, TypeOK, RunState
    <3> QED BY <1>1, <1>2, <1>3, <1>5, <3>1, PipelineAssumption DEF Limited
  <2>2. CASE AcquireGet(r)
    <3>1. /\ pc[r] = "get" /\ pc'[r] \in {"failed", "update"}
          /\ run'[r].count = run[r].count
      BY <2>2 DEF AcquireGet, Goto, TypeOK, RunState
    <3> QED BY <1>1, <1>2, <3>1 DEF CountEarned, Limited
  <2> QED BY <2>1, <2>2
<1> QED BY <1>1, <1>2, <1>4, <1>6 DEF CountEarned

\* The run that takes the lease of t joins those that earned its count.
LEMMA CountAcquired ==
  ASSUME TypeOK, TargetOK, CountEarned, NEW r \in Runs, Acquired(r)
  PROVE  CountEarned'
<1> DEFINE t == run[r].target
<1>1. /\ t \in Targets /\ pc[r] = "update" /\ run[r].landed = 0
      /\ run[r] \in RunState /\ obj'[t].count = run[r].count
  BY DEF Acquired, WriteLease, CountEarned, Limited, TypeOK, TargetOK
<1>2. /\ run'[r].landed # 0 /\ run'[r].kind = run[r].kind
      /\ run'[r].target = t
  <2>1. obj[t].rv + 1 # 0
    BY <1>1 DEF TypeOK, Object
  <2> QED BY <2>1, AcquiredEffect DEF SameButLease
<1>3. \A u \in Targets : Earned(u)' = IF run[r].kind = "replay" /\ u = t
                                      THEN Earned(u) \cup {r} ELSE Earned(u)
  BY <1>1, <1>2, AcquiredEffect DEF Earned
<1>4. r \notin Earned(t)
  BY <1>1 DEF Earned
<1>5. ASSUME NEW u \in Targets
      PROVE  /\ IsFiniteSet(Earned(u)) /\ IsFiniteSet(Earned(u)')
             /\ Cardinality(Earned(u)) \in Nat
             /\ Cardinality(Earned(u)') \in Nat
             /\ Cardinality(Earned(u)') = IF run[r].kind = "replay" /\ u = t
                                          THEN Cardinality(Earned(u)) + 1
                                          ELSE Cardinality(Earned(u))
  <2>1. IsFiniteSet(Earned(u))
    BY DEF CountEarned
  <2>2. Cardinality(Earned(u)) \in Nat
    BY <2>1, FS_CardinalityType
  <2>3. CASE run[r].kind = "replay" /\ u = t
    <3>1. Earned(u)' = Earned(u) \cup {r}
      BY <1>3, <2>3
    <3>2. /\ IsFiniteSet(Earned(u) \cup {r})
          /\ Cardinality(Earned(u) \cup {r}) = Cardinality(Earned(u)) + 1
      BY <1>4, <2>1, <2>3, FS_AddElement
    <3> QED BY <2>1, <2>2, <2>3, <3>1, <3>2
  <2>4. CASE ~(run[r].kind = "replay" /\ u = t)
    BY <1>3, <2>1, <2>2, <2>4
  <2> QED BY <2>3, <2>4
<1>6. ASSUME NEW u \in Targets
      PROVE  (Leased(obj[u]) => obj[u].count <= Cardinality(Earned(u)))'
  <2>1. CASE u = t
    BY <1>1, <1>5, <2>1 DEF CountEarned, Limited, RunState
  <2>2. CASE u # t
    BY <1>5, <2>2, AcquiredEffect DEF CountEarned
  <2> QED BY <2>1, <2>2
<1>7. ASSUME NEW q \in Runs PROVE Limited(q)'
  <2>1. CASE q = r
    BY <2>1, AcquiredEffect DEF Limited
  <2>2. CASE q # r
    <3>1. pc'[q] = pc[q] /\ run'[q] = run[q] /\ run[q] \in RunState
      BY <2>2, AcquiredEffect DEF TypeOK
    <3>2. pc[q] # "idle" => run[q].target \in Targets
      BY DEF TargetOK
    <3>3. Limited(q)
      BY DEF CountEarned
    <3> QED BY <1>5, <3>1, <3>2, <3>3, PipelineAssumption DEF Limited, RunState
  <2> QED BY <2>1, <2>2
<1> QED BY <1>5, <1>6, <1>7 DEF CountEarned

LEMMA CountStep ==
  TypeOK /\ TargetOK /\ CountEarned /\ [Next]_vars => CountEarned'
<1> SUFFICES ASSUME TypeOK, TargetOK, CountEarned, [Next]_vars PROVE CountEarned'
  OBVIOUS
<1> USE PipelineAssumption
<1>1. ASSUME NEW t \in Targets, Push(t) PROVE CountEarned'
  BY <1>1, CountKept DEF Push
<1>2. ASSUME NEW t \in Targets, TenantStep(t) PROVE CountEarned'
  <2>1. UNCHANGED <<pc, run>>
    BY <1>2, TenantEffect
  <2>2. \A u \in Targets : /\ obj'[u].id \in {obj[u].id, None}
                           /\ obj'[u].count = obj[u].count \/ obj'[u].id = None
    BY <1>2, TenantEffect
  <2> QED BY <2>1, <2>2, CountKept
<1>3. ASSUME NEW r \in Runs, \/ AcquireRejected(r) \/ CloneDenied(r) \/ VerifyHeld(r)
                             \/ VerifyLost(r) \/ Stream(r) \/ Fail(r)
      PROVE  CountEarned'
  <2>1. UNCHANGED <<obj, run>>
    BY <1>3 DEF AcquireRejected, CloneDenied, VerifyHeld, VerifyLost, Stream, Fail
  <2>2. \A q \in Runs : \/ pc'[q] = pc[q]
                        \/ pc'[q] \notin {"idle", "check", "get", "update", "refused"}
    BY <1>3 DEF AcquireRejected, CloneDenied, VerifyHeld, VerifyLost, Stream, Fail,
                Goto, TypeOK
  <2> QED BY <2>1, <2>2, CountKept
<1>4. ASSUME NEW r \in Runs, VerifyPanics(r) PROVE CountEarned'
  <2>1. UNCHANGED <<obj, run>>
    BY <1>4 DEF VerifyPanics
  <2>2. \A q \in Runs : \/ pc'[q] = pc[q]
                        \/ pc'[q] \notin {"idle", "check", "get", "update", "refused"}
    BY <1>4 DEF VerifyPanics, StopInstance, Goto, TypeOK
  <2> QED BY <2>1, <2>2, CountKept
<1>5. ASSUME NEW i \in Instances, Crash(i) PROVE CountEarned'
  <2>1. UNCHANGED <<obj, run>>
    BY <1>5 DEF Crash
  <2>2. \A q \in Runs : \/ pc'[q] = pc[q]
                        \/ pc'[q] \notin {"idle", "check", "get", "update", "refused"}
    BY <1>5 DEF Crash, StopInstance, TypeOK
  <2> QED BY <2>1, <2>2, CountKept
<1>6. ASSUME NEW r \in Runs, Clone(r) PROVE CountEarned'
  <2>1. /\ UNCHANGED obj /\ pc[r] = "clone" /\ pc'[r] = "verify"
        /\ \A q \in Runs : /\ run'[q].landed = run[q].landed
                           /\ run'[q].kind = run[q].kind
                           /\ run'[q].target = run[q].target
                           /\ q # r => pc'[q] = pc[q] /\ run'[q] = run[q]
    BY <1>6 DEF Clone, Goto, TypeOK, RunState
  <2>2. \A t : Earned(t)' = Earned(t)
    BY <2>1, EarnedKept
  <2>3. ASSUME NEW q \in Runs PROVE Limited(q)'
    BY <2>1, <2>2 DEF CountEarned, Limited
  <2> QED BY <2>1, <2>2, <2>3 DEF CountEarned
<1>7. CASE Tick \/ UNCHANGED vars
  BY <1>7, CountKept DEF Tick, vars
<1>8. ASSUME NEW r \in Runs, AcquireUpdate(r) \/ AcquireReplyLost(r) PROVE CountEarned'
  BY <1>8, CountAcquired DEF AcquireUpdate, AcquireReplyLost, Acquired
<1> QED
  BY <1>1, <1>2, <1>3, <1>4, <1>5, <1>6, <1>7, <1>8, CountTrigger, CountCheck
  DEF Next, Environment, Step, Quiescent, TenantStep

\* replayTarget refuses a target only after as many replays took its lease
\* as the limit allows, however the counts of concurrent replays overlap.
THEOREM RefusalsEarned == Spec => []RefusalIsEarned
<1>1. Spec => [](TypeOK /\ TargetOK /\ CountEarned)
  BY InitType, NextType, InitCountEarned, CountStep, PTL DEF Spec
<1>2. CountEarned => RefusalIsEarned
  BY DEF CountEarned, Limited, RefusalIsEarned, Earned
<1> QED BY <1>1, <1>2, PTL
=============================================================================
