------------------------------ MODULE Pipeline ------------------------------
(***************************************************************************)
(* The source-target pipeline: Target.Process of internal/source, the      *)
(* leases of internal/lease it runs under, the ConfigMap that stores them, *)
(* and the three triggers that start it (webhook, Retrieve, Replay).       *)
(*                                                                         *)
(* A run is one call of Process for one source target.  Runs execute on    *)
(* instances of the service and meet only in the ConfigMap: a run writes   *)
(* its own identifier there when it acquires the lease and reads it back   *)
(* before it streams.  The API server gives each ConfigMap a               *)
(* resourceVersion and rejects an Update made from an older one.           *)
(*                                                                         *)
(* Snapshots of the repository are numbered by the pushes they contain;    *)
(* the tenant's side of a ConfigMap (repo-url, ref, path, credential       *)
(* secret) is abstracted to a generation number.                           *)
(***************************************************************************)
EXTENDS Integers, FiniteSets

CONSTANTS
  Targets,      \* source targets, one ConfigMap each
  Runs,         \* calls of Process; a run's name is its lease ID, see Holds
  Instances,    \* running copies of the service
  Private,      \* targets whose repository needs credentials
  None,         \* null value: no lease holder, no run, no target
  StaleAfter,   \* LEASE_STALE_AFTER, in clock ticks
  Second,       \* clock ticks per second, the resolution of RFC 3339
  MaxReplays,   \* MAX_REPLAY_ATTEMPTS
  MaxPush,      \* bound: pushes per target
  MaxTime,      \* bound: clock ticks
  MaxFaults,    \* bound: failed calls, lost replies and crashes
  MaxEdits      \* bound: tenant changes of ConfigMaps

ASSUME PipelineAssumption ==
  /\ None \notin Targets \cup Runs \cup Instances
  /\ Private \subseteq Targets
  /\ StaleAfter \in Int
  /\ Second \in Nat \ {0}
  /\ MaxReplays \in Int
  /\ {MaxPush, MaxTime, MaxFaults, MaxEdits} \subseteq Nat

VARIABLES
  obj,          \* obj[t]: the ConfigMap of target t
  head,         \* head[t]: number of pushes to t's branch
  now,          \* the clock
  pc,           \* pc[r]: where run r is
  run,          \* run[r]: the local variables of run r
  faults,       \* faults injected so far
  edits,        \* tenant changes so far
  holder,       \* history: holder[t], the last run that wrote its lease on t
  approved      \* history: approved[t], snapshot of the last verified run

vars == <<obj, head, now, pc, run, faults, edits, holder, approved>>

(***************************************************************************)
(* Types.                                                                  *)
(***************************************************************************)
\* A run is working from the moment its goroutine starts to its return.
Working  == {"check", "get", "update", "clone", "verify", "stream"}

\* How Process returned with a source_target span in its trace ...
Traced   == {"done", "failed", "lost", "conflict"}

\* ... and the ends that leave no such span behind.
Untraced == {"skipped", "refused", "aborted", "panicked", "dead"}

Kinds == {"none", "webhook", "manual", "replay"}

Object == [exists : BOOLEAN, rv : Nat, gen : Nat,
           id : Runs \cup {None}, started : Nat, count : Nat]

NotCloned == -1

RunState == [kind    : Kinds,
             target  : Targets \cup {None},
             inst    : Instances \cup {None},
             event   : Runs \cup {None},      \* the event being replayed
             gen     : Nat,                   \* generation of the target used
             secret  : BOOLEAN,               \* CredentialSecret is set
             want    : Nat,                   \* pushes the run has to cover
             count   : Nat,                   \* replayCount
             readRv  : Nat,                   \* the copy Acquire read: version
             readGen : Nat,                   \*   ... and tenant data
             readAt  : Nat,                   \*   ... and when it was read
             landed  : Nat,                   \* history: version that carried
                                              \*   its lease first, 0 if none
             landedAt : Nat,                  \*   ... and when it was written
             snap    : Nat \cup {NotCloned}]  \* the cloned snapshot

NewRun == [kind |-> "none", target |-> None, inst |-> None, event |-> None,
           gen |-> 0, secret |-> FALSE, want |-> 0, count |-> 0,
           readRv |-> 0, readGen |-> 0, readAt |-> 0,
           landed |-> 0, landedAt |-> 0, snap |-> NotCloned]

TypeOK ==
  /\ obj \in [Targets -> Object]
  /\ head \in [Targets -> Nat]
  /\ now \in Nat
  /\ pc \in [Runs -> {"idle"} \cup Working \cup Traced \cup Untraced]
  /\ run \in [Runs -> RunState]
  /\ faults \in Nat
  /\ edits \in Nat
  /\ holder \in [Targets -> Runs \cup {None}]
  /\ approved \in [Targets -> Nat]

Init ==
  /\ obj = [t \in Targets |-> [exists |-> TRUE, rv |-> 0, gen |-> 0,
                               id |-> None, started |-> 0, count |-> 0]]
  /\ head = [t \in Targets |-> 0]
  /\ now = 0
  /\ pc = [r \in Runs |-> "idle"]
  /\ run = [r \in Runs |-> NewRun]
  /\ faults = 0
  /\ edits = 0
  /\ holder = [t \in Targets |-> None]
  /\ approved = [t \in Targets |-> 0]

(***************************************************************************)
(* Helpers.                                                                *)
(***************************************************************************)
Goto(r, l) == pc' = [pc EXCEPT ![r] = l]

\* Mutant: a second too far.
FormatEarly(t) == t - Second

\* Mutant: the second is rounded up.
FormatLate(t) == (t - (t % Second)) + Second

\* time.RFC3339 keeps whole seconds.
Format(t) == t - (t % Second)

\* lease.Read finds a state on o; it returns nil when the ID is missing.
Leased(o) == o.id # None

\* State.IsLeaseActive on what lease.Read returns for o.
IsLeaseActive(o) == Leased(o) /\ now - o.started < StaleAfter

\* Mutant: the first replay counts double.
ReplayCountFromOne(o) == IF Leased(o) THEN o.count ELSE 1

\* State.ReplayCount: 0 on the nil state of an object without a lease.
ReplayCount(o) == IF Leased(o) THEN o.count ELSE 0

\* Runs of instance i that are still executing.
RunningOn(i) == {r \in Runs : pc[r] \in Working /\ run[r].inst = i}

\* Every run of instance i stops where it is; r, if one of them, ends in l.
StopInstance(i, r, l) ==
  pc' = [q \in Runs |-> IF q = r THEN l
                        ELSE IF q \in RunningOn(i) THEN "dead" ELSE pc[q]]

(***************************************************************************)
(* The environment: repositories, tenants and the clock.                   *)
(***************************************************************************)
Push(t) ==
  /\ head[t] < MaxPush
  /\ head' = [head EXCEPT ![t] = @ + 1]
  /\ UNCHANGED <<obj, now, pc, run, faults, edits, holder, approved>>

Tick ==
  /\ now < MaxTime
  /\ now' = now + 1
  /\ UNCHANGED <<obj, head, pc, run, faults, edits, holder, approved>>

\* A tenant changes a ConfigMap: edits its data (annotations stay), deletes
\* it, or creates it anew, without annotations.
TenantWrite(t, o) ==
  /\ edits < MaxEdits
  /\ obj' = [obj EXCEPT ![t] = o]
  /\ edits' = edits + 1
  /\ UNCHANGED <<head, now, pc, run, faults, holder, approved>>

Edit(t) ==
  /\ obj[t].exists
  /\ TenantWrite(t, [obj[t] EXCEPT !.rv = @ + 1, !.gen = @ + 1])

Delete(t) ==
  /\ obj[t].exists
  /\ TenantWrite(t, [obj[t] EXCEPT !.exists = FALSE, !.rv = @ + 1, !.gen = @ + 1])

Create(t) ==
  /\ ~obj[t].exists
  /\ TenantWrite(t, [exists |-> TRUE, rv |-> obj[t].rv + 1, gen |-> obj[t].gen + 1,
                     id |-> None, started |-> 0, count |-> 0])

(***************************************************************************)
(* The triggers.                                                           *)
(***************************************************************************)
\* The target as source.Get and source.List read it from its ConfigMap ...
TargetOf(t) == [gen |-> obj[t].gen, secret |-> t \in Private]

\* ... and as a replay rebuilds it from the span of event e, which does not
\* carry the credential secret.
TargetOfSpan(e) == [gen |-> run[e].gen, secret |-> FALSE]

\* Run r starts at l with the target data d.
Begin(r, l, kind, t, i, e, d, want) ==
  /\ pc[r] = "idle"
  /\ Goto(r, l)
  /\ run' = [run EXCEPT ![r] = [NewRun EXCEPT !.kind = kind, !.target = t,
                                  !.inst = i, !.event = e, !.gen = d.gen,
                                  !.secret = d.secret, !.want = want]]
  /\ UNCHANGED <<obj, head, now, faults, edits, holder, approved>>

\* ServeHTTP lists the targets, answers 202 and processes each match.  The
\* delivery may be late or repeated: it announces any push made so far.
Webhook(r, t, i) ==
  /\ obj[t].exists
  /\ \E h \in 1 .. head[t] :
        Begin(r, "get", "webhook", t, i, r, TargetOf(t), h)

\* Retrieve reads the named target and processes it.
Retrieve(r, t, i) ==
  /\ obj[t].exists
  /\ Begin(r, "get", "manual", t, i, r, TargetOf(t), head[t])

\* Replay rebuilds the target of event e from e's span, which is exported
\* once it has ended.
Replay(r, e, i) ==
  /\ pc[e] \in Traced
  /\ LET t == run[e].target IN
        Begin(r, "check", "replay", t, i, e, TargetOfSpan(e), head[t])

\* replayTarget: read the lease, skip if it is active, refuse beyond the
\* limit, otherwise process with the next replay count.
ReplayCheck(r) ==
  LET o == obj[run[r].target]
      n == ReplayCount(o) + 1
  IN /\ pc[r] = "check"
     /\ \/ /\ ~o.exists
           /\ Goto(r, "aborted")
           /\ UNCHANGED run
        \/ /\ o.exists /\ IsLeaseActive(o)
           /\ Goto(r, "skipped")
           /\ UNCHANGED run
        \/ /\ o.exists /\ ~IsLeaseActive(o) /\ n > MaxReplays
           /\ Goto(r, "refused")
           /\ UNCHANGED run
        \/ /\ o.exists /\ ~IsLeaseActive(o) /\ n <= MaxReplays
           /\ Goto(r, "get")
           /\ run' = [run EXCEPT ![r].count = n]
     /\ UNCHANGED <<obj, head, now, faults, edits, holder, approved>>

(***************************************************************************)
(* lease.Acquire: a Get, the annotations, an Update.                       *)
(***************************************************************************)
AcquireGet(r) ==
  LET o == obj[run[r].target]
  IN /\ pc[r] = "get"
     /\ \/ /\ ~o.exists
           /\ Goto(r, "failed")
           /\ UNCHANGED run
        \/ /\ o.exists
           /\ Goto(r, "update")
           /\ run' = [run EXCEPT ![r].readRv = o.rv, ![r].readGen = o.gen,
                                 ![r].readAt = now]
     /\ UNCHANGED <<obj, head, now, faults, edits, holder, approved>>

\* Mutant: an Update that carries no resourceVersion.
UpdateUnconditional(r) == obj[run[r].target].exists

\* The API server accepts an Update made from the current version only.
UpdateAccepted(r) ==
  LET o == obj[run[r].target] IN o.exists /\ o.rv = run[r].readRv

\* The accepted Update stores the whole object run r read, with the three
\* lease annotations set; the clock was read between the Get and the Update.
WriteLease(r) ==
  LET t == run[r].target
  IN /\ \E at \in run[r].readAt .. now :
          obj' = [obj EXCEPT ![t] =
                   [exists |-> TRUE, rv |-> obj[t].rv + 1, gen |-> run[r].readGen,
                    id |-> r, started |-> Format(at), count |-> run[r].count]]
     /\ run' = [run EXCEPT ![r].landed = obj[t].rv + 1, ![r].landedAt = now]
     /\ holder' = [holder EXCEPT ![t] = r]

AcquireUpdate(r) ==
  /\ pc[r] = "update"
  /\ UpdateAccepted(r)
  /\ WriteLease(r)
  /\ Goto(r, "clone")
  /\ UNCHANGED <<head, now, faults, edits, approved>>

\* Conflict or NotFound: Process returns the error, nothing is retried.
AcquireRejected(r) ==
  /\ pc[r] = "update"
  /\ ~UpdateAccepted(r)
  /\ Goto(r, IF obj[run[r].target].exists THEN "conflict" ELSE "failed")
  /\ UNCHANGED <<obj, head, now, run, faults, edits, holder, approved>>

\* The Update is applied but its reply is lost: the lease is r's, r fails.
AcquireReplyLost(r) ==
  /\ pc[r] = "update"
  /\ faults < MaxFaults
  /\ UpdateAccepted(r)
  /\ WriteLease(r)
  /\ faults' = faults + 1
  /\ Goto(r, "failed")
  /\ UNCHANGED <<head, now, edits, approved>>

(***************************************************************************)
(* The rest of Process.                                                    *)
(***************************************************************************)
\* An empty secret name resolves to no authentication, with which the server
\* refuses a private repository.
CanClone(r) == run[r].secret \/ run[r].target \notin Private

\* Mutant: clones the commit the trigger announced, not the head.
CloneAnnounced(r) ==
  /\ pc[r] = "clone"
  /\ CanClone(r)
  /\ run' = [run EXCEPT ![r].snap = run[r].want]
  /\ Goto(r, "verify")
  /\ UNCHANGED <<obj, head, now, faults, edits, holder, approved>>

\* Credentials are resolved and the head of the branch is cloned.
Clone(r) ==
  /\ pc[r] = "clone"
  /\ CanClone(r)
  /\ run' = [run EXCEPT ![r].snap = head[run[r].target]]
  /\ Goto(r, "verify")
  /\ UNCHANGED <<obj, head, now, faults, edits, holder, approved>>

CloneDenied(r) ==
  /\ pc[r] = "clone"
  /\ ~CanClone(r)
  /\ Goto(r, "failed")
  /\ UNCHANGED <<obj, head, now, run, faults, edits, holder, approved>>

\* Mutant: any lease will do.
HoldsSome(r, o) == Leased(o)

\* lease.HeldBy compares the ID on the object with the run's own.  Runs are
\* told apart by it: the IDs of their spans are taken to be unique, as the
\* tracer that main sets up makes them; a tracer that does nothing would
\* give every run the same one.
Holds(r, o) == o.id = r

VerifyHeld(r) ==
  LET t == run[r].target
  IN /\ pc[r] = "verify"
     /\ obj[t].exists /\ Leased(obj[t]) /\ Holds(r, obj[t])
     /\ Goto(r, "stream")
     /\ approved' = [approved EXCEPT ![t] = run[r].snap]
     /\ UNCHANGED <<obj, head, now, run, faults, edits, holder>>

\* Another run's ID ends this one; a deleted object is an error.
VerifyLost(r) ==
  LET o == obj[run[r].target]
  IN /\ pc[r] = "verify"
     /\ \/ /\ ~o.exists
           /\ Goto(r, "failed")
        \/ /\ o.exists /\ Leased(o) /\ ~Holds(r, o)
           /\ Goto(r, "lost")
     /\ UNCHANGED <<obj, head, now, run, faults, edits, holder, approved>>

\* An object without a lease makes Read return a nil state, which HeldBy
\* dereferences.  In a goroutine of the webhook handler the panic ends the
\* process with every run on it; the RPC library may catch it for the RPCs.
VerifyPanics(r) ==
  LET o == obj[run[r].target]
  IN /\ pc[r] = "verify"
     /\ o.exists /\ ~Leased(o)
     /\ \/ StopInstance(run[r].inst, r, "panicked")
        \/ run[r].kind # "webhook" /\ Goto(r, "failed")
     /\ UNCHANGED <<obj, head, now, run, faults, edits, holder, approved>>

Stream(r) ==
  /\ pc[r] = "stream"
  /\ Goto(r, "done")
  /\ UNCHANGED <<obj, head, now, run, faults, edits, holder, approved>>

(***************************************************************************)
(* Failures.                                                               *)
(***************************************************************************)
\* The call run r is in returns an error and changes nothing.
Fail(r) ==
  /\ pc[r] \in Working
  /\ faults < MaxFaults
  /\ faults' = faults + 1
  /\ Goto(r, IF pc[r] = "check" THEN "aborted" ELSE "failed")
  /\ UNCHANGED <<obj, head, now, run, edits, holder, approved>>

\* An instance is killed or shuts down: main does not wait for goroutines
\* that process targets.  The leases they hold stay on the objects.
Crash(i) ==
  /\ RunningOn(i) # {}
  /\ faults < MaxFaults
  /\ faults' = faults + 1
  /\ StopInstance(i, None, "dead")
  /\ UNCHANGED <<obj, head, now, run, edits, holder, approved>>

(***************************************************************************)
(* The specification.                                                      *)
(***************************************************************************)
\* One step of run r's own goroutine whose calls all answer.
Step(r) ==
  \/ ReplayCheck(r) \/ AcquireGet(r) \/ AcquireUpdate(r) \/ AcquireRejected(r)
  \/ Clone(r) \/ CloneDenied(r)
  \/ VerifyHeld(r) \/ VerifyLost(r) \/ VerifyPanics(r) \/ Stream(r)

Trigger(r, i) ==
  \/ \E t \in Targets : Webhook(r, t, i) \/ Retrieve(r, t, i)
  \/ \E e \in Runs : Replay(r, e, i)

Environment ==
  \/ Tick
  \/ \E t \in Targets : Push(t) \/ Edit(t) \/ Delete(t) \/ Create(t)

\* All runs are over: the model, not the service, stops here.
Quiescent ==
  /\ \A r \in Runs : pc[r] \notin Working
  /\ UNCHANGED vars

Next ==
  \/ Environment
  \/ \E r \in Runs, i \in Instances : Trigger(r, i)
  \/ \E r \in Runs : Step(r) \/ AcquireReplyLost(r) \/ Fail(r)
  \/ \E i \in Instances : Crash(i)
  \/ Quiescent

Spec == Init /\ [][Next]_vars

\* The Go scheduler runs every ready goroutine, and every call a run waits
\* for returns in the end.
FairSpec == Spec /\ \A r \in Runs : WF_vars(Step(r))

(***************************************************************************)
(* Properties.                                                             *)
(***************************************************************************)
\* Auxiliary: a run that has started has a target and an instance, one at
\* its verification has a snapshot.
TargetOK ==
  \A r \in Runs :
     /\ pc[r] # "idle" => run[r].target \in Targets /\ run[r].inst \in Instances
     /\ pc[r] = "verify" => run[r].snap \in Nat

\* Auxiliary: the lease on a target is that of the last run that wrote one,
\* and while it is there the snapshot of its run is as recent as the last
\* one cleared: whoever could have cleared a newer one took the lease.
Fencing ==
  /\ \A t \in Targets : /\ obj[t].id \in {holder[t], None}
                        /\ approved[t] <= head[t]
  /\ \A r \in Runs : LET t == run[r].target IN
        pc[r] = "verify" => /\ run[r].snap <= head[t]
                            /\ obj[t].id = r => approved[t] <= run[r].snap

\* A run passes verification only as the last run that wrote its lease on
\* the target, whatever Gets and Updates were interleaved with its own:
\* from its Acquire to its verification no other run acquired.
FencedVerify ==
  [][\A r \in Runs : pc[r] = "verify" /\ pc'[r] = "stream"
                        => holder[run[r].target] = r]_vars

\* Acquiring a lease never undoes a change the tenant made to the ConfigMap
\* meanwhile: Update writes the whole object back, so only the
\* resourceVersion protects the tenant's data.
NoLostEdit == [][\A t \in Targets : obj'[t].gen >= obj[t].gen]_vars

\* r gave way to another run: it found that run's ID in place of its own, or
\* its Update conflicted although the tenant wrote nothing since its Get.
GaveWay(r) ==
  \/ pc[r] = "lost"
  \/ pc[r] = "conflict" /\ obj[run[r].target].gen = run[r].readGen

\* q has still to clone, or what it cloned has the push that r was for.
Brings(q, r) ==
  \/ pc[q] = "clone"
  \/ pc[q] \in {"verify", "stream", "done"} /\ run[q].snap >= run[r].want

\* q ended without a stream, for a reason: failed calls, a tenant's change
\* or a private repository that a replay cloned without its credentials.
BrokeDown(q) ==
  /\ pc[q] \in {"failed", "panicked", "dead"}
  /\ faults > 0 \/ edits > 0 \/ ~CanClone(q)

\* Whoever gives way makes room for the last run that took the lease, which
\* took it after the one that gives way had looked, and which brings its
\* push unless it breaks down itself.  It works from the same configuration
\* as long as the tenant changes none; after a change it may be a run that
\* was triggered with the older one, and the code does not tell them apart.
SupersededIsCovered ==
  \A r \in Runs : GaveWay(r) =>
     LET q == holder[run[r].target]
     IN /\ q \in Runs \ {r}
        /\ run[q].target = run[r].target
        /\ run[q].landed > run[r].readRv
        /\ edits = 0 => run[q].gen = run[r].gen
        /\ Brings(q, r) \/ BrokeDown(q)

\* A lease keeps replays off its target as long as LEASE_STALE_AFTER says,
\* although nothing releases it, its time is read before the Update is sent
\* and only whole seconds are stored: one that finds it active comes less
\* than that after the Update, one that finds it stale comes after the Get
\* of its run by as much, less at most a second.
StaleInTime ==
  [][\A r \in Runs : pc[r] = "check" =>
       LET t == run[r].target  q == holder[t] IN
          /\ pc'[r] = "skipped" => now < run[q].landedAt + StaleAfter
          /\ pc'[r] \in {"get", "refused"} /\ Leased(obj[t]) =>
                now > run[q].readAt + StaleAfter - Second]_vars

\* replayTarget refuses a target only after as many replays took its lease
\* as the limit allows: counts lost between concurrent replays make the
\* limit late, never early.
RefusalIsEarned ==
  \A r \in Runs : pc[r] = "refused" =>
     Cardinality({q \in Runs : /\ run[q].kind = "replay"
                               /\ run[q].target = run[r].target
                               /\ run[q].landed # 0}) >= MaxReplays

\* Cleared snapshots never go back in time: the pipeline implements the
\* abstract publication of snapshots, verification being the publishing
\* step.
Pub == INSTANCE Publication WITH published <- approved

RefinesPublication == Pub!Spec

\* Whatever a trigger asked for is delivered in the end, by the run itself
\* or by one that superseded it, as long as no call fails, no instance
\* crashes and the tenant leaves the ConfigMap alone.
EventuallyStreamed ==
  \A r \in Runs :
    pc[r] = "get" ~> \/ faults > 0 \/ edits > 0
                     \/ \E q \in Runs : /\ pc[q] = "done"
                                        /\ run[q].target = run[r].target
                                        /\ run[q].snap >= run[r].want
=============================================================================
