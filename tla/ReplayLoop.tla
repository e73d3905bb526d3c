----------------------------- MODULE ReplayLoop -----------------------------
(***************************************************************************)
(* The Replay RPC of internal/retriever over an event with several         *)
(* targets, and the trace it works from.                                   *)
(*                                                                         *)
(* An event, the webhook delivery Origin or a replay, leaves a span for    *)
(* each target it processed and, last, a span of its own.  Ended spans     *)
(* wait in the instance and are exported in order to the trace store,      *)
(* where GetTrace finds them.  A replay rebuilds its targets from there    *)
(* and takes them one by one: skip, refuse, or process; the first error    *)
(* is its answer.  It is an event itself and can be replayed.              *)
(*                                                                         *)
(* Process is Pipeline's: here a run writes the lease and later streams,   *)
(* if the lease is still its own, or fails.  The order of the spans in a   *)
(* trace is the store's, hence arbitrary.                                  *)
(***************************************************************************)
EXTENDS Integers, Sequences, FiniteSets

CONSTANTS
  Targets,      \* the targets Origin matched
  Replays,      \* calls of Replay
  Origin,       \* the webhook event
  None,         \* null value: no event
  MaxReplays,   \* MAX_REPLAY_ATTEMPTS
  MaxFaults     \* bound: failed calls, lost spans, crashes, other triggers

ASSUME ReplayLoopAssumption ==
  /\ Origin \notin Replays
  /\ None \notin Replays \cup {Origin}
  /\ MaxReplays \in Int /\ MaxFaults \in Nat

Events == Replays \cup {Origin}

VARIABLES
  bare,      \* targets with an empty ref or path
  of,        \* of[e]: the event that e replays; Origin's is itself
  rest,      \* rest[e]: targets of the loop not yet taken
  at,        \* at[e][t]: how far e is with target t
  attempt,   \* attempt[e]: replayCount of the target in hand
  answer,    \* answer[e]: how e ended
  ended,     \* ended[e]: spans that ended and wait for their export
  trace,     \* trace[e]: spans in the trace store
  lease,     \* lease[t]: the annotations of t's ConfigMap
  faults,    \* faults so far
  lossy,     \* history: events of which a span was lost on its way
  before     \* history: before[r], the events over when r was asked

vars == <<bare, of, rest, at, attempt, answer, ended, trace, lease, faults,
          lossy, before>>

\* tracing.EventSpanName; the other spans are named by their target.
EventSpan == "event"

ASSUME SpanNameAssumption == EventSpan \notin Targets

Spans == Targets \cup {EventSpan}

InHand == {"check", "acquire", "run"}

Lease == [holder : Events \cup {None}, fresh : BOOLEAN, count : Nat]

TypeOK ==
  /\ bare \subseteq Targets
  /\ of \in [Events -> Events \cup {None}]
  /\ rest \in [Events -> SUBSET Targets]
  /\ at \in [Events -> [Targets -> InHand \cup {"none", "streamed", "failed",
                                    "skipped", "refused", "unread", "cut"}]]
  /\ attempt \in [Events -> Nat]
  /\ \A e \in Events : attempt[e] = 0 \/ attempt[e] <= MaxReplays
  /\ answer \in [Events -> {"none", "ok", "error", "dead"}]
  /\ ended \in [Events -> Seq(Spans)]
  /\ trace \in [Events -> SUBSET Spans]
  /\ lease \in [Targets -> Lease]
  /\ faults \in 0 .. MaxFaults
  /\ lossy \subseteq Events
  /\ before \in [Events -> SUBSET Events]

\* Origin's goroutines are under way.
Init ==
  /\ bare \in SUBSET Targets
  /\ of = [e \in Events |-> IF e = Origin THEN Origin ELSE None]
  /\ rest = [e \in Events |-> {}]
  /\ at = [e \in Events |->
             [t \in Targets |-> IF e = Origin THEN "acquire" ELSE "none"]]
  /\ attempt = [e \in Events |-> 0]
  /\ answer = [e \in Events |-> "none"]
  /\ ended = [e \in Events |-> <<>>]
  /\ trace = [e \in Events |-> {}]
  /\ lease = [t \in Targets |-> [holder |-> None, fresh |-> FALSE, count |-> 0]]
  /\ faults = 0
  /\ lossy = {}
  /\ before = [e \in Events |-> {}]

(***************************************************************************)
(* Helpers.                                                                *)
(***************************************************************************)
Fault == faults < MaxFaults /\ faults' = faults + 1

Goto(e, t, l) == at' = [at EXCEPT ![e][t] = l]

Working(e) == of[e] # None /\ answer[e] = "none"

Idle(e) == \A t \in Targets : at[e][t] \notin InHand

\* Event e is over: the spans s, then its own, end.
Answer(e, s, a) ==
  /\ answer' = [answer EXCEPT ![e] = a]
  /\ ended' = [ended EXCEPT ![e] = @ \o s \o <<EventSpan>>]

(***************************************************************************)
(* Process, for the origin's targets and the one a replay has in hand.     *)
(***************************************************************************)
Acquire(e, t) ==
  /\ at[e][t] = "acquire"
  /\ Goto(e, t, "run")
  /\ lease' = [lease EXCEPT ![t] = [holder |-> e, fresh |-> TRUE,
                                    count |-> attempt[e]]]
  /\ UNCHANGED <<bare, of, rest, attempt, answer, ended, trace, faults, lossy,
                 before>>

\* The lease is verified and the source streamed; the target's span ends.
Streams(e, t) ==
  /\ at[e][t] = "run" /\ lease[t].holder = e
  /\ Goto(e, t, "streamed")
  /\ ended' = [ended EXCEPT ![e] = Append(@, t)]
  /\ UNCHANGED <<bare, of, rest, attempt, answer, trace, lease, faults, lossy,
                 before>>

\* Mutant: a replay logs the failure of a target and goes on.
FailsAndGoesOn(e, t) ==
  /\ \/ at[e][t] \in {"acquire", "run"} /\ Fault
     \/ at[e][t] = "run" /\ lease[t].holder # e /\ UNCHANGED faults
  /\ Goto(e, t, "failed")
  /\ ended' = [ended EXCEPT ![e] = Append(@, t)]
  /\ UNCHANGED <<bare, of, rest, attempt, answer, trace, lease, lossy, before>>

\* A call failed, or another run took the lease.  The origin logs it; a
\* replay returns it.
Fails(e, t) ==
  /\ \/ at[e][t] \in {"acquire", "run"} /\ Fault
     \/ at[e][t] = "run" /\ lease[t].holder # e /\ UNCHANGED faults
  /\ Goto(e, t, "failed")
  /\ \/ e # Origin /\ Answer(e, <<t>>, "error")
     \/ /\ e = Origin
        /\ ended' = [ended EXCEPT ![e] = Append(@, t)]
        /\ UNCHANGED answer
  /\ UNCHANGED <<bare, of, rest, attempt, trace, lease, lossy, before>>

(***************************************************************************)
(* Replay.                                                                 *)
(***************************************************************************)
\* Mutant: any span will do.
CanReplayPart(e) == trace[e] # {}

\* The trace of e is found and has an event span.
CanReplay(e) == EventSpan \in trace[e]

\* The caller asks for a replay of e; GetTrace answers, or fails.
Ask(r, e) ==
  /\ of[r] = None /\ of[e] # None
  /\ of' = [of EXCEPT ![r] = e]
  /\ before' = [before EXCEPT ![r] = {q \in Events : answer[q] # "none"}]
  /\ \/ /\ CanReplay(e)
        /\ rest' = [rest EXCEPT ![r] = trace[e] \ {EventSpan}]
        /\ UNCHANGED <<answer, faults>>
     \/ /\ IF CanReplay(e) THEN Fault ELSE UNCHANGED faults
        /\ answer' = [answer EXCEPT ![r] = "error"]
        /\ UNCHANGED rest
  /\ UNCHANGED <<bare, at, attempt, ended, trace, lease, lossy>>

\* extractAttributes drops an empty value, and sourceTargetFromAttributes
\* wants every attribute.
Rebuilds(t) == t \notin bare

\* The next span of the loop.
Take(r) ==
  /\ r # Origin /\ Working(r) /\ Idle(r)
  /\ \E t \in rest[r] :
        /\ rest' = [rest EXCEPT ![r] = @ \ {t}]
        /\ \/ /\ Rebuilds(t)
              /\ Goto(r, t, "check")
              /\ UNCHANGED <<answer, ended>>
           \/ /\ ~Rebuilds(t)
              /\ Answer(r, <<>>, "error")
              /\ UNCHANGED at
  /\ UNCHANGED <<bare, of, attempt, trace, lease, faults, lossy, before>>

\* Mutant: a count of 0 is taken for no lease.
ActiveIfCounted(l) == l.fresh /\ l.count > 0

\* IsLeaseActive, with the clock abstracted to Expire.
Active(l) == l.fresh

\* Mutant: one more than the limit.
ExceedsByOne(n) == n > MaxReplays + 1

\* The limit on replays.
Exceeds(n) == n > MaxReplays

\* replayTarget: the lease is read, then skip, refuse or process.
Check(r, t) ==
  LET n == lease[t].count + 1
  IN /\ at[r][t] = "check"
     /\ \/ /\ Fault
           /\ Goto(r, t, "unread")
           /\ Answer(r, <<>>, "error")
           /\ UNCHANGED attempt
        \/ /\ Active(lease[t])
           /\ Goto(r, t, "skipped")
           /\ UNCHANGED <<attempt, answer, ended, faults>>
        \/ /\ ~Active(lease[t]) /\ Exceeds(n)
           /\ Goto(r, t, "refused")
           /\ Answer(r, <<>>, "error")
           /\ UNCHANGED <<attempt, faults>>
        \/ /\ ~Active(lease[t]) /\ ~Exceeds(n)
           /\ Goto(r, t, "acquire")
           /\ attempt' = [attempt EXCEPT ![r] = n]
           /\ UNCHANGED <<answer, ended, faults>>
     /\ UNCHANGED <<bare, of, rest, trace, lease, lossy, before>>

\* The loop is through; for Origin, the WaitGroup is.
Return(e) ==
  /\ Working(e) /\ Idle(e) /\ rest[e] = {}
  /\ Answer(e, <<>>, "ok")
  /\ UNCHANGED <<bare, of, rest, at, attempt, trace, lease, faults, lossy,
                 before>>

(***************************************************************************)
(* The exporter, the clock, and everything else that may happen.           *)
(***************************************************************************)
Export(e) ==
  /\ ended[e] # <<>>
  /\ trace' = [trace EXCEPT ![e] = @ \cup {Head(ended[e])}]
  /\ ended' = [ended EXCEPT ![e] = Tail(@)]
  /\ UNCHANGED <<bare, of, rest, at, attempt, answer, lease, faults, lossy,
                 before>>

\* The trace store is unreachable and the exporter drops what it has.
Drop(e) ==
  /\ ended[e] # <<>> /\ Fault
  /\ ended' = [ended EXCEPT ![e] = Tail(@)]
  /\ lossy' = lossy \cup {e}
  /\ UNCHANGED <<bare, of, rest, at, attempt, answer, trace, lease, before>>

\* The instance that serves e stops, with what it has not exported.
Crash(e) ==
  /\ Working(e) \/ ended[e] # <<>>
  /\ Fault
  /\ answer' = [answer EXCEPT ![e] = IF @ = "none" THEN "dead" ELSE @]
  /\ at' = [at EXCEPT ![e] =
              [t \in Targets |-> IF @[t] \in InHand THEN "cut" ELSE @[t]]]
  /\ ended' = [ended EXCEPT ![e] = <<>>]
  /\ UNCHANGED <<bare, of, rest, attempt, trace, lease, lossy, before>>

\* LEASE_STALE_AFTER has passed.
Expire(t) ==
  /\ lease[t].fresh
  /\ lease' = [lease EXCEPT ![t].fresh = FALSE]
  /\ UNCHANGED <<bare, of, rest, at, attempt, answer, ended, trace, faults,
                 lossy, before>>

\* A webhook or manual run of another event takes the lease.
Preempt(t) ==
  /\ Fault
  /\ lease' = [lease EXCEPT ![t] = [holder |-> None, fresh |-> TRUE,
                                    count |-> 0]]
  /\ UNCHANGED <<bare, of, rest, at, attempt, answer, ended, trace, lossy,
                 before>>

Over == /\ \A e \in Events : answer[e] # "none"
        /\ UNCHANGED vars

Next ==
  \/ \E e \in Events, t \in Targets : Acquire(e, t) \/ Streams(e, t) \/ Fails(e, t)
  \/ \E r \in Replays, e \in Events : Ask(r, e)
  \/ \E r \in Replays, t \in Targets : Check(r, t)
  \/ \E r \in Replays : Take(r)
  \/ \E e \in Events : Return(e) \/ Export(e) \/ Drop(e) \/ Crash(e)
  \/ \E t \in Targets : Expire(t) \/ Preempt(t)
  \/ Over

Spec == Init /\ [][Next]_vars

(***************************************************************************)
(* Properties.                                                             *)
(***************************************************************************)
Asked(r) == r \in Replays /\ of[r] # None

\* A replay that answers without an error has streamed or skipped every
\* target the replayed event processed, unless the exporter lost its span:
\* the event span is exported last, and no error is swallowed.
AnswerCovers ==
  \A r \in Replays : Asked(r) /\ answer[r] = "ok" /\ of[r] \notin lossy =>
     \A t \in Targets : at[of[r]][t] \in {"streamed", "failed"} =>
        at[r][t] \in {"streamed", "skipped"}

\* A replay never runs beside the event it replays, and never works from an
\* event that was cut short.
ReplaysWhatEnded ==
  \A r \in Replays : (\E t \in Targets : t \in rest[r] \/ at[r][t] # "none") =>
     answer[of[r]] \in {"ok", "error"}

\* The first target that fails, is refused or cannot be read ends a replay
\* with an error: no other fails, and none of the rest is touched.
FailureSparesTheRest ==
  \A r \in Replays : \A t \in Targets :
     at[r][t] \in {"failed", "refused", "unread"} =>
        /\ answer[r] = "error"
        /\ \A u \in Targets \ {t} : \/ at[r][u] \in {"streamed", "skipped"}
                                    \/ at[r][u] = "none"

\* A replay takes an active lease only from an event that it ran beside: the
\* lease of an event that was over when the replay was asked is skipped, so
\* that a retry does not repeat what is still fresh.
OverridesOnlyConcurrent ==
  [][\A r \in Replays, t \in Targets :
        at[r][t] = "acquire" /\ at'[r][t] = "run" /\ lease[t].fresh =>
           lease[t].holder \notin before[r]]_vars
=============================================================================
