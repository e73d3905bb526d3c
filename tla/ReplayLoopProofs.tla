-------------------------- MODULE ReplayLoopProofs --------------------------
(***************************************************************************)
(* What holds of the Replay RPC and of the traces it works from for any    *)
(* number of targets, replays and faults and any limit on replays.         *)
(***************************************************************************)
EXTENDS ReplayLoop, SequenceTheorems, TLAPS

USE ReplayLoopAssumption, SpanNameAssumption

\* An event nobody asked for has done nothing.
Unasked(e) ==
  of[e] = None => /\ answer[e] = "none" /\ rest[e] = {} /\ ended[e] = <<>>
                  /\ \A t \in Targets : at[e][t] = "none"

\* An event that is over has no target in hand; a replay has at most one,
\* beside which nothing has failed.
Hand(e) ==
  /\ answer[e] # "none" => Idle(e)
  /\ \A t \in Targets : at[e][t] = "cut" => answer[e] = "dead"
  /\ e \in Replays => \A t \in Targets :
        /\ at[e][t] \in InHand =>
              \A u \in Targets \ {t} : at[e][u] \in {"none", "streamed", "skipped"}
        /\ at[e][t] \in {"failed", "refused", "unread"} =>
              /\ answer[e] = "error"
              /\ \A u \in Targets \ {t} : at[e][u] \in {"none", "streamed", "skipped"}

\* The span x of e waits for its export.
Waits(x, e) == \E i \in 1 .. Len(ended[e]) : ended[e][i] = x

\* The event span is the last to end, and to be exported: with it in the
\* store, so are those of all the targets that were processed.
EventLast(e) ==
  \A i \in 1 .. Len(ended[e]) :
     ended[e][i] = EventSpan => i = Len(ended[e]) /\ answer[e] \in {"ok", "error"}

Kept(e) ==
  /\ e \notin lossy
  /\ answer[e] = "none" \/ ended[e] # <<>> \/ EventSpan \in trace[e]
  => \A t \in Targets : at[e][t] \in {"streamed", "failed"} =>
        t \in trace[e] \/ Waits(t, e)

Book(e) ==
  /\ EventLast(e)
  /\ EventSpan \in trace[e] => ended[e] = <<>> /\ answer[e] \in {"ok", "error"}
  /\ Kept(e)

\* A replay that has got its targets has them all, from a trace that is
\* complete: each is still to be taken, or was.
Source(r) ==
  /\ of[r] # None /\ \/ answer[r] = "none" \/ answer[r] = "ok" \/ rest[r] # {}
                     \/ \E t \in Targets : at[r][t] # "none"
        => EventSpan \in trace[of[r]]
  /\ of[r] # None /\ answer[r] \in {"none", "ok"} =>
        \A t \in trace[of[r]] \ {EventSpan} : t \in rest[r] \/ at[r][t] # "none"
  /\ answer[r] = "ok" => rest[r] = {}

\* A lease that is fresh although the replay found it stale was taken since,
\* by an event that was not over when the replay was asked.
Override(r) ==
  /\ \A q \in before[r] : answer[q] # "none"
  /\ \A t \in Targets : at[r][t] = "acquire" /\ lease[t].fresh =>
        lease[t].holder \notin before[r]

IInv ==
  /\ TypeOK
  /\ of[Origin] # None
  /\ \A e \in Events : Unasked(e) /\ Hand(e) /\ Book(e)
  /\ \A r \in Replays : Source(r) /\ Override(r)

LEMMA InitIInv == Init => IInv
<1> SUFFICES ASSUME Init PROVE IInv
  OBVIOUS
<1>1. TypeOK
  <2>1. <<>> \in Seq(Spans)
    OBVIOUS
  <2>2. of \in [Events -> Events \cup {None}]
    BY DEF Init, Events
  <2>3. lease \in [Targets -> Lease]
    BY DEF Init, Lease
  <2>4. at \in [Events -> [Targets -> InHand \cup {"none", "streamed", "failed",
                                         "skipped", "refused", "unread", "cut"}]]
    BY DEF Init, InHand
  <2>5. faults \in 0 .. MaxFaults
    BY DEF Init
  <2> QED BY <2>1, <2>2, <2>3, <2>4, <2>5 DEF Init, TypeOK
<1>2. of[Origin] # None
  BY DEF Init, Events
<1>3. ASSUME NEW e \in Events PROVE Unasked(e) /\ Hand(e) /\ Book(e)
  <2>1. /\ answer[e] = "none" /\ rest[e] = {} /\ ended[e] = <<>> /\ trace[e] = {}
        /\ of[e] = None => e # Origin
        /\ \A t \in Targets : at[e][t] = IF e = Origin THEN "acquire" ELSE "none"
    BY DEF Init, Events
  <2>2. Unasked(e)
    BY <2>1 DEF Unasked
  <2>3. Hand(e)
    BY <2>1 DEF Hand, Events, InHand
  <2>4. Book(e)
    BY <2>1 DEF Book, EventLast, Kept
  <2> QED BY <2>2, <2>3, <2>4
<1>4. ASSUME NEW r \in Replays PROVE Source(r) /\ Override(r)
  <2>1. /\ answer[r] = "none" /\ of[r] = None /\ before[r] = {}
        /\ \A t \in Targets : lease[t].fresh = FALSE
    BY DEF Init, Events
  <2> QED BY <2>1 DEF Source, Override
<1> QED BY <1>1, <1>2, <1>3, <1>4 DEF IInv

(***************************************************************************)
(* What holds of the events that a step does not touch.                    *)
(***************************************************************************)
\* Nothing about event q changed.
Same(q) ==
  /\ of'[q] = of[q] /\ rest'[q] = rest[q] /\ at'[q] = at[q]
  /\ answer'[q] = answer[q] /\ ended'[q] = ended[q] /\ trace'[q] = trace[q]
  /\ before'[q] = before[q] /\ (q \in lossy' <=> q \in lossy)

LEMMA OwnKept ==
  ASSUME NEW q \in Events, Unasked(q), Hand(q), Book(q), Same(q)
  PROVE  Unasked(q)' /\ Hand(q)' /\ Book(q)'
<1>1. Unasked(q)' /\ Hand(q)'
  BY DEF Same, Unasked, Hand, Idle
<1>2. \A x : Waits(x, q)' = Waits(x, q)
  BY DEF Same, Waits
<1>3. Book(q)'
  BY <1>2 DEF Same, Book, EventLast, Kept
<1> QED BY <1>1, <1>3

\* A step of event r: what is to be shown of r itself.
LEMMA Local ==
  ASSUME IInv, TypeOK', NEW r \in Events,
         \A q \in Events \ {r} : Same(q),
         of[r] # None => of'[r] # None,
         EventSpan \in trace[r] => trace'[r] = trace[r],
         answer[r] # "none" => answer'[r] # "none",
         \A t \in Targets : \/ lease'[t] = lease[t]
                            \/ \A q \in Replays : lease'[t].holder \notin before[q],
         Unasked(r)', Hand(r)', Book(r)',
         r \in Replays => Source(r)' /\ Override(r)'
  PROVE  IInv'
<1>1. of'[Origin] # None
  BY DEF IInv, Same, Events
<1>2. ASSUME NEW q \in Events PROVE Unasked(q)' /\ Hand(q)' /\ Book(q)'
  BY <1>2, OwnKept DEF IInv
<1>3. ASSUME NEW q \in Replays PROVE Source(q)' /\ Override(q)'
  <2>1. CASE q = r
    BY <2>1
  <2>2. CASE q # r
    <3>1. q \in Events /\ Same(q) /\ Source(q) /\ Override(q)
      BY <2>2 DEF Events, IInv
    <3>2. of[q] # None => of[q] \in Events
      BY <3>1 DEF IInv, TypeOK
    <3>3. \A e \in Events : EventSpan \in trace[e] => trace'[e] = trace[e]
      BY DEF Same
    <3>4. Source(q)'
      BY <3>1, <3>2, <3>3 DEF Source, Same
    <3>5. \A e \in Events : answer[e] # "none" => answer'[e] # "none"
      BY DEF Same
    <3>6. before[q] \in SUBSET Events
      BY <3>1 DEF IInv, TypeOK
    <3>7. Override(q)'
      BY <3>1, <3>5, <3>6 DEF Override, Same
    <3> QED BY <3>4, <3>7
  <2> QED BY <2>1, <2>2
<1> QED BY <1>1, <1>2, <1>3 DEF IInv

\* A step that changes one lease only.
LEMMA LeaseOnly ==
  ASSUME IInv, TypeOK',
         UNCHANGED <<bare, of, rest, at, attempt, answer, ended, trace, lossy, before>>,
         \A t \in Targets : \/ ~lease'[t].fresh
                            \/ lease'[t] = lease[t]
                            \/ lease'[t].holder = None
  PROVE  IInv'
<1>1. ASSUME NEW q \in Events PROVE Unasked(q)' /\ Hand(q)' /\ Book(q)'
  BY <1>1, OwnKept DEF IInv, Same
<1>2. ASSUME NEW q \in Replays PROVE Source(q)' /\ Override(q)'
  <2>1. Source(q) /\ Override(q) /\ None \notin before[q]
    BY <1>2 DEF IInv, TypeOK, Events
  <2> QED BY <2>1 DEF Source, Override
<1> QED BY <1>1, <1>2 DEF IInv

(***************************************************************************)
(* Program counters and queues of spans.                                   *)
(***************************************************************************)
Places == InHand \cup {"none", "streamed", "failed", "skipped", "refused",
                       "unread", "cut"}

LEMMA Moved ==
  ASSUME TypeOK, NEW e \in Events, NEW t \in Targets, NEW l \in Places, Goto(e, t, l)
  PROVE  /\ at' \in [Events -> [Targets -> Places]]
         /\ \A q \in Events \ {e} : at'[q] = at[q]
         /\ \A u \in Targets : at'[e][u] = IF u = t THEN l ELSE at[e][u]
BY DEF TypeOK, Goto, Places

\* What is appended to a queue comes behind what is there.
LEMMA Pushed ==
  ASSUME NEW S, NEW s \in Seq(S), NEW x \in S
  PROVE  /\ s \o <<x>> \in Seq(S) /\ Append(s, x) = s \o <<x>>
         /\ Len(s) \in Nat /\ Len(s \o <<x>>) = Len(s) + 1
         /\ \A i \in 1 .. Len(s) : (s \o <<x>>)[i] = s[i]
         /\ (s \o <<x>>)[Len(s) + 1] = x
<1>1. /\ <<x>> \in Seq(S) /\ Len(<<x>>) = 1 /\ <<x>>[1] = x
      /\ Len(s) \in Nat
  OBVIOUS
<1>2. /\ s \o <<x>> \in Seq(S) /\ Len(s \o <<x>>) = Len(s) + 1
      /\ \A i \in 1 .. Len(s) : (s \o <<x>>)[i] = s[i]
      /\ (s \o <<x>>)[Len(s) + 1] = x
  BY <1>1, ConcatProperties
<1>3. Append(s, x) = s \o <<x>>
  BY <1>1, <1>2
<1> QED BY <1>1, <1>2, <1>3

\* The span of a target ends while its event goes on.
LEMMA TargetSpan ==
  ASSUME TypeOK, NEW e \in Events, NEW t \in Targets, EventLast(e),
         answer[e] = "none", ended' = [ended EXCEPT ![e] = Append(@, t)]
  PROVE  /\ ended' \in [Events -> Seq(Spans)]
         /\ \A q \in Events \ {e} : ended'[q] = ended[q]
         /\ ended'[e] # <<>>
         /\ \A x : Waits(x, e) => Waits(x, e)'
         /\ Waits(t, e)'
         /\ EventLast(e)'
<1> DEFINE s == ended[e]
<1>1. s \in Seq(Spans) /\ t \in Spans /\ t # EventSpan
  BY DEF TypeOK, Spans
<1>2. ended'[e] = s \o <<t>>
  BY <1>1, Pushed DEF TypeOK
<1>3. /\ ended'[e] \in Seq(Spans)
      /\ Len(s) \in Nat /\ Len(ended'[e]) = Len(s) + 1
      /\ \A i \in 1 .. Len(s) : ended'[e][i] = s[i]
      /\ ended'[e][Len(s) + 1] = t
  BY <1>1, <1>2, Pushed
<1>4. \A i \in 1 .. Len(s) : s[i] # EventSpan
  BY DEF EventLast
<1>5. /\ ended' \in [Events -> Seq(Spans)]
      /\ \A q \in Events \ {e} : ended'[q] = ended[q]
  BY <1>2, <1>3 DEF TypeOK
<1>6. (\A x : Waits(x, e) => Waits(x, e)') /\ Waits(t, e)'
  BY <1>3 DEF Waits
<1>7. EventLast(e)'
  BY <1>1, <1>3, <1>4 DEF EventLast
<1>8. ended'[e] # <<>>
  BY <1>3
<1> QED BY <1>5, <1>6, <1>7, <1>8

\* Event e is over: the spans u of targets end, then its own.
LEMMA EventEnds ==
  ASSUME TypeOK, NEW e \in Events, NEW u \in Seq(Targets), NEW a \in {"ok", "error"},
         EventLast(e), answer[e] = "none", Answer(e, u, a)
  PROVE  /\ ended' \in [Events -> Seq(Spans)]
         /\ answer' \in [Events -> {"none", "ok", "error", "dead"}]
         /\ \A q \in Events \ {e} : ended'[q] = ended[q] /\ answer'[q] = answer[q]
         /\ answer'[e] = a
         /\ ended'[e] # <<>>
         /\ \A x : Waits(x, e) => Waits(x, e)'
         /\ \A i \in 1 .. Len(u) : Waits(u[i], e)'
         /\ EventLast(e)'
<1> DEFINE s == ended[e]
           w == s \o u
<1>1. s \in Seq(Spans) /\ u \in Seq(Spans) /\ EventSpan \in Spans
  BY SeqMonotonic DEF TypeOK, Spans
<1>2. /\ w \in Seq(Spans) /\ Len(s) \in Nat /\ Len(u) \in Nat
      /\ Len(w) = Len(s) + Len(u)
      /\ \A i \in 1 .. Len(s) : w[i] = s[i]
      /\ \A i \in 1 .. Len(u) : w[Len(s) + i] = u[i]
  BY <1>1, ConcatProperties, LenProperties
<1>3. \A i \in 1 .. Len(w) : w[i] # EventSpan
  <2>1. \A i \in 1 .. Len(s) : s[i] # EventSpan
    BY DEF EventLast
  <2>2. \A i \in 1 .. Len(u) : u[i] # EventSpan
    BY ElementOfSeq
  <2>3. ASSUME NEW i \in 1 .. Len(w), i > Len(s) PROVE w[i] = u[i - Len(s)]
    BY <1>2, <2>3, Len(s) + (i - Len(s)) = i
  <2> QED BY <1>2, <2>1, <2>2, <2>3
<1> HIDE DEF w
<1>4. /\ ended'[e] = w \o <<EventSpan>>
      /\ answer'[e] = a
      /\ \A q \in Events \ {e} : ended'[q] = ended[q] /\ answer'[q] = answer[q]
      /\ answer' \in [Events -> {"none", "ok", "error", "dead"}]
  BY DEF Answer, TypeOK, w
<1>5. /\ ended'[e] \in Seq(Spans) /\ Len(ended'[e]) = Len(w) + 1
      /\ \A i \in 1 .. Len(w) : ended'[e][i] = w[i]
      /\ ended'[e][Len(w) + 1] = EventSpan
  <2>1. w \in Seq(Spans) /\ EventSpan \in Spans
    BY <1>1, <1>2
  <2>2. /\ w \o <<EventSpan>> \in Seq(Spans) /\ Len(w \o <<EventSpan>>) = Len(w) + 1
        /\ \A i \in 1 .. Len(w) : (w \o <<EventSpan>>)[i] = w[i]
        /\ (w \o <<EventSpan>>)[Len(w) + 1] = EventSpan
    BY <2>1, Pushed
  <2> QED BY <1>4, <2>2
<1>6. ended' \in [Events -> Seq(Spans)]
  BY <1>4, <1>5 DEF Answer, TypeOK
<1>7. \A x : Waits(x, e) => Waits(x, e)'
  BY <1>2, <1>5 DEF Waits
<1>8. ASSUME NEW i \in 1 .. Len(u) PROVE Waits(u[i], e)'
  <2>1. PICK k \in Nat : k = Len(s) + i
    BY <1>2
  <2>2. k \in 1 .. Len(w) /\ Len(w) \in Nat /\ w[k] = u[i]
    BY <1>2, <2>1
  <2> QED BY <1>5, <2>2 DEF Waits
<1>9. EventLast(e)'
  BY <1>2, <1>3, <1>4, <1>5 DEF EventLast
<1>10. ended'[e] # <<>>
  BY <1>2, <1>5
<1> QED BY <1>4, <1>6, <1>7, <1>8, <1>9, <1>10

(***************************************************************************)
(* What a step of event e does to e's own part of the invariant.           *)
(***************************************************************************)
\* An event with a target in hand was asked for and is not over.
LEMMA InHandOpen ==
  ASSUME IInv, NEW e \in Events, NEW t \in Targets, at[e][t] \in InHand
  PROVE  of[e] # None /\ answer[e] = "none"
BY DEF IInv, Unasked, Hand, Idle, InHand

\* The target in hand moves on, or ends its replay with an error.
LEMMA HandMoves ==
  ASSUME IInv, NEW e \in Events, NEW t \in Targets, at[e][t] \in InHand,
         NEW l \in Places \ {"none", "cut"},
         \A u \in Targets : at'[e][u] = IF u = t THEN l ELSE at[e][u],
         \/ answer'[e] = "none" /\ (e = Origin \/ l \in InHand \cup {"streamed", "skipped"})
         \/ answer'[e] = "error" /\ e \in Replays /\ l \notin InHand
  PROVE  Hand(e)'
<1>1. Hand(e) /\ answer[e] = "none"
  BY InHandOpen DEF IInv
<1>2. CASE e = Origin
  BY <1>1, <1>2 DEF Hand, Idle, InHand
<1>3. CASE e \in Replays
  <2>1. \A u \in Targets \ {t} : at'[e][u] \in {"none", "streamed", "skipped"}
    BY <1>1, <1>3 DEF Hand
  <2>2. at'[e][t] = l
    OBVIOUS
  <2> QED BY <1>1, <1>3, <2>1, <2>2 DEF Hand, Idle, InHand
<1> QED BY <1>2, <1>3 DEF Events

\* No span of e ends.
LEMMA BookKept ==
  ASSUME NEW e \in Events, Book(e), answer[e] = "none", answer'[e] = "none",
         ended'[e] = ended[e], trace'[e] = trace[e], e \in lossy' <=> e \in lossy,
         \A t \in Targets : at'[e][t] \in {"streamed", "failed"} =>
                               at[e][t] \in {"streamed", "failed"}
  PROVE  Book(e)'
<1>1. \A x : Waits(x, e)' = Waits(x, e)
  BY DEF Waits
<1> QED BY <1>1 DEF Book, EventLast, Kept

\* The span of target t ends, and e goes on.
LEMMA BookTarget ==
  ASSUME TypeOK, NEW e \in Events, NEW t \in Targets, Book(e),
         answer[e] = "none", answer'[e] = "none",
         ended' = [ended EXCEPT ![e] = Append(@, t)],
         trace'[e] = trace[e], e \in lossy' <=> e \in lossy,
         \A u \in Targets \ {t} : at'[e][u] \in {"streamed", "failed"} =>
                                     at[e][u] \in {"streamed", "failed"}
  PROVE  Book(e)'
<1>1. EventLast(e) /\ EventSpan \notin trace[e]
  BY DEF Book
<1>2. EventLast(e)' /\ Waits(t, e)' /\ \A x : Waits(x, e) => Waits(x, e)'
  BY <1>1, TargetSpan
<1> QED BY <1>1, <1>2 DEF Book, Kept

\* The spans u of targets end, and e with them.
LEMMA BookAnswer ==
  ASSUME TypeOK, NEW e \in Events, NEW u \in Seq(Targets), NEW a \in {"ok", "error"},
         Book(e), answer[e] = "none", Answer(e, u, a),
         trace'[e] = trace[e], e \in lossy' <=> e \in lossy,
         \A t \in Targets : at'[e][t] \in {"streamed", "failed"} =>
            at[e][t] \in {"streamed", "failed"} \/ \E i \in 1 .. Len(u) : u[i] = t
  PROVE  Book(e)'
<1>1. EventLast(e) /\ EventSpan \notin trace[e]
  BY DEF Book
<1>2. /\ EventLast(e)' /\ \A x : Waits(x, e) => Waits(x, e)'
      /\ \A i \in 1 .. Len(u) : Waits(u[i], e)'
  BY <1>1, EventEnds
<1>3. ASSUME NEW t \in Targets, e \notin lossy, at'[e][t] \in {"streamed", "failed"}
      PROVE  t \in trace[e] \/ Waits(t, e)'
  BY <1>2, <1>3 DEF Book, Kept
<1> QED BY <1>1, <1>2, <1>3 DEF Book, Kept

\* A replay that is not over goes on, fails, or ends with none left.
LEMMA SourceMoves ==
  ASSUME IInv, NEW r \in Replays, of[r] # None, answer[r] = "none",
         of'[r] = of[r], trace' = trace,
         answer'[r] \in {"none", "ok"} => \A t \in Targets :
            t \in rest[r] \/ at[r][t] # "none" => t \in rest'[r] \/ at'[r][t] # "none",
         answer'[r] = "ok" => rest'[r] = {}
  PROVE  Source(r)'
<1>1. Source(r) /\ of[r] \in Events /\ trace[of[r]] \subseteq Spans
  BY DEF IInv, TypeOK, Events
<1>2. EventSpan \in trace[of[r]] /\ trace'[of'[r]] = trace[of[r]]
  BY <1>1 DEF Source
<1>3. \A t \in trace[of[r]] \ {EventSpan} : t \in Targets /\ (t \in rest[r] \/ at[r][t] # "none")
  BY <1>1 DEF Source, Spans
<1> QED BY <1>1, <1>2, <1>3 DEF Source

(***************************************************************************)
(* The steps, one by one.                                                  *)
(***************************************************************************)
LEMMA AcquireIInv ==
  ASSUME IInv, NEW e \in Events, NEW t \in Targets, Acquire(e, t)
  PROVE  IInv'
<1>1. /\ at[e][t] = "acquire" /\ Goto(e, t, "run")
      /\ lease' = [lease EXCEPT ![t] = [holder |-> e, fresh |-> TRUE, count |-> attempt[e]]]
      /\ UNCHANGED <<bare, of, rest, attempt, answer, ended, trace, faults, lossy, before>>
  BY DEF Acquire
<1>2. of[e] # None /\ answer[e] = "none" /\ Book(e) /\ TypeOK
  BY <1>1, InHandOpen DEF InHand, IInv
<1>3. /\ at' \in [Events -> [Targets -> Places]]
      /\ \A q \in Events \ {e} : at'[q] = at[q]
      /\ \A u \in Targets : at'[e][u] = IF u = t THEN "run" ELSE at[e][u]
  BY <1>1, <1>2, Moved DEF Places, InHand
<1>4. lease' \in [Targets -> Lease]
  BY <1>1, <1>2 DEF TypeOK, Lease
<1>5. TypeOK'
  BY <1>1, <1>2, <1>3, <1>4 DEF TypeOK, Places
<1>6. Hand(e)'
  BY <1>1, <1>2, <1>3, HandMoves DEF Places, InHand, Events
<1>7. Book(e)'
  BY <1>1, <1>2, <1>3, BookKept
<1>8. ASSUME e \in Replays PROVE Source(e)' /\ Override(e)'
  <2>1. Source(e)'
    BY <1>1, <1>2, <1>3, <1>8, SourceMoves
  <2>2. Override(e)
    BY <1>8 DEF IInv
  <2> QED BY <1>1, <1>2, <1>3, <2>1, <2>2 DEF Override, TypeOK
<1>9. \A q \in Replays : e \notin before[q]
  BY <1>2 DEF IInv, Override
<1>10. \A u \in Targets : lease'[u] = lease[u] \/ \A q \in Replays : lease'[u].holder \notin before[q]
  BY <1>1, <1>2, <1>9 DEF TypeOK
<1>11. Unasked(e)' /\ \A q \in Events \ {e} : Same(q)
  BY <1>1, <1>2, <1>3 DEF Unasked, Same
<1> QED BY <1>1, <1>2, <1>5, <1>6, <1>7, <1>8, <1>10, <1>11, Local

LEMMA StreamsIInv ==
  ASSUME IInv, NEW e \in Events, NEW t \in Targets, Streams(e, t)
  PROVE  IInv'
<1>1. /\ at[e][t] = "run" /\ Goto(e, t, "streamed")
      /\ ended' = [ended EXCEPT ![e] = Append(@, t)]
      /\ UNCHANGED <<bare, of, rest, attempt, answer, trace, lease, faults, lossy, before>>
  BY DEF Streams
<1>2. of[e] # None /\ answer[e] = "none" /\ Book(e) /\ EventLast(e) /\ TypeOK
  BY <1>1, InHandOpen DEF InHand, IInv, Book
<1>3. /\ at' \in [Events -> [Targets -> Places]]
      /\ \A q \in Events \ {e} : at'[q] = at[q]
      /\ \A u \in Targets : at'[e][u] = IF u = t THEN "streamed" ELSE at[e][u]
  BY <1>1, <1>2, Moved DEF Places, InHand
<1>4. ended' \in [Events -> Seq(Spans)] /\ \A q \in Events \ {e} : ended'[q] = ended[q]
  BY <1>1, <1>2, TargetSpan
<1>5. TypeOK'
  BY <1>1, <1>2, <1>3, <1>4 DEF TypeOK, Places
<1>6. Hand(e)'
  BY <1>1, <1>2, <1>3, HandMoves DEF Places, InHand, Events
<1>7. Book(e)'
  BY <1>1, <1>2, <1>3, BookTarget
<1>8. ASSUME e \in Replays PROVE Source(e)' /\ Override(e)'
  <2>1. Source(e)'
    BY <1>1, <1>2, <1>3, <1>8, SourceMoves
  <2>2. Override(e)
    BY <1>8 DEF IInv
  <2> QED BY <1>1, <1>2, <1>3, <2>1, <2>2 DEF Override
<1>9. Unasked(e)' /\ \A q \in Events \ {e} : Same(q)
  BY <1>1, <1>2, <1>3, <1>4 DEF Unasked, Same
<1> QED BY <1>1, <1>2, <1>5, <1>6, <1>7, <1>8, <1>9, Local

LEMMA FailsIInv ==
  ASSUME IInv, NEW e \in Events, NEW t \in Targets, Fails(e, t)
  PROVE  IInv'
<1>1. /\ at[e][t] \in InHand /\ Goto(e, t, "failed")
      /\ \/ e # Origin /\ Answer(e, <<t>>, "error")
         \/ /\ e = Origin
            /\ ended' = [ended EXCEPT ![e] = Append(@, t)]
            /\ UNCHANGED answer
      /\ UNCHANGED <<bare, of, rest, attempt, trace, lease, lossy, before>>
  BY DEF Fails, InHand
<1>2. of[e] # None /\ answer[e] = "none" /\ Book(e) /\ EventLast(e) /\ TypeOK
  BY <1>1, InHandOpen DEF InHand, IInv, Book
<1>3. /\ at' \in [Events -> [Targets -> Places]]
      /\ \A q \in Events \ {e} : at'[q] = at[q]
      /\ \A u \in Targets : at'[e][u] = IF u = t THEN "failed" ELSE at[e][u]
  BY <1>1, <1>2, Moved DEF Places, InHand
<1>4. <<t>> \in Seq(Targets) /\ Len(<<t>>) = 1 /\ <<t>>[1] = t
  OBVIOUS
<1>5. /\ ended' \in [Events -> Seq(Spans)]
      /\ answer' \in [Events -> {"none", "ok", "error", "dead"}]
      /\ \A q \in Events \ {e} : ended'[q] = ended[q] /\ answer'[q] = answer[q]
      /\ IF e = Origin THEN answer'[e] = "none" ELSE answer'[e] = "error"
  <2>1. CASE e = Origin
    BY <1>1, <1>2, <2>1, TargetSpan DEF TypeOK
  <2>2. CASE e # Origin
    BY <1>1, <1>2, <1>4, <2>2, EventEnds
  <2> QED BY <2>1, <2>2
<1>6. faults' \in 0 .. MaxFaults
  BY <1>2 DEF Fails, Fault, TypeOK
<1>7. TypeOK'
  BY <1>1, <1>2, <1>3, <1>5, <1>6 DEF TypeOK, Places
<1>8. Hand(e)'
  <2>1. \/ answer'[e] = "none" /\ e = Origin
        \/ answer'[e] = "error" /\ e \in Replays
    BY <1>5 DEF Events
  <2>2. "failed" \in Places \ {"none", "cut"} /\ "failed" \notin InHand
    BY DEF Places, InHand
  <2> QED BY <1>1, <1>3, <2>1, <2>2, HandMoves
<1>9. Book(e)'
  <2>1. CASE e = Origin
    BY <1>1, <1>2, <1>3, <2>1, BookTarget
  <2>2. CASE e # Origin
    <3>1. \A u \in Targets : at'[e][u] \in {"streamed", "failed"} =>
             at[e][u] \in {"streamed", "failed"} \/ \E i \in 1 .. Len(<<t>>) : <<t>>[i] = u
      BY <1>3, <1>4
    <3> QED BY <1>1, <1>2, <1>4, <2>2, <3>1, BookAnswer
  <2> QED BY <2>1, <2>2
<1>10. ASSUME e \in Replays PROVE Source(e)' /\ Override(e)'
  <2>1. Source(e)'
    BY <1>1, <1>2, <1>5, <1>10, SourceMoves
  <2>2. Override(e)
    BY <1>10 DEF IInv
  <2>3. \A q \in Events : answer[q] # "none" => answer'[q] # "none"
    BY <1>2, <1>5
  <2>4. before[e] \subseteq Events
    BY <1>2 DEF TypeOK
  <2> QED BY <1>1, <1>2, <1>3, <2>1, <2>2, <2>3, <2>4 DEF Override
<1>11. Unasked(e)' /\ \A q \in Events \ {e} : Same(q)
  BY <1>1, <1>2, <1>3, <1>5 DEF Unasked, Same
<1> QED BY <1>1, <1>2, <1>5, <1>7, <1>8, <1>9, <1>10, <1>11, Local

LEMMA AskIInv ==
  ASSUME IInv, NEW r \in Replays, NEW e \in Events, Ask(r, e)
  PROVE  IInv'
<1>1. /\ of[r] = None /\ of[e] # None
      /\ of' = [of EXCEPT ![r] = e]
      /\ before' = [before EXCEPT ![r] = {q \in Events : answer[q] # "none"}]
      /\ \/ /\ EventSpan \in trace[e]
            /\ rest' = [rest EXCEPT ![r] = trace[e] \ {EventSpan}]
            /\ answer' = answer
         \/ /\ answer' = [answer EXCEPT ![r] = "error"]
            /\ rest' = rest
      /\ faults' \in 0 .. MaxFaults
      /\ UNCHANGED <<bare, at, attempt, ended, trace, lease, lossy>>
  BY DEF Ask, CanReplay, Fault, IInv, TypeOK
<1>2. /\ TypeOK /\ r \in Events /\ answer[r] = "none" /\ rest[r] = {} /\ ended[r] = <<>>
      /\ (\A t \in Targets : at[r][t] = "none") /\ Hand(r) /\ Book(r)
  BY <1>1 DEF IInv, Unasked, Events
<1>3. TypeOK'
  <2>1. trace[e] \ {EventSpan} \in SUBSET Targets
    BY <1>2 DEF TypeOK, Spans
  <2>2. of' \in [Events -> Events \cup {None}] /\ before' \in [Events -> SUBSET Events]
    BY <1>1, <1>2 DEF TypeOK
  <2>3. rest' \in [Events -> SUBSET Targets]
    <3>1. PICK s \in SUBSET Targets : rest' = rest \/ rest' = [rest EXCEPT ![r] = s]
      BY <1>1, <2>1
    <3> QED BY <1>2, <3>1 DEF TypeOK
  <2>4. answer' \in [Events -> {"none", "ok", "error", "dead"}]
    BY <1>1, <1>2 DEF TypeOK
  <2> QED BY <1>1, <1>2, <2>2, <2>3, <2>4 DEF TypeOK
<1>4. /\ of'[r] = e /\ before'[r] = {q \in Events : answer[q] # "none"}
      /\ \/ answer'[r] = "none" /\ rest'[r] = trace[e] \ {EventSpan} /\ EventSpan \in trace[e]
         \/ answer'[r] = "error" /\ rest'[r] = {}
  BY <1>1, <1>2 DEF TypeOK
<1>5. \A q \in Events \ {r} : Same(q) /\ answer'[q] = answer[q]
  <2>1. \A q \in Events \ {r} : of'[q] = of[q] /\ before'[q] = before[q]
    BY <1>1, <1>2 DEF TypeOK
  <2>2. \A q \in Events \ {r} : rest'[q] = rest[q] /\ answer'[q] = answer[q]
    BY <1>1, <1>2 DEF TypeOK
  <2> QED BY <1>1, <2>1, <2>2 DEF Same
<1>6. Unasked(r)' /\ Hand(r)'
  <2>1. \A t \in Targets : at'[r][t] = "none"
    BY <1>1, <1>2
  <2>2. Unasked(r)'
    BY <1>1, <1>4 DEF Unasked, Events
  <2>3. Hand(r)'
    BY <2>1 DEF Hand, Idle, InHand
  <2> QED BY <2>2, <2>3
<1>7. Book(r)'
  <2>1. \A i \in 1 .. Len(ended'[r]) : FALSE
    BY <1>1, <1>2
  <2> QED BY <1>1, <1>2, <2>1 DEF Book, EventLast, Kept
<1>8. Source(r)' /\ Override(r)'
  <2>1. Source(r)'
    BY <1>1, <1>2, <1>4 DEF Source
  <2>2. \A q \in before'[r] : answer'[q] # "none"
    BY <1>2, <1>4, <1>5
  <2> QED BY <1>1, <1>2, <2>1, <2>2 DEF Override
<1>9. of[r] # None => of'[r] # None
  BY <1>1
<1> QED BY <1>1, <1>2, <1>3, <1>5, <1>6, <1>7, <1>8, <1>9, Local

LEMMA TakeIInv ==
  ASSUME IInv, NEW r \in Replays, Take(r)
  PROVE  IInv'
<1>1. PICK t \in rest[r] :
        /\ rest' = [rest EXCEPT ![r] = @ \ {t}]
        /\ \/ /\ Goto(r, t, "check")
              /\ UNCHANGED <<answer, ended>>
           \/ /\ Answer(r, <<>>, "error")
              /\ UNCHANGED at
  BY DEF Take
<1>2. /\ of[r] # None /\ answer[r] = "none" /\ Idle(r)
      /\ UNCHANGED <<bare, of, attempt, trace, lease, faults, lossy, before>>
  BY DEF Take, Working
<1>3. /\ TypeOK /\ r \in Events /\ t \in Targets /\ Hand(r) /\ Book(r) /\ EventLast(r)
      /\ Override(r)
  BY DEF IInv, Book, TypeOK, Events
<1>4. /\ rest' \in [Events -> SUBSET Targets] /\ rest'[r] = rest[r] \ {t}
      /\ \A q \in Events \ {r} : rest'[q] = rest[q]
  BY <1>1, <1>3 DEF TypeOK
<1>5. CASE Goto(r, t, "check") /\ UNCHANGED <<answer, ended>>
  <2>1. /\ at' \in [Events -> [Targets -> Places]]
        /\ \A q \in Events \ {r} : at'[q] = at[q]
        /\ \A u \in Targets : at'[r][u] = IF u = t THEN "check" ELSE at[r][u]
    BY <1>3, <1>5, Moved DEF Places, InHand
  <2>2. TypeOK'
    BY <1>2, <1>3, <1>4, <1>5, <2>1 DEF TypeOK, Places
  <2>3. Hand(r)'
    <3>1. \A u \in Targets : at[r][u] \in {"none", "streamed", "skipped"}
      BY <1>2, <1>3 DEF Hand, Idle, TypeOK
    <3> QED BY <1>2, <1>5, <2>1, <3>1 DEF Hand, InHand
  <2>4. Book(r)'
    BY <1>2, <1>3, <1>5, <2>1, BookKept
  <2>5. Source(r)'
    BY <1>2, <1>4, <1>5, <2>1, SourceMoves
  <2>6. Override(r)'
    BY <1>2, <1>3, <1>5, <2>1 DEF Override
  <2>7. Unasked(r)' /\ \A q \in Events \ {r} : Same(q)
    BY <1>2, <1>4, <1>5, <2>1 DEF Unasked, Same
  <2> QED BY <1>2, <1>3, <1>5, <2>2, <2>3, <2>4, <2>5, <2>6, <2>7, Local
<1>6. CASE Answer(r, <<>>, "error") /\ UNCHANGED at
  <2>1. <<>> \in Seq(Targets)
    OBVIOUS
  <2>2. /\ ended' \in [Events -> Seq(Spans)]
        /\ answer' \in [Events -> {"none", "ok", "error", "dead"}]
        /\ \A q \in Events \ {r} : ended'[q] = ended[q] /\ answer'[q] = answer[q]
        /\ answer'[r] = "error"
    BY <1>2, <1>3, <1>6, <2>1, EventEnds
  <2>3. TypeOK'
    BY <1>2, <1>3, <1>4, <1>6, <2>2 DEF TypeOK
  <2>4. Hand(r)'
    BY <1>2, <1>3, <1>6, <2>2 DEF Hand, Idle
  <2>5. Book(r)'
    BY <1>2, <1>3, <1>6, <2>1, BookAnswer
  <2>6. Source(r)'
    BY <1>2, <2>2, SourceMoves
  <2>7. Override(r)'
    <3>1. \A q \in Events : answer[q] # "none" => answer'[q] # "none"
      BY <1>2, <2>2
    <3>2. before[r] \subseteq Events
      BY <1>3 DEF TypeOK
    <3> QED BY <1>2, <1>3, <1>6, <3>1, <3>2 DEF Override
  <2>8. Unasked(r)' /\ \A q \in Events \ {r} : Same(q)
    BY <1>2, <1>4, <1>6, <2>2 DEF Unasked, Same
  <2> QED BY <1>2, <1>3, <2>2, <2>3, <2>4, <2>5, <2>6, <2>7, <2>8, Local
<1> QED BY <1>1, <1>5, <1>6

LEMMA CheckIInv ==
  ASSUME IInv, NEW r \in Replays, NEW t \in Targets, Check(r, t)
  PROVE  IInv'
<1> DEFINE n == lease[t].count + 1
<1>1. /\ at[r][t] = "check" /\ faults' \in 0 .. MaxFaults
      /\ UNCHANGED <<bare, of, rest, trace, lease, lossy, before>>
      /\ \/ /\ Goto(r, t, "unread") \/ Goto(r, t, "refused")
            /\ Answer(r, <<>>, "error")
            /\ UNCHANGED attempt
         \/ /\ Goto(r, t, "skipped")
            /\ UNCHANGED <<attempt, answer, ended>>
         \/ /\ Goto(r, t, "acquire")
            /\ ~lease[t].fresh /\ n <= MaxReplays
            /\ attempt' = [attempt EXCEPT ![r] = n]
            /\ UNCHANGED <<answer, ended>>
  <2>1. n \in Int
    BY DEF IInv, TypeOK, Lease
  <2> QED BY <2>1 DEF Check, Active, Exceeds, Fault, IInv, TypeOK
<1>2. /\ of[r] # None /\ answer[r] = "none"
      /\ TypeOK /\ r \in Events /\ Book(r) /\ EventLast(r) /\ Override(r)
  BY <1>1, InHandOpen DEF InHand, IInv, Book, Events
<1>3. PICK l \in {"unread", "refused", "skipped", "acquire"} :
        /\ Goto(r, t, l)
        /\ l \in {"unread", "refused"} => Answer(r, <<>>, "error") /\ UNCHANGED attempt
        /\ l = "skipped" => UNCHANGED <<attempt, answer, ended>>
        /\ l = "acquire" => /\ ~lease[t].fresh /\ n <= MaxReplays
                            /\ attempt' = [attempt EXCEPT ![r] = n]
                            /\ UNCHANGED <<answer, ended>>
  BY <1>1
<1>4. /\ at' \in [Events -> [Targets -> Places]]
      /\ \A q \in Events \ {r} : at'[q] = at[q]
      /\ \A u \in Targets : at'[r][u] = IF u = t THEN l ELSE at[r][u]
  BY <1>2, <1>3, Moved DEF Places, InHand
<1>5. <<>> \in Seq(Targets)
  OBVIOUS
<1>6. /\ ended' \in [Events -> Seq(Spans)]
      /\ answer' \in [Events -> {"none", "ok", "error", "dead"}]
      /\ \A q \in Events \ {r} : ended'[q] = ended[q] /\ answer'[q] = answer[q]
      /\ answer'[r] = IF l \in {"unread", "refused"} THEN "error" ELSE "none"
  <2>1. CASE l \in {"unread", "refused"}
    BY <1>5, <1>2, <1>3, <2>1, EventEnds
  <2>2. CASE l \in {"skipped", "acquire"}
    BY <1>2, <1>3, <2>2 DEF TypeOK
  <2> QED BY <2>1, <2>2
<1>7. /\ attempt' \in [Events -> Nat]
      /\ \A e \in Events : attempt'[e] = 0 \/ attempt'[e] <= MaxReplays
  <2>1. n \in Nat
    BY <1>2 DEF TypeOK, Lease
  <2>2. CASE attempt' = attempt
    BY <1>2, <2>2 DEF TypeOK
  <2>3. CASE attempt' = [attempt EXCEPT ![r] = n] /\ n <= MaxReplays
    <3> HIDE DEF n
    <3>1. attempt' \in [Events -> Nat]
      BY <1>2, <2>1, <2>3 DEF TypeOK
    <3>2. \A e \in Events : attempt'[e] = IF e = r THEN n ELSE attempt[e]
      BY <1>2, <2>3 DEF TypeOK
    <3> QED BY <1>2, <2>3, <3>1, <3>2 DEF TypeOK
  <2> QED BY <1>3, <2>2, <2>3
<1>8. TypeOK'
  BY <1>1, <1>2, <1>4, <1>6, <1>7 DEF TypeOK, Places
<1>9. Hand(r)'
  <2>1. at[r][t] \in InHand /\ l \in Places \ {"none", "cut"}
    BY <1>1 DEF InHand, Places
  <2>2. \/ answer'[r] = "none" /\ l \in InHand \cup {"streamed", "skipped"}
        \/ answer'[r] = "error" /\ r \in Replays /\ l \notin InHand
    BY <1>6 DEF InHand
  <2> QED BY <1>2, <1>4, <2>1, <2>2, HandMoves
<1>10. Book(r)'
  <2>1. CASE l \in {"unread", "refused"}
    BY <1>5, <1>1, <1>2, <1>3, <1>4, <2>1, BookAnswer
  <2>2. CASE l \in {"skipped", "acquire"}
    BY <1>1, <1>2, <1>3, <1>4, <1>6, <2>2, BookKept
  <2> QED BY <2>1, <2>2
<1>11. Source(r)'
  BY <1>1, <1>2, <1>4, <1>6, SourceMoves
<1>12. Override(r)'
  <2>1. \A q \in Events : answer[q] # "none" => answer'[q] # "none"
    BY <1>2, <1>6
  <2>2. before[r] \subseteq Events
    BY <1>2 DEF TypeOK
  <2> QED BY <1>1, <1>2, <1>3, <1>4, <2>1, <2>2 DEF Override
<1>13. Unasked(r)' /\ \A q \in Events \ {r} : Same(q)
  BY <1>1, <1>2, <1>4, <1>6 DEF Unasked, Same
<1> QED BY <1>1, <1>2, <1>8, <1>9, <1>10, <1>11, <1>12, <1>13, Local

LEMMA ReturnIInv ==
  ASSUME IInv, NEW e \in Events, Return(e)
  PROVE  IInv'
<1>1. /\ of[e] # None /\ answer[e] = "none" /\ Idle(e) /\ rest[e] = {}
      /\ Answer(e, <<>>, "ok")
      /\ UNCHANGED <<bare, of, rest, at, attempt, trace, lease, faults, lossy, before>>
  BY DEF Return, Working
<1>2. TypeOK /\ Hand(e) /\ Book(e) /\ EventLast(e) /\ <<>> \in Seq(Targets)
  BY DEF IInv, Book
<1>3. /\ ended' \in [Events -> Seq(Spans)]
      /\ answer' \in [Events -> {"none", "ok", "error", "dead"}]
      /\ \A q \in Events \ {e} : ended'[q] = ended[q] /\ answer'[q] = answer[q]
      /\ answer'[e] = "ok"
  BY <1>1, <1>2, EventEnds
<1>4. TypeOK'
  BY <1>1, <1>2, <1>3 DEF TypeOK
<1>5. Hand(e)'
  <2>1. \A t \in Targets : at[e][t] # "cut"
    BY <1>1, <1>2 DEF Hand
  <2> QED BY <1>1, <1>2, <1>3, <2>1 DEF Hand, Idle
<1>6. Book(e)'
  BY <1>1, <1>2, BookAnswer
<1>7. ASSUME e \in Replays PROVE Source(e)' /\ Override(e)'
  <2>1. Source(e)'
    BY <1>1, <1>7, SourceMoves
  <2>2. Override(e) /\ before[e] \subseteq Events
    BY <1>2, <1>7 DEF IInv, TypeOK
  <2>3. \A q \in Events : answer[q] # "none" => answer'[q] # "none"
    BY <1>1, <1>3
  <2> QED BY <1>1, <2>1, <2>2, <2>3 DEF Override
<1>8. Unasked(e)' /\ \A q \in Events \ {e} : Same(q)
  BY <1>1, <1>3 DEF Unasked, Same
<1> QED BY <1>1, <1>3, <1>4, <1>5, <1>6, <1>7, <1>8, Local

\* The first span of the queue leaves it.
LEMMA Popped ==
  ASSUME TypeOK, NEW e \in Events, EventLast(e), ended[e] # <<>>,
         ended' = [ended EXCEPT ![e] = Tail(@)], answer' = answer
  PROVE  /\ ended' \in [Events -> Seq(Spans)]
         /\ \A q \in Events \ {e} : ended'[q] = ended[q]
         /\ Head(ended[e]) \in Spans
         /\ Head(ended[e]) = EventSpan => ended'[e] = <<>> /\ answer[e] \in {"ok", "error"}
         /\ \A x : Waits(x, e) => x = Head(ended[e]) \/ Waits(x, e)'
         /\ EventLast(e)'
<1> DEFINE s == ended[e]
<1>1. /\ s \in Seq(Spans) /\ Len(s) \in Nat \ {0}
      /\ \A i \in 1 .. Len(s) : s[i] = EventSpan => i = Len(s) /\ answer[e] \in {"ok", "error"}
  BY EmptySeq DEF TypeOK, EventLast
<1>2. /\ Head(s) \in Spans /\ Head(s) = s[1]
      /\ Tail(s) \in Seq(Spans) /\ Len(Tail(s)) = Len(s) - 1
      /\ \A i \in 1 .. Len(Tail(s)) : Tail(s)[i] = s[i + 1]
  BY <1>1, HeadTailProperties
<1>3. /\ ended'[e] = Tail(s)
      /\ ended' \in [Events -> Seq(Spans)]
      /\ \A q \in Events \ {e} : ended'[q] = ended[q]
  BY <1>2 DEF TypeOK
<1>4. ASSUME Head(s) = EventSpan PROVE ended'[e] = <<>> /\ answer[e] \in {"ok", "error"}
  <2>1. Len(s) = 1 /\ answer[e] \in {"ok", "error"}
    <3>1. Len(s) \in Nat \ {0} /\ 1 \in 1 .. Len(s)
      BY <1>1
    <3>2. s[1] = EventSpan
      BY <1>2, <1>4
    <3> HIDE DEF s
    <3> QED BY <1>1, <3>1, <3>2
  <2>2. Len(Tail(s)) = 0
    BY <1>2, <2>1
  <2>3. Tail(s) = <<>>
    BY <1>2, <2>2, EmptySeq
  <2> QED BY <1>3, <2>1, <2>3
<1>5. ASSUME NEW x, Waits(x, e), x # Head(s) PROVE Waits(x, e)'
  <2>1. PICK i \in 1 .. Len(s) : s[i] = x
    BY <1>5 DEF Waits
  <2>2. i # 1
    BY <1>2, <1>5, <2>1
  <2>3. PICK j \in Nat : i = j + 1 /\ j \in 1 .. Len(s) - 1
    BY <1>1, <2>1, <2>2, i - 1 \in Nat
  <2>4. j \in 1 .. Len(Tail(s)) /\ Tail(s)[j] = x
    BY <1>2, <2>1, <2>3
  <2> QED BY <1>3, <2>4 DEF Waits
<1>6. EventLast(e)'
  <2>1. ASSUME NEW i \in 1 .. Len(Tail(s)), Tail(s)[i] = EventSpan
        PROVE  i = Len(Tail(s)) /\ answer[e] \in {"ok", "error"}
    <3>1. i + 1 \in 1 .. Len(s) /\ s[i + 1] = EventSpan
      BY <1>1, <1>2, <2>1
    <3>2. i + 1 = Len(s) /\ answer[e] \in {"ok", "error"}
      BY <1>1, <3>1
    <3> QED BY <1>1, <1>2, <3>2
  <2> QED BY <1>3, <2>1 DEF EventLast
<1> QED BY <1>2, <1>3, <1>4, <1>5, <1>6

LEMMA ExportIInv ==
  ASSUME IInv, NEW e \in Events, Export(e)
  PROVE  IInv'
<1> DEFINE x == Head(ended[e])
<1>1. /\ ended[e] # <<>>
      /\ trace' = [trace EXCEPT ![e] = @ \cup {x}]
      /\ ended' = [ended EXCEPT ![e] = Tail(@)]
      /\ UNCHANGED <<bare, of, rest, at, attempt, answer, lease, faults, lossy, before>>
  BY DEF Export
<1>2. TypeOK /\ Unasked(e) /\ Hand(e) /\ Book(e) /\ EventLast(e)
  BY DEF IInv, Book
<1>3. /\ ended' \in [Events -> Seq(Spans)]
      /\ \A q \in Events \ {e} : ended'[q] = ended[q]
      /\ x \in Spans
      /\ x = EventSpan => ended'[e] = <<>> /\ answer[e] \in {"ok", "error"}
      /\ \A y : Waits(y, e) => y = x \/ Waits(y, e)'
      /\ EventLast(e)'
  BY <1>1, <1>2, Popped
<1> HIDE DEF x
<1>4. /\ trace' \in [Events -> SUBSET Spans]
      /\ trace'[e] = trace[e] \cup {x}
      /\ \A q \in Events \ {e} : trace'[q] = trace[q]
  BY <1>1, <1>2, <1>3 DEF TypeOK
<1>5. EventSpan \notin trace[e]
  BY <1>1, <1>2 DEF Book
<1>6. TypeOK'
  BY <1>1, <1>2, <1>3, <1>4 DEF TypeOK
<1>7. Hand(e)' /\ Unasked(e)'
  BY <1>1, <1>2 DEF Hand, Idle, Unasked
<1>8. Book(e)'
  <2>1. EventSpan \in trace'[e] => ended'[e] = <<>> /\ answer'[e] \in {"ok", "error"}
    BY <1>1, <1>3, <1>4, <1>5
  <2>2. Kept(e)'
    BY <1>1, <1>2, <1>3, <1>4 DEF Book, Kept
  <2> QED BY <1>3, <2>1, <2>2 DEF Book
<1>9. ASSUME e \in Replays PROVE Source(e)' /\ Override(e)'
  <2>1. Source(e) /\ Override(e)
    BY <1>9 DEF IInv
  <2>2. of[e] # None => of[e] \in Events
    BY <1>2 DEF TypeOK
  <2>3. \A q \in Events : EventSpan \in trace[q] => trace'[q] = trace[q]
    BY <1>4, <1>5
  <2>4. Source(e)'
    BY <1>1, <2>1, <2>2, <2>3 DEF Source
  <2>5. Override(e)'
    BY <1>1, <2>1 DEF Override
  <2> QED BY <2>4, <2>5
<1>10. \A q \in Events \ {e} : Same(q)
  BY <1>1, <1>3, <1>4 DEF Same
<1> QED BY <1>1, <1>2, <1>5, <1>6, <1>7, <1>8, <1>9, <1>10, Local

LEMMA DropIInv ==
  ASSUME IInv, NEW e \in Events, Drop(e)
  PROVE  IInv'
<1>1. /\ ended[e] # <<>>
      /\ ended' = [ended EXCEPT ![e] = Tail(@)]
      /\ lossy' = lossy \cup {e} /\ faults' \in 0 .. MaxFaults
      /\ UNCHANGED <<bare, of, rest, at, attempt, answer, trace, lease, before>>
  BY DEF Drop, Fault, IInv, TypeOK
<1>2. TypeOK /\ Unasked(e) /\ Hand(e) /\ Book(e) /\ EventLast(e)
  BY DEF IInv, Book
<1>3. /\ ended' \in [Events -> Seq(Spans)]
      /\ \A q \in Events \ {e} : ended'[q] = ended[q]
      /\ EventLast(e)'
  BY <1>1, <1>2, Popped
<1>4. TypeOK'
  BY <1>1, <1>2, <1>3 DEF TypeOK
<1>5. Hand(e)' /\ Unasked(e)'
  BY <1>1, <1>2 DEF Hand, Idle, Unasked
<1>6. Book(e)'
  BY <1>1, <1>2, <1>3 DEF Book, Kept
<1>7. ASSUME e \in Replays PROVE Source(e)' /\ Override(e)'
  BY <1>1, <1>7 DEF IInv, Source, Override
<1>8. \A q \in Events \ {e} : Same(q)
  BY <1>1, <1>3 DEF Same
<1> QED BY <1>1, <1>4, <1>5, <1>6, <1>7, <1>8, Local

LEMMA CrashIInv ==
  ASSUME IInv, NEW e \in Events, Crash(e)
  PROVE  IInv'
<1>1. /\ (of[e] # None /\ answer[e] = "none") \/ ended[e] # <<>>
      /\ answer' = [answer EXCEPT ![e] = IF @ = "none" THEN "dead" ELSE @]
      /\ at' = [at EXCEPT ![e] =
                  [t \in Targets |-> IF @[t] \in InHand THEN "cut" ELSE @[t]]]
      /\ ended' = [ended EXCEPT ![e] = <<>>] /\ faults' \in 0 .. MaxFaults
      /\ UNCHANGED <<bare, of, rest, attempt, trace, lease, lossy, before>>
  BY DEF Crash, Working, Fault, IInv, TypeOK
<1>2. TypeOK /\ Unasked(e) /\ Hand(e) /\ Book(e) /\ of[e] # None
  BY <1>1 DEF IInv, Unasked
<1>3. /\ at' \in [Events -> [Targets -> Places]]
      /\ \A q \in Events \ {e} : at'[q] = at[q]
      /\ \A t \in Targets : at'[e][t] = IF at[e][t] \in InHand THEN "cut" ELSE at[e][t]
  BY <1>1, <1>2 DEF TypeOK, Places
<1>4. /\ answer' \in [Events -> {"none", "ok", "error", "dead"}]
      /\ ended' \in [Events -> Seq(Spans)]
      /\ \A q \in Events \ {e} : answer'[q] = answer[q] /\ ended'[q] = ended[q]
      /\ answer'[e] = IF answer[e] = "none" THEN "dead" ELSE answer[e]
      /\ ended'[e] = <<>>
  BY <1>1, <1>2 DEF TypeOK
<1>5. TypeOK'
  BY <1>1, <1>2, <1>3, <1>4 DEF TypeOK, Places
<1>6. Hand(e)'
  <2>1. \A t \in Targets : at'[e][t] \notin InHand
    BY <1>3 DEF InHand
  <2>2. \A t \in Targets : at[e][t] \in InHand => answer[e] = "none"
    BY <1>2 DEF Hand, Idle
  <2> QED BY <1>2, <1>3, <1>4, <2>1, <2>2 DEF Hand, Idle
<1>7. Book(e)'
  <2>1. EventSpan \notin trace[e]
    BY <1>1, <1>2 DEF Book
  <2> QED BY <1>1, <1>2, <1>4, <2>1 DEF Book, EventLast, Kept
<1>8. ASSUME e \in Replays PROVE Source(e)' /\ Override(e)'
  <2>1. Source(e) /\ Override(e) /\ before[e] \subseteq Events
    BY <1>2, <1>8 DEF IInv, TypeOK
  <2>2. \A t \in Targets : at'[e][t] = "none" <=> at[e][t] = "none"
    BY <1>3 DEF InHand
  <2>3. Source(e)'
    <3>1. trace[of[e]] \ {EventSpan} \subseteq Targets
      BY <1>2 DEF TypeOK, Spans
    <3>2. /\ of'[e] = of[e] /\ trace' = trace /\ rest'[e] = rest[e]
          /\ answer'[e] \in {"none", "ok"} => answer'[e] = answer[e]
          /\ answer[e] # "none" => answer'[e] = answer[e]
      BY <1>1, <1>4
    <3> QED BY <2>1, <2>2, <3>1, <3>2 DEF Source
  <2>4. \A t \in Targets : at'[e][t] # "acquire"
    BY <1>3 DEF InHand
  <2>5. \A q \in Events : answer[q] # "none" => answer'[q] # "none"
    BY <1>4
  <2>6. Override(e)'
    BY <1>1, <2>1, <2>4, <2>5 DEF Override
  <2> QED BY <2>3, <2>6
<1>9. Unasked(e)' /\ \A q \in Events \ {e} : Same(q)
  BY <1>1, <1>2, <1>3, <1>4 DEF Unasked, Same
<1> QED BY <1>1, <1>2, <1>4, <1>5, <1>6, <1>7, <1>8, <1>9, Local

LEMMA LeaseIInv ==
  ASSUME IInv, NEW t \in Targets, Expire(t) \/ Preempt(t)
  PROVE  IInv'
<1>1. /\ UNCHANGED <<bare, of, rest, at, attempt, answer, ended, trace, lossy, before>>
      /\ faults' \in 0 .. MaxFaults
      /\ \/ lease' = [lease EXCEPT ![t].fresh = FALSE]
         \/ lease' = [lease EXCEPT ![t] = [holder |-> None, fresh |-> TRUE, count |-> 0]]
  BY DEF Expire, Preempt, Fault, IInv, TypeOK
<1>2. lease' \in [Targets -> Lease]
  <2>1. lease \in [Targets -> Lease] /\ lease[t] \in Lease
    BY DEF IInv, TypeOK
  <2>2. /\ [lease[t] EXCEPT !.fresh = FALSE] \in Lease
        /\ [holder |-> None, fresh |-> TRUE, count |-> 0] \in Lease
    BY <2>1 DEF Lease
  <2>3. CASE lease' = [lease EXCEPT ![t].fresh = FALSE]
    BY <2>1, <2>2, <2>3
  <2>4. CASE lease' = [lease EXCEPT ![t] = [holder |-> None, fresh |-> TRUE, count |-> 0]]
    BY <2>1, <2>2, <2>4
  <2> QED BY <1>1, <2>3, <2>4
<1>3. TypeOK'
  BY <1>1, <1>2 DEF IInv, TypeOK
<1>4. \A u \in Targets : \/ ~lease'[u].fresh \/ lease'[u] = lease[u]
                         \/ lease'[u].holder = None
  BY <1>1 DEF IInv, TypeOK, Lease
<1> QED BY <1>1, <1>3, <1>4, LeaseOnly

LEMMA NextIInv == IInv /\ [Next]_vars => IInv'
<1> SUFFICES ASSUME IInv, [Next]_vars PROVE IInv'
  OBVIOUS
<1>1. CASE UNCHANGED vars
  <2>1. UNCHANGED <<bare, of, rest, at, attempt, answer, ended, trace, lossy, before, lease>>
    BY <1>1 DEF vars
  <2>2. TypeOK'
    BY <1>1 DEF vars, IInv, TypeOK
  <2> QED BY <2>1, <2>2, LeaseOnly
<1>2. Replays \subseteq Events
  BY DEF Events
<1> QED
  BY <1>1, <1>2, AcquireIInv, StreamsIInv, FailsIInv, AskIInv, CheckIInv, TakeIInv,
     ReturnIInv, ExportIInv, DropIInv, CrashIInv, LeaseIInv
  DEF Next, Over

LEMMA Invariant == Spec => []IInv
BY InitIInv, NextIInv, PTL DEF Spec

(***************************************************************************)
(* The theorems.                                                           *)
(***************************************************************************)
\* Every variable keeps its type; no attempt exceeds the limit on replays.
THEOREM TypeCorrect == Spec => []TypeOK
<1>1. IInv => TypeOK
  BY DEF IInv
<1> QED BY <1>1, Invariant, PTL

\* A replay that answers without an error has streamed or skipped all that
\* the replayed event processed, unless the exporter lost a span of it.
THEOREM ReplaysCover == Spec => []AnswerCovers
<1>1. IInv => AnswerCovers
  <2> SUFFICES ASSUME IInv, NEW r \in Replays, NEW t \in Targets,
                      Asked(r), answer[r] = "ok", of[r] \notin lossy,
                      at[of[r]][t] \in {"streamed", "failed"}
               PROVE  at[r][t] \in {"streamed", "skipped"}
    BY DEF AnswerCovers
  <2>1. /\ r \in Events /\ of[r] \in Events /\ TypeOK
        /\ Source(r) /\ Hand(r) /\ Book(of[r])
    BY DEF IInv, TypeOK, Asked, Events
  <2>2. EventSpan \in trace[of[r]] /\ rest[r] = {}
    BY <2>1 DEF Source, Asked
  <2>3. t \in trace[of[r]]
    <3>1. ended[of[r]] = <<>>
      BY <2>1, <2>2 DEF Book
    <3>2. ~Waits(t, of[r])
      BY <3>1 DEF Waits
    <3> QED BY <2>1, <2>2, <3>2 DEF Book, Kept
  <2>4. at[r][t] # "none"
    BY <2>1, <2>2, <2>3 DEF Source, Asked
  <2>5. at[r][t] \notin InHand /\ at[r][t] \notin {"cut", "failed", "refused", "unread"}
    BY <2>1 DEF Hand, Idle
  <2> QED BY <2>1, <2>4, <2>5 DEF TypeOK
<1> QED BY <1>1, Invariant, PTL

\* A replay works only from an event that was over, and not cut short.
THEOREM ReplaysEnded == Spec => []ReplaysWhatEnded
<1>1. IInv => ReplaysWhatEnded
  <2> SUFFICES ASSUME IInv, NEW r \in Replays, NEW t \in Targets,
                      t \in rest[r] \/ at[r][t] # "none"
               PROVE  answer[of[r]] \in {"ok", "error"}
    BY DEF ReplaysWhatEnded
  <2>1. r \in Events /\ Unasked(r) /\ Source(r) /\ TypeOK
    BY DEF IInv, Events
  <2>2. of[r] # None /\ of[r] \in Events
    BY <2>1 DEF Unasked, TypeOK
  <2>3. EventSpan \in trace[of[r]]
    BY <2>1, <2>2 DEF Source
  <2> QED BY <2>2, <2>3 DEF IInv, Book
<1> QED BY <1>1, Invariant, PTL

\* The first failure ends a replay, and touches none of the other targets.
THEOREM FailureIsLast == Spec => []FailureSparesTheRest
<1>1. IInv => FailureSparesTheRest
  BY DEF IInv, Hand, Events, FailureSparesTheRest
<1> QED BY <1>1, Invariant, PTL

\* A replay overrides an active lease only of an event it ran beside.
THEOREM OverridesConcurrent == Spec => OverridesOnlyConcurrent
<1> DEFINE A == \A r \in Replays, t \in Targets :
                  at[r][t] = "acquire" /\ at'[r][t] = "run" /\ lease[t].fresh =>
                     lease[t].holder \notin before[r]
<1>1. IInv /\ [Next]_vars => [A]_vars
  BY DEF IInv, Override
<1> QED BY <1>1, Invariant, PTL DEF Spec, OverridesOnlyConcurrent
=============================================================================
