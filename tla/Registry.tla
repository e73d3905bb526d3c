------------------------------ MODULE Registry ------------------------------
(***************************************************************************)
(* A tenant's source targets from their registration to the renderer: Put  *)
(* of internal/source and internal/k8s writes them to ConfigMaps, a push   *)
(* to a branch selects some of them, and what the branch holds below their *)
(* path is streamed.                                                       *)
(*                                                                         *)
(* A delivery may arrive after later pushes, in any order.  The handler    *)
(* and the runs it starts are one step here: their interleavings are       *)
(* Dispatch's and Pipeline's.  What they leave on a ConfigMap, a lease,    *)
(* meets the separate API calls of a Put.                                  *)
(*                                                                         *)
(* Of the three triggers two read the ConfigMaps and are here: a push and  *)
(* a manual retrieval.  A replay works from the spans of an earlier event  *)
(* and is Pipeline's and ReplayLoop's.  Credentials are Pipeline's too:    *)
(* here a run that cannot clone is one of those that fail.                 *)
(***************************************************************************)
EXTENDS Integers, FiniteSets, Selection

CONSTANTS
  Names,           \* names of ConfigMaps
  Files,           \* files a repository may have
  Branches,        \* records [repo, ref]
  Registrations,   \* targets that may be registered, each on a branch
  MaxPushes,       \* bound: pushes
  MaxEdits,        \* bound: puts, retrievals and the tenant's own changes
  MaxFaults        \* bound: failed calls

ASSUME RegistryAssumption ==
  /\ \A t \in Registrations : [repo |-> t.repo, ref |-> t.ref] \in Branches
  /\ {MaxPushes, MaxEdits, MaxFaults} \subseteq Nat

\* What the types of the code say of a target; names of files are relative.
ASSUME ShapeAssumption ==
  /\ \A t \in Registrations :
        /\ t = [repo |-> t.repo, ref |-> t.ref, path |-> t.path,
                overrides |-> t.overrides, secret |-> t.secret]
        /\ t.path \in Seq(STRING)
  /\ Files \subseteq Seq(STRING)

\* Data that is no target's: the path is missing.
Pathless == [repo_url |-> "r", ref |-> "main"]

\* The ConfigMaps there may be: of their annotations, the secret and the lease.
Objects ==
  [labelled : BOOLEAN,
   data     : {MarshalData(t) : t \in Registrations} \cup {Pathless},
   secret   : {t.secret : t \in Registrations} \cup {None},
   lease    : Nat, rv : Nat]

\* What stands for the absence of a value is no value.
ASSUME AbsenceAssumption ==
  /\ None \notin Objects
  /\ \A t \in Registrations :
        /\ t # None /\ t # Error
        /\ Error # [repo |-> t.repo, ref |-> t.ref, path |-> t.path,
                    overrides |-> t.overrides]

VARIABLES
  objs,         \* objs[n]: the ConfigMap n, or None
  version,      \* the API server's counter of writes
  put,          \* the Put under way
  tree,         \* tree[b][f]: the push that wrote f, 0 if absent
  inbox,        \* push events not yet delivered
  counts,       \* what is bounded
  streamed,     \* streamed[n]: last content streamed as n is registered
  registered,   \* history: registered[n], target of the last Put, or None
  missed        \* history: targets for which a delivery or a run failed

vars == <<objs, version, put, tree, inbox, counts, streamed,
          registered, missed>>

Paths == {t.path : t \in Registrations}

NoPut == [pc |-> "idle"]

TypeOK ==
  /\ \A n \in Names : objs[n] # None =>
        /\ objs[n].labelled \in BOOLEAN
        /\ objs[n].rv \in 1 .. version /\ objs[n].lease \in 0 .. objs[n].rv
        /\ "path" \in DOMAIN objs[n].data => objs[n].data.path \in Paths
  /\ put.pc \in {"idle", "again", "write", "create"}
  /\ tree \in [Branches -> [Files -> 0 .. MaxPushes]]
  /\ \A n \in Names : streamed[n] # None =>
        /\ streamed[n].target \in Registrations
        /\ streamed[n].renderer \in {"helm", "kustomize", "plain"}
        /\ DOMAIN streamed[n].files \subseteq Files
  /\ \A n \in Names : registered[n] \in Registrations \cup {None}
  /\ missed \subseteq Names

Init ==
  /\ objs = [n \in Names |-> None]
  /\ version = 0
  /\ put = NoPut
  /\ tree = [b \in Branches |-> [f \in Files |-> 0]]
  /\ inbox = {}
  /\ counts = [pushes |-> 0, edits |-> 0, faults |-> 0]
  /\ streamed = [n \in Names |-> None]
  /\ registered = [n \in Names |-> None]
  /\ missed = {}

(***************************************************************************)
(* Helpers.                                                                *)
(***************************************************************************)
Spend(what, max) ==
  counts[what] < max /\ counts' = [counts EXCEPT ![what] = @ + 1]

\* n is written, or deleted, with another registration r.
Write(n, o, r) ==
  /\ objs' = [objs EXCEPT ![n] = o]
  /\ version' = version + 1
  /\ registered' = [registered EXCEPT ![n] = r]
  /\ streamed' = [streamed EXCEPT ![n] = None]
  /\ missed' = missed \ {n}

NothingWritten == UNCHANGED <<objs, version, registered, streamed, missed>>

(***************************************************************************)
(* source.Put: Get, then the store's Put: Get again, Update or Create.     *)
(***************************************************************************)
\* Mutant: the annotations are made anew.
KeptNothing(n) == 0

\* The lease among the annotations that Put keeps.
Kept(n) == objs[n].lease

\* After any error of Get the object is thought to be new.
PutGet(n, t) ==
  /\ put.pc = "idle"
  /\ \/ /\ objs[n] # None
        /\ put' = [pc |-> "again", name |-> n, target |-> t, lease |-> Kept(n),
                   seen |-> objs[n].rv, rv |-> 0]
        /\ Spend("edits", MaxEdits)
     \/ /\ counts.edits < MaxEdits
        /\ \/ objs[n] = None /\ Spend("edits", MaxEdits)
           \/ objs[n] # None /\ Spend("faults", MaxFaults)
        /\ put' = [pc |-> "again", name |-> n, target |-> t, lease |-> 0,
                   seen |-> 0, rv |-> 0]
  /\ NothingWritten /\ UNCHANGED <<tree, inbox>>

PutGetAgain ==
  /\ put.pc = "again"
  /\ \/ /\ objs[put.name] # None
        /\ put' = [put EXCEPT !.pc = "write", !.rv = objs[put.name].rv]
        /\ UNCHANGED counts
     \/ /\ IF objs[put.name] = None THEN UNCHANGED counts
           ELSE Spend("faults", MaxFaults)
        /\ put' = [put EXCEPT !.pc = "create"]
  /\ NothingWritten /\ UNCHANGED <<tree, inbox>>

\* The object a Put writes: data, label, secret, and the annotations kept.
PutObject == [labelled |-> TRUE, data |-> MarshalData(put.target),
              secret |-> put.target.secret, lease |-> put.lease,
              rv |-> version + 1]

\* The Update is accepted for the version of the second Get; the Create if
\* there is no object and the first Get did not find one either, as a
\* created object may not carry a version.
Accepted == IF put.pc = "write"
            THEN objs[put.name] # None /\ objs[put.name].rv = put.rv
            ELSE objs[put.name] = None /\ put.seen = 0

PutWrite ==
  /\ put.pc \in {"write", "create"}
  /\ put' = NoPut
  /\ IF Accepted THEN Write(put.name, PutObject, put.target) ELSE NothingWritten
  /\ UNCHANGED <<tree, inbox, counts>>

\* The tenant writes a labelled ConfigMap without a path, or deletes one.
Spoil(n) ==
  /\ Spend("edits", MaxEdits)
  /\ Write(n, [labelled |-> TRUE, data |-> Pathless, secret |-> None, lease |-> 0,
               rv |-> version + 1], None)
  /\ UNCHANGED <<put, tree, inbox>>

Delete(n) ==
  /\ objs[n] # None /\ Spend("edits", MaxEdits)
  /\ Write(n, None, None)
  /\ UNCHANGED <<put, tree, inbox>>

(***************************************************************************)
(* Pushes and runs.                                                        *)
(***************************************************************************)
Commit(tr, f, keep) ==
  [added    |-> IF keep /\ tr[f] = 0 THEN {f} ELSE {},
   modified |-> IF keep /\ tr[f] # 0 THEN {f} ELSE {},
   removed  |-> IF keep THEN {} ELSE {f}]

\* Two commits to branch b, each of one file written or removed; the second
\* may undo the first.
Push(b) ==
  /\ Spend("pushes", MaxPushes)
  /\ \E f, g \in Files, k, l \in BOOLEAN :
        LET one == [tree[b] EXCEPT ![f] = IF k THEN counts.pushes + 1 ELSE 0]
            two == [one EXCEPT ![g] = IF l THEN counts.pushes + 1 ELSE 0]
        IN /\ f # g \/ k # l
           /\ k \/ tree[b][f] # 0
           /\ l \/ one[g] # 0
           /\ tree' = [tree EXCEPT ![b] = two]
           /\ inbox' = inbox \cup
                {[id |-> counts.pushes, repo |-> b.repo, ref |-> b.ref,
                  commits |-> <<Commit(tree[b], f, k), Commit(one, g, l)>>]}
  /\ NothingWritten /\ UNCHANGED <<put>>

\* What target t names on its branch now.
Present(t) ==
  LET tr == tree[[repo |-> t.repo, ref |-> t.ref]]
  IN {f \in Files : tr[f] # 0 /\ Below(t.path, f)}

\* The walk of t's path finds nothing; the root is always there.
Missing(t) == Present(t) = {} /\ Clean(t.path) # <<>>

\* What a run of target t streams.
Content(t) ==
  LET tr == tree[[repo |-> t.repo, ref |-> t.ref]]
  IN [target   |-> t,
      renderer |-> Detect({f \in Files : tr[f] # 0}, t.path),
      files    |-> [f \in Present(t) |->
                      [name |-> EntryName(t.path, f), push |-> tr[f]]]]

\* Runs of the targets in ns: each takes its lease; all stream except those
\* in bad and those whose path names nothing, of which the walk fails.
Process(targets, ns, bad) ==
  LET fails == bad \cup {n \in ns : Missing(targets[n])}
  IN /\ objs' = [n \in Names |->
                   IF n \in ns
                   THEN [objs[n] EXCEPT !.lease = version + 1, !.rv = version + 1]
                   ELSE objs[n]]
     /\ version' = version + 1
     /\ streamed' = [n \in Names |-> IF n \in ns \ fails THEN Content(targets[n])
                                     ELSE streamed[n]]
     /\ missed' = (missed \ ns) \cup fails
     /\ UNCHANGED registered

\* ServeHTTP on a push event: no target is processed if the list fails.
Deliver(ev) ==
  LET targets == List(objs)
  IN /\ inbox' = inbox \ {ev}
     /\ \/ /\ targets = Error /\ missed' = Names
           /\ UNCHANGED <<objs, version, registered, streamed, counts>>
        \/ /\ targets # Error
           /\ \E bad \in SUBSET Match(targets, ev) :
                 /\ IF bad = {} THEN UNCHANGED counts
                    ELSE Spend("faults", MaxFaults)
                 /\ Process(targets, Match(targets, ev), bad)
     /\ UNCHANGED <<put, tree>>

\* A manual retrieval.
Retrieve(n) ==
  /\ objs[n] # None /\ TargetFromResource(objs[n]) # Error
  /\ Spend("edits", MaxEdits)
  /\ Process([m \in {n} |-> TargetFromResource(objs[n])], {n}, {})
  /\ UNCHANGED <<put, tree, inbox>>

\* The bounds are spent.
Over ==
  /\ counts.pushes = MaxPushes /\ counts.edits = MaxEdits
  /\ inbox = {} /\ put = NoPut
  /\ UNCHANGED vars

Next ==
  \/ Over
  \/ \E n \in Names, t \in Registrations : PutGet(n, t)
  \/ PutGetAgain \/ PutWrite
  \/ \E n \in Names : Spoil(n) \/ Delete(n) \/ Retrieve(n)
  \/ \E b \in Branches : Push(b)
  \/ \E ev \in inbox : Deliver(ev)

Spec == Init /\ [][Next]_vars

(***************************************************************************)
(* Properties.                                                             *)
(***************************************************************************)
\* A path as it is written in the names of files: clean, or a directory with
\* one slash behind it.
WellNamed(path) ==
  \/ path = Clean(path)
  \/ /\ path # <<>> /\ Last(path) = "/"
     /\ Front(path) = Clean(path)
     /\ Clean(path) \notin Files \cup {<<>>}

\* Whoever was streamed is up to date, in content and renderer, as long as
\* no push event under way touches a file below its path, no delivery was
\* refused and no run failed for it: the string prefix of match covers all
\* that a well named path holds.  Of another form of the same path (./a, /a,
\* a//, a lone dot or slash) match misses the pushes, and the property
\* claims nothing.
Touches(ev, t) ==
  /\ ev.repo = t.repo /\ ev.ref = t.ref
  /\ \E c \in Range(ev.commits) :
        \E f \in c.added \cup c.modified \cup c.removed : Below(t.path, f)

NoChangeIsMissed ==
  \A n \in Names : streamed[n] # None /\ n \notin missed =>
     LET t == streamed[n].target
     IN WellNamed(t.path) => \/ \E ev \in inbox : Touches(ev, t)
                             \/ streamed[n] = Content(t)

\* A target reads back as it was put, whatever leases runs have written to
\* its ConfigMap since, until the tenant changes it.
PutReadsBack ==
  \A n \in Names : registered[n] # None =>
     objs[n] # None /\ TargetFromResource(objs[n]) = registered[n]

\* A Put takes a lease off its ConfigMap only if its first Get failed or the
\* lease was written between its two Gets.
LeaseLostOnlyBetweenGets ==
  [][put # NoPut /\ put' = NoPut =>
        \A n \in Names :
           objs[n] # None /\ objs'[n] # None /\ objs'[n].lease < objs[n].lease =>
              put.seen = 0 \/ put.seen # put.rv]_vars
=============================================================================
