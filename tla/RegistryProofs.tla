--------------------------- MODULE RegistryProofs ---------------------------
(***************************************************************************)
(* What holds of a tenant's source targets for any names, registrations    *)
(* and files and any number of pushes and edits.                           *)
(***************************************************************************)
EXTENDS Registry, SequenceTheorems, TLAPS

(***************************************************************************)
(* Targets and the ConfigMaps that hold them.                              *)
(***************************************************************************)
\* A target is what its ConfigMap describes.
LEMMA RoundTrip ==
  ASSUME NEW t \in Registrations, NEW o, o.data = MarshalData(t), o.secret = t.secret
  PROVE  TargetFromResource(o) = t
<1> DEFINE u == [repo |-> t.repo, ref |-> t.ref, path |-> t.path,
                 overrides |-> t.overrides]
<1>1. u # Error /\ t = [repo |-> t.repo, ref |-> t.ref, path |-> t.path,
                        overrides |-> t.overrides, secret |-> t.secret]
  BY AbsenceAssumption, ShapeAssumption
<1>2. TargetFromResourceData(MarshalData(t)) = u
  BY DEF MarshalData, TargetFromResourceData, Keys
<1> QED BY <1>1, <1>2 DEF TargetFromResource

\* Without a path there is no target.
LEMMA NoTarget ==
  ASSUME NEW o, o.data = Pathless
  PROVE  TargetFromResource(o) = Error
BY DEF Pathless, TargetFromResource, TargetFromResourceData, Keys

(***************************************************************************)
(* Paths.                                                                  *)
(***************************************************************************)
\* What paths consist of; the provers do not know that a literal is a STRING.
Chars == STRING \cup {"/", "Chart.yaml", "kustomization.yaml",
                      "kustomization.yml", "Kustomization"}

LEMMA Shape ==
  /\ \A t \in Registrations : t.path \in Seq(Chars)
  /\ Files \subseteq Seq(Chars)
  /\ "/" \in Chars /\ "Chart.yaml" \in Chars /\ "kustomization.yaml" \in Chars
  /\ "kustomization.yml" \in Chars /\ "Kustomization" \in Chars
<1> STRING \subseteq Chars
  BY DEF Chars
<1>1. \A t \in Registrations : t.path \in Seq(Chars)
  BY ShapeAssumption, SeqMonotonic
<1>2. Files \subseteq Seq(Chars)
  BY ShapeAssumption, SeqMonotonic
<1>3. /\ "/" \in Chars /\ "Chart.yaml" \in Chars /\ "kustomization.yaml" \in Chars
      /\ "kustomization.yml" \in Chars /\ "Kustomization" \in Chars
  BY DEF Chars
<1> QED BY <1>1, <1>2, <1>3

LEMMA Prefix ==
  ASSUME NEW p \in Seq(Chars), NEW s \in Seq(Chars)
  PROVE  HasPrefix(s, p) <=> /\ Len(p) <= Len(s)
                             /\ \A i \in 1 .. Len(p) : p[i] = s[i]
<1>1. Len(p) \in Nat /\ Len(s) \in Nat /\ SubSeq(p, 1, Len(p)) = p
  BY LenProperties, SubSeqFull
<1>2. ASSUME Len(p) <= Len(s)
      PROVE  /\ SubSeq(s, 1, Len(p)) \in Seq(Chars)
             /\ Len(SubSeq(s, 1, Len(p))) = Len(p)
             /\ \A i \in 1 .. Len(p) : SubSeq(s, 1, Len(p))[i] = s[i]
  <2>1. \A i \in 1 .. Len(p) : s[i] \in Chars
    BY <1>1, <1>2, ElementOfSeq
  <2>2. /\ SubSeq(s, 1, Len(p)) \in Seq(Chars)
        /\ Len(SubSeq(s, 1, Len(p))) = IF 1 <= Len(p) THEN Len(p) - 1 + 1 ELSE 0
        /\ \A i \in 1 .. Len(p) - 1 + 1 : SubSeq(s, 1, Len(p))[i] = s[1 + i - 1]
    BY <1>1, <2>1, SubSeqProperties
  <2> QED BY <1>1, <2>2
<1>3. ASSUME Len(p) <= Len(s), \A i \in 1 .. Len(p) : p[i] = s[i]
      PROVE  SubSeq(s, 1, Len(p)) = p
  BY <1>2, <1>3, SeqEqual
<1>4. ASSUME Len(p) <= Len(s), SubSeq(s, 1, Len(p)) = p
      PROVE  \A i \in 1 .. Len(p) : p[i] = s[i]
  BY <1>2, <1>4
<1> QED BY <1>1, <1>3, <1>4 DEF HasPrefix, IsPrefix

\* A prefix of a prefix is one.
LEMMA PrefixTransitive ==
  ASSUME NEW p \in Seq(Chars), NEW s \in Seq(Chars), NEW u \in Seq(Chars),
         HasPrefix(s, p), HasPrefix(u, s)
  PROVE  HasPrefix(u, p)
<1>1. Len(p) \in Nat /\ Len(s) \in Nat /\ Len(u) \in Nat
  BY LenProperties
<1>2. /\ Len(p) <= Len(s) /\ \A i \in 1 .. Len(p) : p[i] = s[i]
      /\ Len(s) <= Len(u) /\ \A i \in 1 .. Len(s) : s[i] = u[i]
  BY Prefix
<1>3. Len(p) <= Len(u) /\ \A i \in 1 .. Len(p) : p[i] = u[i]
  BY <1>1, <1>2
<1> QED BY <1>3, Prefix

\* What is behind a sequence does not matter.
LEMMA PrefixOfConcat ==
  ASSUME NEW p \in Seq(Chars), NEW s \in Seq(Chars)
  PROVE  p \o s \in Seq(Chars) /\ HasPrefix(p \o s, p)
<1>1. /\ Len(p) \in Nat /\ Len(s) \in Nat /\ p \o s \in Seq(Chars)
      /\ Len(p \o s) = Len(p) + Len(s)
      /\ \A i \in 1 .. Len(p) + Len(s) :
            (p \o s)[i] = IF i <= Len(p) THEN p[i] ELSE s[i - Len(p)]
  BY LenProperties, ConcatProperties
<1>2. Len(p) <= Len(p \o s) /\ \A i \in 1 .. Len(p) : p[i] = (p \o s)[i]
  BY <1>1
<1> DEFINE u == p \o s
<1> HIDE DEF u
<1>3. u \in Seq(Chars) /\ Len(p) <= Len(u) /\ \A i \in 1 .. Len(p) : p[i] = u[i]
  BY <1>1, <1>2 DEF u
<1>4. HasPrefix(u, p)
  BY <1>3, Prefix
<1> QED BY <1>1, <1>4 DEF u

LEMMA PrefixSelf ==
  ASSUME NEW p \in Seq(Chars)
  PROVE  HasPrefix(p, p) /\ HasPrefix(p, <<>>)
<1>1. Len(p) \in Nat /\ <<>> \in Seq(Chars) /\ Len(<<>>) = 0
  BY LenProperties, EmptySeq
<1>2. HasPrefix(p, p)
  BY <1>1, Prefix
<1>3. HasPrefix(p, <<>>)
  <2> DEFINE e == <<>>
  <2>1. e \in Seq(Chars) /\ Len(e) = 0 /\ Len(p) \in Nat
    BY <1>1
  <2> HIDE DEF e
  <2>2. Len(e) <= Len(p) /\ \A i \in 1 .. Len(e) : e[i] = p[i]
    BY <2>1
  <2>3. HasPrefix(p, e)
    BY <2>1, <2>2, Prefix
  <2> QED BY <2>3 DEF e
<1> QED BY <1>2, <1>3

\* A path in the form of the names of files is clean but for a slash behind it.
LEMMA Cleaned ==
  ASSUME NEW dir \in Seq(Chars), WellNamed(dir)
  PROVE  /\ Clean(dir) \in Seq(Chars)
         /\ \/ Clean(dir) = dir
            \/ dir = Clean(dir) \o <<"/">> /\ Clean(dir) \notin Files \cup {<<>>}
<1>1. CASE dir = Clean(dir)
  BY <1>1
<1>2. CASE /\ dir # <<>> /\ Last(dir) = "/" /\ Front(dir) = Clean(dir)
           /\ Clean(dir) \notin Files \cup {<<>>}
  <2>1. PICK s \in Seq(Chars), c \in Chars : dir = Append(s, c)
    BY <1>2, SequenceEmptyOrAppend
  <2>2. /\ Len(s) \in Nat /\ Len(dir) = Len(s) + 1 /\ dir[Len(s) + 1] = c
        /\ \A i \in 1 .. Len(s) : dir[i] = s[i]
    BY <2>1, AppendProperties, LenProperties
  <2>3. c = "/" /\ dir = s \o <<"/">>
    BY <1>2, <2>1, <2>2, AppendIsConcat DEF Last
  <2>4. Front(dir) = s
    <3>1. \A i \in 1 .. Len(s) : dir[i] \in Chars
      BY <2>2, ElementOfSeq
    <3>2. /\ SubSeq(dir, 1, Len(s)) \in Seq(Chars)
          /\ Len(SubSeq(dir, 1, Len(s))) = IF 1 <= Len(s) THEN Len(s) - 1 + 1 ELSE 0
          /\ \A i \in 1 .. Len(s) - 1 + 1 : SubSeq(dir, 1, Len(s))[i] = dir[1 + i - 1]
      BY <2>2, <3>1, SubSeqProperties
    <3>3. /\ Len(SubSeq(dir, 1, Len(s))) = Len(s)
          /\ \A i \in 1 .. Len(s) : SubSeq(dir, 1, Len(s))[i] = s[i]
      BY <2>2, <3>2
    <3>4. SubSeq(dir, 1, Len(s)) = s
      BY <3>2, <3>3, SeqEqual
    <3> QED BY <2>2, <3>4 DEF Front
  <2> QED BY <1>2, <2>3, <2>4
<1> QED BY <1>1, <1>2 DEF WellNamed

LEMMA Two ==
  ASSUME NEW S, NEW a \in S, NEW b \in S
  PROVE  <<a>> \o <<b>> = <<a, b>>
<1>1. /\ <<a>> \in Seq(S) /\ Len(<<a>>) = 1 /\ <<a>>[1] = a
      /\ <<b>> \in Seq(S) /\ Len(<<b>>) = 1 /\ <<b>>[1] = b
      /\ <<a, b>> \in Seq(S) /\ Len(<<a, b>>) = 2
      /\ <<a, b>>[1] = a /\ <<a, b>>[2] = b
  OBVIOUS
<1>2. /\ <<a>> \o <<b>> \in Seq(S) /\ Len(<<a>> \o <<b>>) = 2
      /\ (<<a>> \o <<b>>)[1] = a /\ (<<a>> \o <<b>>)[2] = b
  BY <1>1, ConcatProperties
<1>3. \A i \in 1 .. 2 : i = 1 \/ i = 2
  OBVIOUS
<1> QED BY <1>1, <1>2, <1>3, SeqEqual

\* The marker of a renderer is below the directory it marks.
LEMMA MarkerBelow ==
  ASSUME NEW dir \in Seq(Chars), WellNamed(dir), NEW name \in Chars
  PROVE  Below(dir, Join(dir, name))
<1>1. CASE Clean(dir) = <<>>
  BY <1>1 DEF Below
<1>2. CASE Clean(dir) # <<>>
  <2> DEFINE c == Clean(dir)
  <2>1. c \in Seq(Chars) /\ <<"/">> \in Seq(Chars) /\ <<name>> \in Seq(Chars)
    BY Cleaned, Shape
  <2> HIDE DEF c
  <2>2. c \o <<"/">> \in Seq(Chars)
    BY <2>1, ConcatProperties
  <2>3. <<"/">> \o <<name>> = <<"/", name>>
    BY Two, Shape
  <2>4. c \o <<"/", name>> = (c \o <<"/">>) \o <<name>>
    BY <2>1, <2>3, ConcatAssociative
  <2>5. HasPrefix(c \o <<"/", name>>, c \o <<"/">>)
    BY <2>1, <2>2, <2>4, PrefixOfConcat
  <2> QED BY <1>2, <2>5 DEF c, Below, Join
<1> QED BY <1>1, <1>2

\* The prefix that match looks for covers what is below a path.
LEMMA PathCovers ==
  ASSUME NEW t \in Registrations, WellNamed(t.path), NEW f \in Files, Below(t.path, f)
  PROVE  HasPrefix(f, t.path)
<1> DEFINE p == t.path
           c == Clean(t.path)
<1>1. /\ p \in Seq(Chars) /\ f \in Seq(Chars) /\ c \in Seq(Chars)
      /\ c = p \/ p = c \o <<"/">>
  BY Cleaned, Shape
<1>2. \/ c = p
      \/ c \notin Files /\ c # <<>>
  BY Cleaned, Shape
<1>3. c = <<>> \/ c = f \/ HasPrefix(f, c \o <<"/">>)
  BY DEF Below
<1> HIDE DEF p, c
<1>4. c \o <<"/">> \in Seq(Chars) /\ HasPrefix(c \o <<"/">>, c)
  <2>1. <<"/">> \in Seq(Chars)
    BY Shape
  <2> QED BY <1>1, <2>1, PrefixOfConcat
<1>5. CASE c = p /\ c \in {<<>>, f}
  BY <1>1, <1>5, PrefixSelf DEF p
<1>6. CASE c = p /\ HasPrefix(f, c \o <<"/">>)
  BY <1>1, <1>4, <1>6, PrefixTransitive DEF p
<1>7. CASE p = c \o <<"/">> /\ HasPrefix(f, c \o <<"/">>)
  BY <1>7 DEF p
<1> QED BY <1>1, <1>2, <1>3, <1>5, <1>6, <1>7

(***************************************************************************)
(* What a run streams.                                                     *)
(***************************************************************************)
\* Only what is below a well named path decides what is streamed.
LEMMA ContentFromBelow ==
  ASSUME NEW t \in Registrations, WellNamed(t.path),
         \A f \in Files : Below(t.path, f) =>
            tree'[[repo |-> t.repo, ref |-> t.ref]][f] =
            tree[[repo |-> t.repo, ref |-> t.ref]][f]
  PROVE  Content(t)' = Content(t)
<1> DEFINE p  == t.path
           tr == tree[[repo |-> t.repo, ref |-> t.ref]]
           P  == {f \in Files : tr[f] # 0}
<1>1. \A m \in {"Chart.yaml", "kustomization.yaml", "kustomization.yml", "Kustomization"} :
         Below(p, Join(p, m))
  BY Shape, MarkerBelow
<1>2. \A m \in {"Chart.yaml", "kustomization.yaml", "kustomization.yml", "Kustomization"} :
         Join(p, m) \in P' <=> Join(p, m) \in P
  BY <1>1
<1>3. Detect(P', p) = Detect(P, p)
  BY <1>2 DEF Detect
<1> DEFINE B == {f \in Files : tr[f] # 0 /\ Below(p, f)}
<1>4. B' = B
  OBVIOUS
<1>5. \A f \in B : tr'[f] = tr[f]
  OBVIOUS
<1> DEFINE F == [f \in B |-> [name |-> EntryName(p, f), push |-> tr[f]]]
<1>6. F' = F
  BY <1>4, <1>5
<1>7. Content(t) = [target |-> t, renderer |-> Detect(P, p), files |-> F]
  BY DEF Content, Present
<1>8. Content(t)' = [target |-> t, renderer |-> Detect(P', p), files |-> F']
  BY DEF Content, Present
<1> QED BY <1>3, <1>6, <1>7, <1>8

(***************************************************************************)
(* The inductive invariant.                                                *)
(***************************************************************************)
Puts == [pc : {"again", "write", "create"}, name : Names, target : Registrations,
         lease : Nat, seen : Nat, rv : Nat]

Typed ==
  /\ objs \in [Names -> Objects \cup {None}]
  /\ version \in Nat
  /\ put \in Puts \cup {NoPut}
  /\ tree \in [Branches -> [Files -> 0 .. MaxPushes]]
  /\ counts \in [pushes : Nat, edits : Nat, faults : Nat]
  /\ streamed = [n \in Names |-> streamed[n]]
  /\ registered \in [Names -> Registrations \cup {None}]
  /\ missed \subseteq Names

\* Object o holds target t.
Holds(o, t) == o.data = MarshalData(t) /\ o.secret = t.secret

\* Whatever is in the cluster is a target, or has no path.
Stored(n) ==
  objs[n] # None =>
    /\ objs[n].labelled /\ objs[n].rv \in 1 .. version /\ objs[n].lease \in 0 .. objs[n].rv
    /\ \/ objs[n].data = Pathless
       \/ \E t \in Registrations : Holds(objs[n], t)

\* The lease that a Put kept is that of the version its first Get saw.
Keeps ==
  put # NoPut =>
    /\ put.lease <= version /\ put.seen <= version
    /\ put.seen # 0 /\ objs[put.name] # None /\ objs[put.name].rv = put.seen =>
          objs[put.name].lease = put.lease

\* What was put, and what was streamed, is what the ConfigMap holds.
Registered(n) ==
  registered[n] # None => objs[n] # None /\ Holds(objs[n], registered[n])

Streamed(n) ==
  streamed[n] # None =>
    /\ streamed[n].target \in Registrations
    /\ objs[n] # None /\ Holds(objs[n], streamed[n].target)
    /\ streamed[n].renderer \in {"helm", "kustomize", "plain"}
    /\ DOMAIN streamed[n].files \subseteq Files

\* It is what its path holds now, unless a push, or a failure, came between.
UpToDate(n) ==
  streamed[n] # None /\ n \notin missed =>
     LET t == streamed[n].target
     IN WellNamed(t.path) => \/ \E ev \in inbox : Touches(ev, t)
                             \/ streamed[n] = Content(t)

\* A push event speaks of files.
Announced == \A ev \in inbox : ChangedPaths(ev) \subseteq Files

IInv ==
  /\ Typed
  /\ Keeps
  /\ Announced
  /\ \A n \in Names : Stored(n) /\ Registered(n) /\ Streamed(n) /\ UpToDate(n)

LEMMA InitIInv == Init => IInv
<1> SUFFICES ASSUME Init PROVE IInv
  OBVIOUS
<1>1. Typed
  <2>1. tree \in [Branches -> [Files -> 0 .. MaxPushes]]
    BY RegistryAssumption DEF Init
  <2> QED BY <2>1 DEF Init, Typed
<1>2. Keeps /\ Announced
  BY DEF Init, Keeps, Announced
<1>3. ASSUME NEW n \in Names PROVE Stored(n) /\ Registered(n) /\ Streamed(n) /\ UpToDate(n)
  <2>1. objs[n] = None /\ streamed[n] = None /\ registered[n] = None
    BY <1>3 DEF Init
  <2> QED BY <2>1 DEF Stored, Registered, Streamed, UpToDate
<1> QED BY <1>1, <1>2, <1>3 DEF IInv

\* A step of a Put that writes nothing.
LEMMA QuietIInv ==
  ASSUME IInv, NothingWritten, UNCHANGED <<tree, inbox>>,
         counts' \in [pushes : Nat, edits : Nat, faults : Nat],
         put' \in Puts \cup {NoPut}, Keeps'
  PROVE  IInv'
<1>1. Typed' /\ Announced'
  BY DEF IInv, Typed, Announced, NothingWritten
<1>2. ASSUME NEW n \in Names PROVE Stored(n)' /\ Registered(n)' /\ Streamed(n)' /\ UpToDate(n)'
  <2>1. Stored(n)' /\ Registered(n)' /\ Streamed(n)'
    BY <1>2 DEF IInv, NothingWritten, Stored, Registered, Streamed
  <2>2. \A t : Content(t)' = Content(t)
    BY DEF Content, Present
  <2>3. UpToDate(n)'
    BY <1>2, <2>2 DEF IInv, NothingWritten, UpToDate
  <2> QED BY <2>1, <2>3
<1> QED BY <1>1, <1>2 DEF IInv

\* ConfigMap n is written or deleted.
LEMMA WriteIInv ==
  ASSUME IInv, NEW n \in Names, NEW o, NEW r, Write(n, o, r),
         UNCHANGED <<tree, inbox>>,
         counts' \in [pushes : Nat, edits : Nat, faults : Nat],
         put' \in {put, NoPut},
         \/ o = None /\ r = None
         \/ /\ o \in Objects /\ o.labelled
            /\ o.rv = version + 1 /\ o.lease <= version + 1
            /\ \/ o.data = Pathless /\ r = None
               \/ r \in Registrations /\ Holds(o, r)
  PROVE  IInv'
<1>1. Typed /\ Keeps /\ version \in Nat /\ None \notin Objects
  BY AbsenceAssumption DEF IInv, Typed
<1>2. /\ version' = version + 1
      /\ objs' \in [Names -> Objects \cup {None}]
      /\ objs'[n] = o /\ streamed'[n] = None /\ registered'[n] = r
      /\ \A m \in Names \ {n} : /\ objs'[m] = objs[m] /\ streamed'[m] = streamed[m]
                                /\ registered'[m] = registered[m]
                                /\ m \in missed' <=> m \in missed
  BY <1>1 DEF Typed, Write
<1>3. Typed'
  <2>1. /\ registered' \in [Names -> Registrations \cup {None}]
        /\ streamed' = [m \in Names |-> streamed'[m]]
        /\ missed' \subseteq Names
    BY <1>1 DEF Typed, Write
  <2> QED BY <1>1, <1>2, <2>1 DEF Typed
<1>4. Keeps'
  <2> SUFFICES ASSUME put' # NoPut PROVE Keeps'
    BY DEF Keeps
  <2>1. /\ put' = put /\ put \in Puts
        /\ put.lease <= version /\ put.seen <= version
        /\ put.seen # 0 /\ objs[put.name] # None /\ objs[put.name].rv = put.seen =>
              objs[put.name].lease = put.lease
    BY <1>1 DEF Keeps, Typed
  <2>2. put.name \in Names /\ put.lease \in Nat /\ put.seen \in Nat
    BY <2>1 DEF Puts
  <2>3. objs'[n] # None => objs'[n].rv = version + 1
    BY <1>1, <1>2
  <2> QED BY <1>1, <1>2, <2>1, <2>2, <2>3 DEF Keeps
<1>5. Stored(n)' /\ Registered(n)' /\ Streamed(n)' /\ UpToDate(n)'
  <2>1. Stored(n)'
    <3>1. CASE o = None
      BY <1>2, <3>1 DEF Stored
    <3>2. CASE o # None
      <4>1. o.lease \in Nat /\ o.rv \in 1 .. version'
        BY <1>1, <1>2, <3>2 DEF Objects
      <4> QED BY <1>1, <1>2, <3>2, <4>1 DEF Stored, Holds
    <3> QED BY <3>1, <3>2
  <2>2. Registered(n)'
    BY <1>1, <1>2 DEF Registered, Holds
  <2> QED BY <1>2, <2>1, <2>2 DEF Streamed, UpToDate
<1>6. ASSUME NEW m \in Names \ {n}
      PROVE  Stored(m)' /\ Registered(m)' /\ Streamed(m)' /\ UpToDate(m)'
  <2>1. Stored(m) /\ Registered(m) /\ Streamed(m) /\ UpToDate(m)
    BY DEF IInv
  <2>2. Stored(m)'
    BY <1>1, <1>2, <2>1 DEF Stored, Holds
  <2>3. Registered(m)' /\ Streamed(m)'
    BY <1>2, <2>1 DEF Registered, Streamed, Holds
  <2>4. \A t : Content(t)' = Content(t)
    BY DEF Content, Present
  <2>5. UpToDate(m)'
    BY <1>2, <2>1, <2>4 DEF UpToDate
  <2> QED BY <2>2, <2>3, <2>5
<1>7. Announced'
  BY DEF IInv, Announced
<1> QED BY <1>3, <1>4, <1>5, <1>6, <1>7 DEF IInv

\* Runs of the targets in ns, some of which fail.
LEMMA ProcessIInv ==
  ASSUME IInv, NEW targets, NEW ns \in SUBSET Names, NEW bad \in SUBSET ns,
         \A n \in ns : /\ objs[n] # None /\ targets[n] \in Registrations
                       /\ Holds(objs[n], targets[n]),
         Process(targets, ns, bad), UNCHANGED <<put, tree>>,
         counts' \in [pushes : Nat, edits : Nat, faults : Nat],
         inbox' \subseteq inbox,
         \A n \in Names, ev \in inbox \ inbox' :
            /\ streamed[n] # None /\ WellNamed(streamed[n].target.path)
            /\ Touches(ev, streamed[n].target)
            => n \in ns
  PROVE  IInv'
<1> DEFINE fails == bad \cup {n \in ns : Missing(targets[n])}
<1>1. /\ Typed /\ Keeps /\ version \in Nat /\ None \notin Objects
      /\ \A n \in Names : Stored(n) /\ Registered(n) /\ Streamed(n) /\ UpToDate(n)
  BY AbsenceAssumption DEF IInv, Typed
<1>2. /\ version' = version + 1
      /\ streamed' = [n \in Names |-> IF n \in ns \ fails THEN Content(targets[n])
                                      ELSE streamed[n]]
      /\ missed' = (missed \ ns) \cup fails
      /\ registered' = registered
  BY DEF Process
<1> DEFINE Leased(o) == [o EXCEPT !.lease = version + 1, !.rv = version + 1]
<1>3. objs' = [n \in Names |-> IF n \in ns THEN Leased(objs[n]) ELSE objs[n]]
  BY DEF Process
<1>4. ASSUME NEW o \in Objects
       PROVE  /\ Leased(o) \in Objects /\ Leased(o).labelled = o.labelled
              /\ Leased(o).data = o.data /\ Leased(o).secret = o.secret
              /\ Leased(o).lease = version + 1 /\ Leased(o).rv = version + 1
  <2>1. PICK a \in BOOLEAN, d \in {MarshalData(t) : t \in Registrations} \cup {Pathless},
             x \in {t.secret : t \in Registrations} \cup {None}, l \in Nat, v \in Nat :
                o = [labelled |-> a, data |-> d, secret |-> x, lease |-> l, rv |-> v]
    BY DEF Objects
  <2>2. Leased(o) = [labelled |-> a, data |-> d, secret |-> x, lease |-> version + 1,
                     rv |-> version + 1]
    <3> DEFINE u == [o EXCEPT !.lease = version + 1]
    <3>1. u = [labelled |-> a, data |-> d, secret |-> x, lease |-> version + 1, rv |-> v]
      BY <2>1
    <3>2. Leased(o) = [u EXCEPT !.rv = version + 1]
      OBVIOUS
    <3> HIDE DEF u, Leased
    <3> QED BY <3>1, <3>2
  <2> HIDE DEF Leased
  <2>3. Leased(o) \in Objects
    BY <1>1, <2>2 DEF Objects
  <2> QED BY <2>1, <2>2, <2>3
<1> HIDE DEF Leased
<1>5. ASSUME NEW n \in ns
      PROVE  /\ objs'[n] \in Objects /\ objs'[n] # None
             /\ objs'[n].labelled = objs[n].labelled
             /\ objs'[n].data = objs[n].data /\ objs'[n].secret = objs[n].secret
             /\ objs'[n].lease = version + 1 /\ objs'[n].rv = version + 1
  <2>1. n \in Names /\ objs[n] \in Objects
    BY <1>1 DEF Typed
  <2>2. objs'[n] = Leased(objs[n])
    BY <1>3, <2>1
  <2> QED BY <1>1, <1>4, <2>1, <2>2
<1>6. \A n \in Names \ ns : objs'[n] = objs[n]
  BY <1>3
<1>7. Typed'
  <2>1. objs' \in [Names -> Objects \cup {None}]
    <3>1. \A n \in Names : objs'[n] \in Objects \cup {None}
      BY <1>1, <1>5, <1>6 DEF Typed
    <3> QED BY <1>3, <3>1
  <2>2. streamed' = [n \in Names |-> streamed'[n]] /\ missed' \subseteq Names
    BY <1>1, <1>2 DEF Typed
  <2> QED BY <1>1, <1>2, <2>1, <2>2 DEF Typed
<1>8. Keeps'
  <2> SUFFICES ASSUME put # NoPut PROVE Keeps'
    BY DEF Keeps
  <2>1. /\ put' = put /\ put.name \in Names /\ put.lease \in Nat /\ put.seen \in Nat
        /\ put.lease <= version /\ put.seen <= version
    BY <1>1 DEF Keeps, Typed, Puts
  <2>2. CASE put.name \in ns
    BY <1>1, <1>2, <1>5, <2>1, <2>2 DEF Keeps
  <2>3. CASE put.name \notin ns
    BY <1>1, <1>2, <1>6, <2>1, <2>3 DEF Keeps
  <2> QED BY <2>2, <2>3
<1>9. Announced'
  BY DEF IInv, Announced
<1>10. \A t : Content(t)' = Content(t)
  BY DEF Content, Present
<1>11. ASSUME NEW n \in ns
      PROVE  Stored(n)' /\ Registered(n)' /\ Streamed(n)' /\ UpToDate(n)'
  <2>1. n \in Names /\ Stored(n) /\ Registered(n) /\ Streamed(n)
    BY <1>1
  <2>2. Stored(n)'
    BY <1>1, <1>2, <1>5, <2>1 DEF Stored, Holds
  <2>3. Registered(n)'
    BY <1>2, <1>5, <2>1 DEF Registered, Holds
  <2>4. CASE n \in fails
    <3>1. streamed'[n] = streamed[n] /\ n \in missed'
      BY <1>2, <2>1, <2>4
    <3>2. Streamed(n)'
      BY <1>5, <2>1, <3>1 DEF Streamed, Holds
    <3> QED BY <2>2, <2>3, <3>1, <3>2 DEF UpToDate
  <2>5. CASE n \notin fails
    <3> DEFINE t == targets[n]
    <3>1. streamed'[n] = Content(t)
      BY <1>2, <2>1, <2>5
    <3>2. /\ Content(t).target = t
          /\ Content(t).renderer \in {"helm", "kustomize", "plain"}
          /\ DOMAIN Content(t).files \subseteq Files
      BY DEF Content, Present, Detect
    <3>3. Streamed(n)'
      BY <1>5, <3>1, <3>2 DEF Streamed, Holds
    <3>4. UpToDate(n)'
      BY <1>10, <3>1, <3>2 DEF UpToDate
    <3> QED BY <2>2, <2>3, <3>3, <3>4
  <2> QED BY <2>4, <2>5
<1>12. ASSUME NEW n \in Names \ ns
       PROVE  Stored(n)' /\ Registered(n)' /\ Streamed(n)' /\ UpToDate(n)'
  <2>1. Stored(n) /\ Registered(n) /\ Streamed(n) /\ UpToDate(n)
    BY <1>1
  <2>2. /\ objs'[n] = objs[n] /\ streamed'[n] = streamed[n]
        /\ n \in missed' <=> n \in missed
    BY <1>2, <1>6
  <2>3. Stored(n)'
    BY <1>1, <1>2, <2>1, <2>2 DEF Stored, Holds
  <2>4. Registered(n)' /\ Streamed(n)'
    BY <1>2, <2>1, <2>2 DEF Registered, Streamed, Holds
  <2>5. UpToDate(n)'
    BY <1>10, <2>1, <2>2 DEF UpToDate, Touches
  <2> QED BY <2>3, <2>4, <2>5
<1> QED BY <1>7, <1>8, <1>9, <1>11, <1>12 DEF IInv

\* What List reads of a ConfigMap is the target that it holds.
LEMMA ReadTarget ==
  ASSUME IInv, NEW n \in Names, objs[n] # None, TargetFromResource(objs[n]) # Error
  PROVE  /\ TargetFromResource(objs[n]) \in Registrations
         /\ Holds(objs[n], TargetFromResource(objs[n]))
<1>1. PICK t \in Registrations : Holds(objs[n], t)
  BY NoTarget DEF IInv, Stored
<1>2. TargetFromResource(objs[n]) = t
  BY <1>1, RoundTrip DEF Holds
<1> QED BY <1>1, <1>2

LEMMA DeliverIInv ==
  ASSUME IInv, NEW ev \in inbox, Deliver(ev)
  PROVE  IInv'
<1> DEFINE targets == List(objs)
           labelled == {n \in Names : objs[n] # None /\ objs[n].labelled}
<1>1. /\ inbox' = inbox \ {ev} /\ UNCHANGED <<put, tree>>
      /\ Typed /\ Keeps /\ Announced
  BY DEF Deliver, IInv
<1>2. DOMAIN objs = Names
  BY <1>1 DEF Typed
<1>3. CASE targets = Error
  <2>1. missed' = Names /\ UNCHANGED <<objs, version, registered, streamed, counts>>
    BY <1>3 DEF Deliver
  <2>2. Typed' /\ Keeps' /\ Announced'
    BY <1>1, <2>1 DEF Typed, Keeps, Announced
  <2>3. ASSUME NEW n \in Names
        PROVE  Stored(n)' /\ Registered(n)' /\ Streamed(n)' /\ UpToDate(n)'
    BY <2>1 DEF IInv, Stored, Registered, Streamed, UpToDate
  <2> QED BY <2>2, <2>3 DEF IInv
<1>4. CASE targets # Error
  <2> DEFINE ns == Match(targets, ev)
  <2>1. /\ targets = [n \in labelled |-> TargetFromResource(objs[n])]
        /\ \A n \in labelled : TargetFromResource(objs[n]) # Error
    <3> DEFINE L == {n \in DOMAIN objs : objs[n] # None /\ objs[n].labelled}
               T == [n \in L |-> TargetFromResource(objs[n])]
    <3>1. L = labelled
      BY <1>2
    <3>2. List(objs) = IF \E n \in L : T[n] = Error THEN Error ELSE T
      BY DEF List
    <3>3. ~\E n \in L : T[n] = Error
      BY <1>4, <3>2
    <3>4. \A n \in L : T[n] = TargetFromResource(objs[n])
      OBVIOUS
    <3> HIDE DEF L, labelled
    <3>5. targets = T
      BY <3>2, <3>3
    <3>6. T = [n \in labelled |-> TargetFromResource(objs[n])]
      BY <3>1
    <3>7. \A n \in labelled : TargetFromResource(objs[n]) # Error
      BY <3>1, <3>3, <3>4
    <3> QED BY <3>5, <3>6, <3>7
  <2>2. PICK bad \in SUBSET ns :
           /\ IF bad = {} THEN UNCHANGED counts ELSE Spend("faults", MaxFaults)
           /\ Process(targets, ns, bad)
    BY <1>4 DEF Deliver
  <2>3. counts' \in [pushes : Nat, edits : Nat, faults : Nat]
    BY <1>1, <2>2 DEF Spend, Typed
  <2> HIDE DEF targets
  <2>4. \A n \in labelled : targets[n] = TargetFromResource(objs[n])
    BY <2>1
  <2>5. ns \subseteq labelled
    BY <2>1 DEF Match
  <2>6. \A n \in ns : /\ n \in Names /\ objs[n] # None /\ targets[n] \in Registrations
                      /\ Holds(objs[n], targets[n])
    BY <2>1, <2>4, <2>5, ReadTarget
  <2>7. ASSUME NEW n \in Names, streamed[n] # None, WellNamed(streamed[n].target.path),
               Touches(ev, streamed[n].target)
        PROVE  n \in ns
    <3> DEFINE t == streamed[n].target
    <3>1. /\ t \in Registrations /\ objs[n] # None /\ Holds(objs[n], t)
          /\ objs[n].labelled
      BY <2>7 DEF IInv, Streamed, Stored
    <3>2. n \in labelled /\ targets[n] = t
      BY <2>4, <3>1, RoundTrip DEF Holds
    <3>3. PICK f \in ChangedPaths(ev) : Below(t.path, f)
      BY <2>7 DEF Touches, ChangedPaths
    <3>4. f \in Files
      BY <1>1 DEF Announced
    <3>5. HasPrefix(f, t.path)
      BY <2>7, <3>1, <3>3, <3>4, PathCovers
    <3>6. Matches(t, ev)
      BY <2>7, <3>3, <3>5 DEF Matches, Touches
    <3> QED BY <2>1, <3>2, <3>6 DEF Match
  <2>8. inbox' \subseteq inbox /\ \A e \in inbox \ inbox' : e = ev
    BY <1>1
  <2> HIDE DEF ns
  <2> QED BY <1>1, <2>2, <2>3, <2>6, <2>7, <2>8, ProcessIInv
<1> QED BY <1>3, <1>4

LEMMA RetrieveIInv ==
  ASSUME IInv, NEW n \in Names, Retrieve(n)
  PROVE  IInv'
<1> DEFINE t == TargetFromResource(objs[n])
           targets == [m \in {n} |-> t]
<1>1. /\ objs[n] # None /\ t # Error /\ Spend("edits", MaxEdits)
      /\ Process([m \in {n} |-> TargetFromResource(objs[n])], {n}, {})
      /\ UNCHANGED <<put, tree, inbox>>
  BY DEF Retrieve
<1>2. Process(targets, {n}, {})
  BY <1>1
<1>3. targets[n] = t /\ t \in Registrations /\ Holds(objs[n], t)
  BY <1>1, ReadTarget
<1>4. counts' \in [pushes : Nat, edits : Nat, faults : Nat]
  BY <1>1 DEF Spend, IInv, Typed
<1>5. inbox' = inbox /\ {} \in SUBSET {n} /\ {n} \in SUBSET Names
  BY <1>1
<1> HIDE DEF targets, t
<1> QED BY <1>1, <1>2, <1>3, <1>4, <1>5, ProcessIInv

\* A commit changes its file; a push of two, the files of both.
ChangedBy(c) == c.added \cup c.modified \cup c.removed

LEMMA OneCommit ==
  ASSUME NEW tr, NEW f, NEW k \in BOOLEAN
  PROVE  ChangedBy(Commit(tr, f, k)) = {f}
BY DEF Commit, ChangedBy

LEMMA TwoCommits ==
  ASSUME NEW ev, NEW c, NEW d, ev.commits = <<c, d>>
  PROVE  ChangedPaths(ev) = ChangedBy(c) \cup ChangedBy(d)
<1>1. Range(ev.commits) = {c, d}
  BY DEF Range
<1> QED BY <1>1 DEF ChangedPaths, ChangedBy

LEMMA PushIInv ==
  ASSUME IInv, NEW b \in Branches, Push(b)
  PROVE  IInv'
<1> DEFINE at == counts.pushes + 1
           One(f, k) == [tree[b] EXCEPT ![f] = IF k THEN at ELSE 0]
           After(f, k, g, l) == [One(f, k) EXCEPT ![g] = IF l THEN at ELSE 0]
           Ev(f, k, g, l) ==
             [id |-> counts.pushes, repo |-> b.repo, ref |-> b.ref,
              commits |-> <<Commit(tree[b], f, k), Commit(One(f, k), g, l)>>]
<1>1. PICK f \in Files, g \in Files, k \in BOOLEAN, l \in BOOLEAN :
         /\ tree' = [tree EXCEPT ![b] = After(f, k, g, l)]
         /\ inbox' = inbox \cup {Ev(f, k, g, l)}
  <2>1. \E f, g \in Files, k, l \in BOOLEAN :
           /\ f # g \/ k # l
           /\ k \/ tree[b][f] # 0
           /\ l \/ One(f, k)[g] # 0
           /\ tree' = [tree EXCEPT ![b] = After(f, k, g, l)]
           /\ inbox' = inbox \cup {Ev(f, k, g, l)}
    BY DEF Push
  <2> HIDE DEF Ev, After
  <2> QED BY <2>1
<1> DEFINE one == [tree[b] EXCEPT ![f] = IF k THEN at ELSE 0]
           two == [one EXCEPT ![g] = IF l THEN at ELSE 0]
           ev  == [id |-> counts.pushes, repo |-> b.repo, ref |-> b.ref,
                   commits |-> <<Commit(tree[b], f, k), Commit(one, g, l)>>]
<1>2. /\ Spend("pushes", MaxPushes) /\ NothingWritten /\ UNCHANGED put
      /\ tree' = [tree EXCEPT ![b] = two] /\ inbox' = inbox \cup {ev}
      /\ Typed /\ Keeps /\ Announced
  BY <1>1 DEF Push, IInv
<1> HIDE DEF One, After, Ev
<1>3. /\ ChangedPaths(ev) = {f, g} /\ ev.repo = b.repo /\ ev.ref = b.ref
  <2> DEFINE c == Commit(tree[b], f, k)
             d == Commit(one, g, l)
  <2> HIDE DEF one
  <2>1. ChangedBy(c) = {f} /\ ChangedBy(d) = {g}
    BY OneCommit
  <2> HIDE DEF c, d
  <2>2. ev.commits = <<c, d>> /\ ev.repo = b.repo /\ ev.ref = b.ref
    BY DEF c, d
  <2> HIDE DEF ev
  <2>3. ChangedPaths(ev) = {f, g}
    BY <2>1, <2>2, TwoCommits
  <2> QED BY <2>2, <2>3
<1>4. /\ counts' \in [pushes : Nat, edits : Nat, faults : Nat]
      /\ at \in 0 .. MaxPushes
  BY <1>2, RegistryAssumption DEF Spend, Typed
<1>5. /\ two \in [Files -> 0 .. MaxPushes]
      /\ \A h \in Files \ {f, g} : two[h] = tree[b][h]
  <2>1. tree[b] \in [Files -> 0 .. MaxPushes] /\ 0 \in 0 .. MaxPushes
    BY <1>2, RegistryAssumption DEF Typed
  <2> HIDE DEF at
  <2>2. /\ one \in [Files -> 0 .. MaxPushes]
        /\ \A h \in Files \ {f} : one[h] = tree[b][h]
    BY <1>4, <2>1
  <2> HIDE DEF one
  <2> QED BY <1>4, <2>1, <2>2
<1> HIDE DEF ev, two, one, at
<1>6. /\ tree' \in [Branches -> [Files -> 0 .. MaxPushes]]
      /\ tree'[b] = two
      /\ \A c \in Branches \ {b} : tree'[c] = tree[c]
  BY <1>2, <1>5 DEF Typed
<1>7. Typed'
  BY <1>2, <1>4, <1>6 DEF Typed, NothingWritten
<1>8. Keeps' /\ Announced'
  BY <1>2, <1>3 DEF Keeps, Announced, NothingWritten
<1>9. ASSUME NEW n \in Names
      PROVE  Stored(n)' /\ Registered(n)' /\ Streamed(n)' /\ UpToDate(n)'
  <2>1. Stored(n) /\ Registered(n) /\ Streamed(n) /\ UpToDate(n)
    BY DEF IInv
  <2>2. Stored(n)' /\ Registered(n)' /\ Streamed(n)'
    BY <1>2, <2>1 DEF NothingWritten, Stored, Registered, Streamed
  <2>3. UpToDate(n)'
    <3> SUFFICES ASSUME streamed[n] # None PROVE UpToDate(n)'
      BY <1>2 DEF UpToDate, NothingWritten
    <3>1. PICK t \in Registrations : t = streamed[n].target
      BY <2>1 DEF Streamed
    <3> DEFINE B == [repo |-> t.repo, ref |-> t.ref]
    <3> SUFFICES ASSUME n \notin missed,
                        WellNamed(t.path), \A e \in inbox' : ~Touches(e, t)
                 PROVE  streamed[n] = Content(t)'
      BY <1>2, <3>1 DEF UpToDate, NothingWritten
    <3>2. streamed[n] = Content(t)
      BY <1>2, <2>1, <3>1 DEF UpToDate
    <3>3. t \in Registrations /\ B \in Branches
      BY RegistryAssumption
    <3>4. ASSUME NEW h \in Files, Below(t.path, h)
          PROVE  tree'[B][h] = tree[B][h]
      <4>1. CASE B # b
        BY <1>6, <3>3, <4>1
      <4>2. CASE B = b
        <5>1. ev.repo = t.repo /\ ev.ref = t.ref
          BY <1>3, <4>2
        <5>2. ~Touches(ev, t)
          BY <1>2
        <5>3. h \notin ChangedPaths(ev)
          BY <3>4, <5>1, <5>2 DEF Touches, ChangedPaths
        <5> QED BY <1>3, <1>5, <1>6, <4>2, <5>3
      <4> QED BY <4>1, <4>2
    <3>5. Content(t)' = Content(t)
      BY <3>3, <3>4, ContentFromBelow
    <3> QED BY <3>2, <3>5
  <2> QED BY <2>2, <2>3
<1> QED BY <1>7, <1>8, <1>9 DEF IInv

(***************************************************************************)
(* Puts, and what the tenant does.                                         *)
(***************************************************************************)
LEMMA PutGetIInv ==
  ASSUME IInv, NEW n \in Names, NEW t \in Registrations, PutGet(n, t)
  PROVE  IInv'
<1>1. /\ Typed /\ Stored(n) /\ NothingWritten /\ UNCHANGED <<tree, inbox>>
      /\ version \in Nat
  BY DEF IInv, Typed, PutGet
<1>2. counts' \in [pushes : Nat, edits : Nat, faults : Nat]
  BY <1>1 DEF PutGet, Spend, Typed
<1>3. CASE /\ objs[n] # None
           /\ put' = [pc |-> "again", name |-> n, target |-> t, lease |-> Kept(n),
                      seen |-> objs[n].rv, rv |-> 0]
  <2>1. /\ objs[n].rv \in Nat /\ objs[n].lease \in Nat
        /\ objs[n].rv <= version /\ objs[n].lease <= version
    BY <1>1, <1>3 DEF Stored
  <2>2. put' \in Puts
    BY <1>3, <2>1 DEF Puts, Kept
  <2>3. Keeps'
    BY <1>1, <1>3, <2>1 DEF Keeps, Kept, NothingWritten
  <2> QED BY <1>1, <1>2, <2>2, <2>3, QuietIInv
<1>4. CASE put' = [pc |-> "again", name |-> n, target |-> t, lease |-> 0,
                   seen |-> 0, rv |-> 0]
  <2>1. put' \in Puts
    BY <1>4 DEF Puts
  <2>2. Keeps'
    BY <1>1, <1>4 DEF Keeps, NothingWritten
  <2> QED BY <1>1, <1>2, <2>1, <2>2, QuietIInv
<1> QED BY <1>3, <1>4 DEF PutGet

\* A Put under way is no NoPut.
LEMMA UnderWay ==
  ASSUME IInv, put.pc # "idle"
  PROVE  put \in Puts /\ put # NoPut
BY DEF IInv, Typed, NoPut

LEMMA PutGetAgainIInv ==
  ASSUME IInv, PutGetAgain
  PROVE  IInv'
<1>1. /\ Typed /\ Keeps /\ NothingWritten /\ UNCHANGED <<tree, inbox>>
      /\ put \in Puts /\ put # NoPut
  BY UnderWay DEF IInv, PutGetAgain
<1>2. counts' \in [pushes : Nat, edits : Nat, faults : Nat]
  BY <1>1 DEF PutGetAgain, Spend, Typed
<1>3. put.name \in Names
  BY <1>1 DEF Puts
<1>4. PICK c \in {"write", "create"}, v \in Nat :
        put' = [pc |-> c, name |-> put.name, target |-> put.target,
                lease |-> put.lease, seen |-> put.seen, rv |-> v]
  <2>1. put = [pc |-> put.pc, name |-> put.name, target |-> put.target,
               lease |-> put.lease, seen |-> put.seen, rv |-> put.rv]
        /\ put.rv \in Nat
    BY <1>1 DEF Puts
  <2>2. CASE /\ objs[put.name] # None
             /\ put' = [put EXCEPT !.pc = "write", !.rv = objs[put.name].rv]
    <3>1. objs[put.name].rv \in Nat
      BY <1>1, <1>3, <2>2 DEF IInv, Stored
    <3> DEFINE u == [put EXCEPT !.pc = "write"]
    <3>2. u = [pc |-> "write", name |-> put.name, target |-> put.target,
               lease |-> put.lease, seen |-> put.seen, rv |-> put.rv]
      BY <2>1
    <3>3. put' = [u EXCEPT !.rv = objs[put.name].rv]
      BY <2>2
    <3> HIDE DEF u
    <3>4. put' = [pc |-> "write", name |-> put.name, target |-> put.target,
                  lease |-> put.lease, seen |-> put.seen, rv |-> objs[put.name].rv]
      BY <3>2, <3>3
    <3> QED BY <3>1, <3>4
  <2>3. CASE put' = [put EXCEPT !.pc = "create"]
    BY <2>1, <2>3
  <2> QED BY <2>2, <2>3 DEF PutGetAgain
<1>5. put' \in Puts
  BY <1>1, <1>4 DEF Puts
<1>6. Keeps'
  BY <1>1, <1>4 DEF Keeps, NothingWritten
<1> QED BY <1>1, <1>2, <1>5, <1>6, QuietIInv

LEMMA PutWriteIInv ==
  ASSUME IInv, PutWrite
  PROVE  IInv'
<1>1. /\ Typed /\ Keeps /\ put' = NoPut /\ UNCHANGED <<tree, inbox>>
      /\ put \in Puts /\ put # NoPut
  BY UnderWay DEF IInv, PutWrite
<1>2. counts' \in [pushes : Nat, edits : Nat, faults : Nat]
  BY <1>1 DEF PutWrite, Typed
<1>3. CASE ~Accepted
  <2>1. NothingWritten
    BY <1>3 DEF PutWrite
  <2>2. Keeps'
    BY <1>1 DEF Keeps
  <2> QED BY <1>1, <1>2, <2>1, <2>2, QuietIInv
<1>4. CASE Accepted
  <2>1. Write(put.name, PutObject, put.target)
    BY <1>4 DEF PutWrite
  <2>2. /\ put.name \in Names /\ put.target \in Registrations
        /\ put.lease \in Nat /\ put.lease <= version /\ version \in Nat
    BY <1>1 DEF Puts, Keeps, Typed
  <2>3. /\ PutObject \in Objects /\ PutObject.labelled
        /\ PutObject.rv = version + 1 /\ PutObject.lease <= version + 1
        /\ Holds(PutObject, put.target)
    BY <2>2 DEF PutObject, Objects, Holds
  <2> QED BY <1>1, <1>2, <2>1, <2>2, <2>3, WriteIInv
<1> QED BY <1>3, <1>4

LEMMA TenantIInv ==
  ASSUME IInv, NEW n \in Names, Spoil(n) \/ Delete(n)
  PROVE  IInv'
<1>1. Typed /\ version \in Nat /\ UNCHANGED <<put, tree, inbox>>
  BY DEF IInv, Typed, Spoil, Delete
<1>2. counts' \in [pushes : Nat, edits : Nat, faults : Nat]
  BY <1>1 DEF Spoil, Delete, Spend, Typed
<1>3. CASE Delete(n)
  <2>1. Write(n, None, None)
    BY <1>3 DEF Delete
  <2> QED BY <1>1, <1>2, <2>1, WriteIInv
<1>4. CASE Spoil(n)
  <2> DEFINE o == [labelled |-> TRUE, data |-> Pathless, secret |-> None,
                   lease |-> 0, rv |-> version + 1]
  <2>1. Write(n, o, None)
    BY <1>4 DEF Spoil
  <2>2. /\ o \in Objects /\ o.labelled /\ o.rv = version + 1
        /\ o.lease <= version + 1 /\ o.data = Pathless
    BY <1>1 DEF Objects
  <2> HIDE DEF o
  <2> QED BY <1>1, <1>2, <2>1, <2>2, WriteIInv
<1> QED BY <1>3, <1>4

LEMMA NextIInv == IInv /\ [Next]_vars => IInv'
<1> SUFFICES ASSUME IInv, [Next]_vars PROVE IInv'
  OBVIOUS
<1>1. CASE UNCHANGED vars
  <2>1. /\ NothingWritten /\ UNCHANGED <<tree, inbox>>
        /\ counts' = counts /\ put' = put
    BY <1>1 DEF vars, NothingWritten
  <2>2. Keeps'
    BY <2>1 DEF IInv, Keeps, NothingWritten
  <2> QED BY <2>1, <2>2, QuietIInv DEF IInv, Typed
<1>2. ASSUME NEW n \in Names, NEW t \in Registrations, PutGet(n, t) PROVE IInv'
  BY <1>2, PutGetIInv
<1>3. ASSUME PutGetAgain \/ PutWrite PROVE IInv'
  BY <1>3, PutGetAgainIInv, PutWriteIInv
<1>4. ASSUME NEW n \in Names, Spoil(n) \/ Delete(n) \/ Retrieve(n) PROVE IInv'
  BY <1>4, TenantIInv, RetrieveIInv
<1>5. ASSUME NEW b \in Branches, Push(b) PROVE IInv'
  BY <1>5, PushIInv
<1>6. ASSUME NEW ev \in inbox, Deliver(ev) PROVE IInv'
  BY <1>6, DeliverIInv
<1> QED BY <1>1, <1>2, <1>3, <1>4, <1>5, <1>6 DEF Next, Over

LEMMA Invariant == Spec => []IInv
BY InitIInv, NextIInv, PTL DEF Spec

(***************************************************************************)
(* The theorems.                                                           *)
(***************************************************************************)
\* ConfigMaps, the Put under way, branches and what was streamed keep their
\* types; versions only count up to the API server's.
THEOREM TypeCorrect == Spec => []TypeOK
<1>1. IInv => TypeOK
  <2> SUFFICES ASSUME IInv PROVE TypeOK
    OBVIOUS
  <2>1. ASSUME NEW n \in Names, objs[n] # None
        PROVE  /\ objs[n].labelled \in BOOLEAN
               /\ objs[n].rv \in 1 .. version /\ objs[n].lease \in 0 .. objs[n].rv
               /\ "path" \in DOMAIN objs[n].data => objs[n].data.path \in Paths
    <3>1. Stored(n) /\ objs[n] \in Objects
      BY <2>1 DEF IInv, Typed
    <3>2. ASSUME NEW t \in Registrations, Holds(objs[n], t)
          PROVE  objs[n].data.path \in Paths
      BY <3>2 DEF Holds, MarshalData, Paths
    <3>3. objs[n].data = Pathless => "path" \notin DOMAIN objs[n].data
      BY DEF Pathless
    <3>4. objs[n].labelled \in BOOLEAN
      BY <3>1 DEF Objects
    <3> QED BY <2>1, <3>1, <3>2, <3>3, <3>4 DEF Stored
  <2>2. put.pc \in {"idle", "again", "write", "create"}
    BY DEF IInv, Typed, Puts, NoPut
  <2>3. ASSUME NEW n \in Names PROVE registered[n] \in Registrations \cup {None}
    BY DEF IInv, Typed
  <2>4. ASSUME NEW n \in Names, streamed[n] # None
        PROVE  /\ streamed[n].target \in Registrations
               /\ streamed[n].renderer \in {"helm", "kustomize", "plain"}
               /\ DOMAIN streamed[n].files \subseteq Files
    BY <2>4 DEF IInv, Streamed
  <2> QED BY <2>1, <2>2, <2>3, <2>4 DEF IInv, Typed, TypeOK
<1> QED BY <1>1, Invariant, PTL

\* A target reads back as it was put, whatever runs wrote to its ConfigMap.
THEOREM ReadsBack == Spec => []PutReadsBack
<1>1. IInv => PutReadsBack
  <2> SUFFICES ASSUME IInv, NEW n \in Names, registered[n] # None
               PROVE  objs[n] # None /\ TargetFromResource(objs[n]) = registered[n]
    BY DEF PutReadsBack
  <2>1. registered[n] \in Registrations /\ objs[n] # None /\ Holds(objs[n], registered[n])
    BY DEF IInv, Typed, Registered
  <2> QED BY <2>1, RoundTrip DEF Holds
<1> QED BY <1>1, Invariant, PTL

\* A target with a well named path, of any length and over any files, is up
\* to date once streamed, unless a push under way touches what it names or a
\* failure came between.
THEOREM NothingMissed == Spec => []NoChangeIsMissed
<1>1. IInv => NoChangeIsMissed
  BY DEF IInv, UpToDate, NoChangeIsMissed
<1> QED BY <1>1, Invariant, PTL

\* A Put that takes a lease off its ConfigMap did not read it: its first Get
\* failed, or the lease was written between its two Gets.
THEOREM LeaseLost == Spec => LeaseLostOnlyBetweenGets
<1> DEFINE A == put # NoPut /\ put' = NoPut =>
                  \A n \in Names :
                     objs[n] # None /\ objs'[n] # None
                       /\ objs'[n].lease < objs[n].lease =>
                          put.seen = 0 \/ put.seen # put.rv
<1>1. IInv /\ [Next]_vars => [A]_vars
  <2> SUFFICES ASSUME IInv, Next, put # NoPut, put' = NoPut,
                      NEW n \in Names, objs[n] # None, objs'[n] # None,
                      objs'[n].lease < objs[n].lease
               PROVE  put.seen = 0 \/ put.seen # put.rv
    OBVIOUS
  <2>1. PutWrite
    <3>1. NoPut.pc = "idle" /\ put \in Puts
      BY DEF NoPut, IInv, Typed
    <3>2. ~PutGetAgain
      <4> SUFFICES ASSUME PutGetAgain PROVE FALSE
        OBVIOUS
      <4>1. put' = [put EXCEPT !.pc = "create"] \/ put'.pc = "write"
        BY <3>1 DEF PutGetAgain, Puts
      <4> QED BY <3>1, <4>1 DEF Puts
    <3>3. ASSUME NEW m \in Names, NEW t \in Registrations PROVE ~PutGet(m, t)
      BY <3>1 DEF PutGet, Puts
    <3>4. put' # put
      OBVIOUS
    <3> QED BY <3>2, <3>3, <3>4 DEF Next, Over, vars, Spoil, Delete, Retrieve, Push, Deliver
  <2>2. /\ put \in Puts /\ Keeps /\ objs \in [Names -> Objects \cup {None}]
        /\ put.name \in Names
    BY DEF IInv, Typed, Puts
  <2>3. objs[n].lease \in Nat
    BY <2>2 DEF Objects
  <2>4. Accepted /\ Write(put.name, PutObject, put.target)
    <3>1. objs' # objs
      BY <2>3
    <3> QED BY <2>1, <3>1 DEF PutWrite, NothingWritten
  <2>5. n = put.name /\ objs'[n].lease = put.lease
    BY <2>4, <2>2 DEF Write, PutObject, IInv, Stored
  <2> SUFFICES ASSUME put.seen # 0, put.seen = put.rv PROVE FALSE
    OBVIOUS
  <2>6. objs[n].rv = put.rv
    BY <2>4, <2>5 DEF Accepted
  <2>7. objs[n].lease = put.lease
    BY <2>2, <2>5, <2>6 DEF Keeps
  <2> QED BY <2>5, <2>7, <2>3
<1> QED BY <1>1, Invariant, PTL DEF Spec, LeaseLostOnlyBetweenGets
=============================================================================
