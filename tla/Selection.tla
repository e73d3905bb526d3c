----------------------------- MODULE Selection ------------------------------
(***************************************************************************)
(* What a push selects, as functions of the cluster's objects: the targets *)
(* a tenant's ConfigMaps describe (internal/source), those that a push     *)
(* matches (internal/push), the renderer of a tree and the names in its    *)
(* archive (internal/renderer).                                            *)
(*                                                                         *)
(* A path is a sequence of characters, "/" among them; a file name that    *)
(* only Detect looks at is one character.  A map of a ConfigMap is a       *)
(* record of the keys it has, with _ for the - in their names.             *)
(***************************************************************************)
EXTENDS Sequences, SequencesExt

CONSTANTS
  None,      \* null value: no credential secret, no overrides
  Error      \* an error returned in place of a value

ASSUME SelectionAssumption == None # Error

(***************************************************************************)
(* Targets.                                                                *)
(***************************************************************************)
Keys == {"repo_url", "ref", "path"}

TargetFromResourceData(data) ==
  IF Keys \subseteq DOMAIN data
  THEN [repo |-> data.repo_url, ref |-> data.ref, path |-> data.path,
        overrides |-> IF "overrides" \in DOMAIN data THEN data.overrides ELSE None]
  ELSE Error

\* Mutant: the overrides are left out.
MarshalKeysOnly(t) ==
  [repo_url |-> t.repo, ref |-> t.ref, path |-> t.path]

\* Mutant: the path is made absolute.
MarshalAbsolute(t) ==
  [repo_url |-> t.repo, ref |-> t.ref, path |-> <<"/">> \o t.path]

MarshalData(t) ==
  IF t.overrides = None
  THEN [repo_url |-> t.repo, ref |-> t.ref, path |-> t.path]
  ELSE [repo_url |-> t.repo, ref |-> t.ref, path |-> t.path,
        overrides |-> t.overrides]

\* The target of ConfigMap o: its data, and the annotation with the secret.
TargetFromResource(o) ==
  LET t == TargetFromResourceData(o.data)
  IN IF t = Error THEN Error
     ELSE [repo |-> t.repo, ref |-> t.ref, path |-> t.path,
           overrides |-> t.overrides, secret |-> o.secret]

\* source.List over the named ConfigMaps: the labelled ones, or the error of
\* the first that is no target.
List(objs) ==
  LET labelled == {n \in DOMAIN objs : objs[n] # None /\ objs[n].labelled}
      targets  == [n \in labelled |-> TargetFromResource(objs[n])]
  IN IF \E n \in labelled : targets[n] = Error THEN Error ELSE targets

(***************************************************************************)
(* Pushes.                                                                 *)
(***************************************************************************)
HasPrefix(s, p) == IsPrefix(p, s)

\* Mutant: only the last commit counts.
ChangedByLast(ev) ==
  LET c == ev.commits[Len(ev.commits)] IN c.added \cup c.modified \cup c.removed

\* Mutant: a removal is no change.
ChangedNotRemoved(ev) ==
  UNION {c.added \cup c.modified : c \in Range(ev.commits)}

ChangedPaths(ev) ==
  UNION {c.added \cup c.modified \cup c.removed : c \in Range(ev.commits)}

Matches(t, ev) ==
  /\ t.repo = ev.repo /\ t.ref = ev.ref
  /\ \E p \in ChangedPaths(ev) : HasPrefix(p, t.path)

\* The targets that a push concerns.
Match(targets, ev) == {n \in DOMAIN targets : Matches(targets[n], ev)}

(***************************************************************************)
(* Trees.                                                                  *)
(***************************************************************************)
\* The names between the slashes of a path.
Split(path) ==
  FoldLeft(LAMBDA names, c : IF c = "/" THEN Append(names, <<>>)
                             ELSE Front(names) \o <<Append(Last(names), c)>>,
           <<<<>>>>, path)

\* One name further down, of names that begin with <<>> if the path does
\* with a slash: above such a root there is nothing.
Descend(names, name) ==
  CASE name \in {<<>>, <<".">>} -> names
    [] name = <<".", ".">>      -> IF names = <<>> \/ Last(names) = name THEN Append(names, name)
                                   ELSE IF Last(names) = <<>> THEN names
                                   ELSE Front(names)
    [] OTHER                    -> Append(names, name)

\* The file or directory that a path names, relative to the clone's root, as
\* filepath and the clone's file system clean it; match does not.  What leads
\* out of the clone keeps its "..", which no file's name has: an error there.
Clean(path) ==
  LET root == IF HasPrefix(path, <<"/">>) THEN <<<<>>>> ELSE <<>>
  IN FoldLeft(LAMBDA p, name : IF p = <<>> THEN name ELSE p \o <<"/">> \o name,
              <<>>, FoldLeft(Descend, root, Split(path)))

Join(dir, name) ==
  IF Clean(dir) = <<>> THEN <<name>> ELSE Clean(dir) \o <<"/", name>>

\* util.Walk visits the file or what is below the directory.
Below(path, f) ==
  \/ Clean(path) \in {<<>>, f}
  \/ HasPrefix(f, Clean(path) \o <<"/">>)

Detect(files, root) ==
  IF Join(root, "Chart.yaml") \in files THEN "helm"
  ELSE IF \E m \in {"kustomization.yaml", "kustomization.yml", "Kustomization"} :
             Join(root, m) \in files THEN "kustomize"
  ELSE "plain"

\* The name of file f in the archive of root.
TrimPrefix(s, p) == IF HasPrefix(s, p) THEN SubSeq(s, Len(p) + 1, Len(s)) ELSE s

\* The walk calls a file by the root it was given, or by the root cleaned
\* and the way down from it; the root's first slash stays.
Walked(root, f) ==
  IF f = Clean(root) THEN root
  ELSE IF HasPrefix(root, <<"/">>) THEN <<"/">> \o f ELSE f

EntryName(root, f) == TrimPrefix(Walked(root, f), root \o <<"/">>)
=============================================================================
