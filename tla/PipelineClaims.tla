--------------------------- MODULE PipelineClaims ---------------------------
(***************************************************************************)
(* What comments, tests and the README of the repository say of leases and *)
(* replays, where the pipeline does otherwise.  Each is checked by a run   *)
(* that finds the counterexample.                                          *)
(***************************************************************************)
EXTENDS Pipeline

\* HeldBy "checks if the given lease ID currently holds the lease"
\* (internal/lease/verify.go:20): whatever the object looks like it answers,
\* and no tenant change ends the whole instance.
HeldByAnswers == \A r \in Runs : pc[r] # "panicked"

\* "Maximum number of replay attempts per event" (README.md:84): at most
\* MAX_REPLAY_ATTEMPTS replays of one event take the lease.
Attempts(e) == {r \in Runs : /\ run[r].kind = "replay"
                             /\ run[r].event = e
                             /\ run[r].landed # 0}

ReplaysPerEventBounded ==
  \A e \in Runs : Cardinality(Attempts(e)) <= MaxReplays

\* CredentialSecret is "empty for public repositories"
\* (internal/source/target.go:27): a run of a private target has it.
SecretUnlessPublic ==
  \A r \in Runs : pc[r] \in Working /\ ~run[r].secret
                     => run[r].target \notin Private
=============================================================================
