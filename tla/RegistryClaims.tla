--------------------------- MODULE RegistryClaims ---------------------------
(***************************************************************************)
(* What a comment of the repository says of the archive sent to a          *)
(* renderer, where the code does otherwise.  A run finds the               *)
(* counterexample.                                                         *)
(***************************************************************************)
EXTENDS MCRegistry

\* f as seen from the directory root.
Relative(root, f) ==
  IF Clean(root) = <<>> THEN f ELSE TrimPrefix(f, Clean(root) \o <<"/">>)

\* The archiver writes entries "with paths relative to root"
\* (internal/renderer/send.go:88-89), for every root a target may have, the
\* form "deploy/" of the repository's tests included.
EntriesRelative ==
  \A n \in Names : streamed[n] # None =>
     \A f \in DOMAIN streamed[n].files :
        streamed[n].files[f].name = Relative(streamed[n].target.path, f)
=============================================================================
