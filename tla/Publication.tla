---------------------------- MODULE Publication ----------------------------
(***************************************************************************)
(* What phortizo promises the renderers about one source target, with the *)
(* leases, the retries and the failures left out: commits are pushed, and  *)
(* every snapshot that is cleared for rendering exists in the repository   *)
(* and is at least as recent as the one cleared before it.                 *)
(***************************************************************************)
EXTENDS Naturals

CONSTANT Targets            \* the source targets of the tenants

VARIABLES head,             \* head[t]: number of pushes to the branch t watches
          published         \* published[t]: latest snapshot cleared for rendering

vars == <<head, published>>

Init == /\ head = [t \in Targets |-> 0]
        /\ published = [t \in Targets |-> 0]

\* A tenant pushes to the watched branch.
Push(t) == /\ head' = [head EXCEPT ![t] = @ + 1]
           /\ UNCHANGED published

\* A snapshot no older than the previous one is cleared for rendering.
Publish(t) == /\ \E s \in published[t] .. head[t] :
                    published' = [published EXCEPT ![t] = s]
              /\ UNCHANGED head

Next == \E t \in Targets : Push(t) \/ Publish(t)

Spec == Init /\ [][Next]_vars
=============================================================================
