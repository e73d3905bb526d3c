------------------------------ MODULE Delivery ------------------------------
(***************************************************************************)
(* What a caller of the renderer is promised, with chunks, pipes and       *)
(* goroutines left out: a source is handed over whole or is not seen to    *)
(* end, nothing follows its end or the caller's answer, and the answer is  *)
(* success only for a whole source that the renderer has acknowledged.     *)
(***************************************************************************)
EXTENDS Naturals

CONSTANT Size        \* units of the source

VARIABLES given,     \* units handed over
          line,      \* the line to the renderer: "none", "open", "half",
                     \* "replied" or "broken"
          told       \* what the caller was told: "none", "ok" or "error"

vars == <<given, line, told>>

Init == given = 0 /\ line = "none" /\ told = "none"

Begin == /\ line = "none" /\ told = "none"
         /\ line' = "open"
         /\ UNCHANGED <<given, told>>

\* More is handed over, to a renderer that still listens.
Give == /\ line = "open" /\ told = "none"
        /\ \E n \in given + 1 .. Size : given' = n
        /\ UNCHANGED <<line, told>>

\* The source is said to have ended: it is whole.
End == /\ line = "open" /\ told = "none" /\ given = Size
       /\ line' = "half"
       /\ UNCHANGED <<given, told>>

\* The renderer answers or fails, at any time.
Settle == /\ line \in {"open", "half"}
          /\ line' \in {"replied", "broken"}
          /\ UNCHANGED <<given, told>>

\* The caller is answered, once.
Tell == /\ told = "none"
        /\ \/ told' = "error"
           \/ told' = "ok" /\ line = "replied" /\ given = Size
        /\ UNCHANGED <<given, line>>

Next == Begin \/ Give \/ End \/ Settle \/ Tell

Spec == Init /\ [][Next]_vars
=============================================================================
