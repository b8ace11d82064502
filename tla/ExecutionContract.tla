------------------------- MODULE ExecutionContract --------------------------
(***************************************************************************)
(* What an execution promises to whoever started it, without frames,        *)
(* workers or messages: an attempt is handed to the task port at most once  *)
(* and never after the verdict is published; the verdict never changes; the *)
(* execution ends only when no accepted call is still running.              *)
(***************************************************************************)
EXTENDS FiniteSets

CONSTANTS Verdicts,  \* outcomes an execution may publish
          Undecided  \* no verdict yet

VARIABLES verdict, open, used, ended

cvars == <<verdict, open, used, ended>>

CInit == verdict = Undecided /\ open = {} /\ used = {} /\ ended = FALSE

Accept(c) == /\ verdict = Undecided
             /\ c \notin used
             /\ open' = open \cup {c}
             /\ used' = used \cup {c}
             /\ UNCHANGED <<verdict, ended>>

Release(c) == /\ c \in open
              /\ open' = open \ {c}
              /\ UNCHANGED <<verdict, used, ended>>

Publish(v) == /\ verdict = Undecided
              /\ verdict' = v
              /\ UNCHANGED <<open, used, ended>>

End == /\ verdict # Undecided /\ open = {} /\ ~ended
       /\ ended' = TRUE
       /\ UNCHANGED <<verdict, open, used>>

\* any name that is new may be accepted
CNext == \/ \E c \in used' : Accept(c)
         \/ \E c \in open : Release(c)
         \/ \E v \in Verdicts : Publish(v)
         \/ End

CSpec == CInit /\ [][CNext]_cvars
=============================================================================
