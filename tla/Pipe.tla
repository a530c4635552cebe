------------------------------- MODULE Pipe -------------------------------
(***************************************************************************)
(* What one direction of a forwarded connection promises: the reader gets  *)
(* a beginning of what the writer gave, in order, and all of it as long as *)
(* the pipe is whole.  A pipe that has broken may end anywhere.            *)
(***************************************************************************)
EXTENDS Integers, SequencesExt

VARIABLES
  given,  \* what the writer has written
  got,    \* what the reader has read
  whole   \* FALSE once something has broken

pipeVars == <<given, got, whole>>

Init == given = <<>> /\ got = <<>> /\ whole = TRUE

Put ==
  /\ IsStrictPrefix(given, given')
  /\ UNCHANGED <<got, whole>>

Take ==
  /\ \E n \in (Len(got) + 1)..Len(given) : got' = SubSeq(given, 1, n)
  /\ UNCHANGED <<given, whole>>

Break ==
  /\ whole' = FALSE
  /\ UNCHANGED <<given, got>>

Next == Put \/ Take \/ Break

Spec == Init /\ [][Next]_pipeVars /\ WF_pipeVars(whole /\ Take)
=============================================================================
