-------------------------------- MODULE Fifo ---------------------------------
(***************************************************************************)
(* What a session promises of the lines its stdio server writes: they      *)
(* arrive one by one, in order, unchanged and once, until the session ends.*)
(***************************************************************************)
EXTENDS Naturals, Sequences

CONSTANT Item

VARIABLES
    put,    \* every item put in
    got,    \* every item that came out
    over    \* the session has ended

vars == <<put, got, over>>

Init == put = <<>> /\ got = <<>> /\ over = FALSE

Put(x) ==
    /\ put' = Append(put, x)
    /\ UNCHANGED <<got, over>>

Get ==
    /\ ~over
    /\ Len(got) < Len(put)
    /\ got' = Append(got, put[Len(got) + 1])
    /\ UNCHANGED <<put, over>>

End ==
    /\ over' = TRUE
    /\ UNCHANGED <<put, got>>

Next == (\E x \in Item : Put(x)) \/ Get \/ End

Safety == Init /\ [][Next]_vars

\* An item that waits comes out, unless the session ends first.
Spec == Safety /\ WF_vars(Get)
=============================================================================
