------------------------------ MODULE EventLog ------------------------------
(***************************************************************************)
(* What a channel promises its readers: one log in which the n-th event    *)
(* has seq n.  Events are published at its end.  The only thing that can   *)
(* be taken back is the last event, and only while its append has not been *)
(* completed by a newline.                                                 *)
(***************************************************************************)
EXTENDS Naturals, Sequences

VARIABLE log    \* the events a reader of the file sees

Init == log = <<>>

\* One event appears at the end, numbered by its place; the rest is unchanged.
Publish ==
    /\ Len(log') = Len(log) + 1
    /\ SubSeq(log', 1, Len(log)) = log
    /\ log'[Len(log')].seq = Len(log')

\* The last event is taken back.
Withdraw ==
    /\ log # <<>>
    /\ log' = SubSeq(log, 1, Len(log) - 1)

Next == Publish \/ Withdraw

Spec == Init /\ [][Next]_log
=============================================================================
