------------------------------ MODULE ThreadLog ------------------------------
(***************************************************************************)
(* What a thread's event stream promises its readers: a log that only grows *)
(* at its end, one event at a time, and a reader that is shown a prefix of  *)
(* it, event by event.  A reload shows the log again from the start.        *)
(***************************************************************************)
EXTENDS Naturals, Sequences

CONSTANT Events
VARIABLES log, shown

Init == log = <<>> /\ shown = <<>>
Write == (\E e \in Events : log' = Append(log, e)) /\ UNCHANGED shown
Show ==
    /\ Len(shown) < Len(log) /\ shown' = Append(shown, log[Len(shown) + 1])
    /\ UNCHANGED log
Reload == shown' = <<>> /\ UNCHANGED log

Next == Write \/ Show \/ Reload
Spec == Init /\ [][Next]_<<log, shown>>
=============================================================================
