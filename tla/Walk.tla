-------------------------------- MODULE Walk --------------------------------
(***************************************************************************)
(* What a walk-forward backtest promises of its record: out-of-sample      *)
(* segments are added one at a time, in time order, each starting after    *)
(* its decision and after the segment before it has ended, from the        *)
(* holdings that one left; what is recorded is never taken back.           *)
(***************************************************************************)
EXTENDS Integers, Sequences

CONSTANT Cash    \* what is held before the first segment

VARIABLE book    \* the segments recorded so far

Init == book = <<>>

Latest == book[Len(book)]

Follows(s) ==
    IF book = <<>>
    THEN s.from = Cash
    ELSE Latest.asOf < s.asOf /\ Latest.exit < s.entry /\ s.from = Latest.to

\* Segments are whatever the program makes them; the new one ends book'.
Record ==
    /\ book' # <<>>
    /\ LET s == book'[Len(book')] IN
          /\ book' = Append(book, s)
          /\ s.asOf < s.entry /\ s.entry <= s.exit
          /\ Follows(s)

Spec == Init /\ [][Record]_book
=============================================================================
