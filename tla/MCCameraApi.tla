----------------------------- MODULE MCCameraApi -----------------------------
(* CameraApi on small instances. *)
EXTENDS CameraApi, TLC

Symmetry == Permutations(Events)

Noon(y, m, d) == <<y, m, d, 12, 0, 0>>

Shot(day) == [prefix |-> "RECORD", header |-> TRUE, size |-> "Snapshot", filled |-> TRUE,
              times |-> <<day>>, type |-> 0]

\* A message that fits the report it is given to, dates at the ends of months,
\* and the ways a message can fail to fit.
MCMessages ==
  {Shot(Noon(d[1], d[2], d[3]))
     : d \in {<<2000, 2, 29>>, <<1900, 2, 29>>, <<2023, 4, 31>>}}
  \cup {[Shot(Noon(2024, 8, 31)) EXCEPT !.size = "Record"],
        [Shot(Noon(2024, 8, 31)) EXCEPT !.prefix = "SNAPSH", !.size = "Record"],
        [Shot(<<>>) EXCEPT !.size = "none"],
        [Shot(<<>>) EXCEPT !.header = FALSE]}

=============================================================================
