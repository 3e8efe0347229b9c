----------------------------- MODULE MCAutoWake -----------------------------
(* AutoWake for TLC: weeks of three days of two ticks.                        *)
EXTENDS AutoWake
SameLeeway == [a \in Apps |-> 1]
Wants(b, d) == [type |-> b, date |-> d, app |-> "a"]
SmallWanted == {Wants("wake", 2), Wants("wakeorpoweron", 3)}
SmallRepeats == {[type |-> "wakeorpoweron", minute |-> 0, days |-> {1}],
                 [type |-> "wake", minute |-> 0, days |-> {}]}
=============================================================================
