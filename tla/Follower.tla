------------------------------ MODULE Follower ------------------------------
(***************************************************************************)
(* What a component that follows a file promises, and all it promises:     *)
(* `seen` is always one of the documents the file has held, it moves only  *)
(* to documents that came later, any number of them may be skipped, and it *)
(* comes back to the newest one again and again.  Nothing is said of when. *)
(***************************************************************************)
EXTENDS Naturals, Sequences

VARIABLES
    history,    \* the documents the file has held, in order
    seen        \* the one in effect

Newest == history[Len(history)]

Init == history = <<seen>>

Save == /\ Len(history') = Len(history) + 1
        /\ \A i \in DOMAIN history : history'[i] = history[i]
        /\ UNCHANGED seen

(* Any later document; a following restart may fall together with a save.  *)
Adopt == /\ UNCHANGED history
         /\ \E i \in DOMAIN history : \E j \in i..Len(history) :
               seen = history[i] /\ seen' = history[j]

Next == Save \/ Adopt

CatchesUp == []<>(seen = Newest)

Safety == Init /\ [][Next]_<<history, seen>>
Spec   == Safety /\ CatchesUp
=============================================================================
