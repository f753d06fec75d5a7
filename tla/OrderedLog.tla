----------------------------- MODULE OrderedLog -----------------------------
(***************************************************************************)
(* What a Writer promises: a log of items that ascend strictly, to which   *)
(* items are only appended, and which is closed once: sealed by a manifest *)
(* or, if that cannot be written, abandoned.                               *)
(***************************************************************************)
EXTENDS Sequences

CONSTANTS Item, Before(_, _)

VARIABLES log, status

vars == <<log, status>>

Init == log = <<>> /\ status = "open"

Add(item) == /\ status = "open"
             /\ log # <<>> => Before(log[Len(log)], item)
             /\ log' = Append(log, item)
             /\ UNCHANGED status

Finish == /\ status = "open"
          /\ status' \in {"sealed", "abandoned"}
          /\ UNCHANGED log

Next == (\E item \in Item : Add(item)) \/ Finish

Spec == Init /\ [][Next]_vars
=============================================================================
