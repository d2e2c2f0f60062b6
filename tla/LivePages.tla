------------------------------ MODULE LivePages ------------------------------
(***************************************************************************)
(* What the open chat pages promise, without threads, queues and events:   *)
(* a message that arrives is stored and due at once; a page opens with all *)
(* that is stored in its conversation; a due message comes up on all open  *)
(* pages in one step; an erased one goes from all of them in one step.     *)
(*                                                                         *)
(* The promise says also what it does not cover.  A message is due even    *)
(* after it was erased, so it may come up again; it comes up on pages of   *)
(* other conversations too; and before the user is home, where no page is  *)
(* open, a due message may be dropped.                                     *)
(***************************************************************************)
EXTENDS Naturals

CONSTANTS Loud,     \* messages of peers that a page lists
          Cid,      \* conversations
          MaxOpen   \* chat pages that are open at the same time

VARIABLES home,     \* the user is on the home page or on one above it
          arrived,  \* messages that have reached the device
          stored,   \* the messages of each conversation
          due,      \* messages that have still to come up on the open pages
          open,     \* number of open pages
          shown     \* what each of them shows

vars == <<home, arrived, stored, due, open, shown>>

Init ==
  /\ home = FALSE
  /\ arrived = {}
  /\ stored = [c \in Cid |-> {}]
  /\ due = {}
  /\ open = 0
  /\ shown = [i \in 1..MaxOpen |-> {}]

Home ==
  /\ ~home
  /\ home' = TRUE
  /\ UNCHANGED <<arrived, stored, due, open, shown>>

Arrive(m, c) ==
  /\ m \notin arrived
  /\ arrived' = arrived \cup {m}
  /\ stored' = [stored EXCEPT ![c] = @ \cup {m}]
  /\ due' = due \cup {m}
  /\ UNCHANGED <<home, open, shown>>

ComeUp(m) ==
  /\ home
  /\ m \in due
  /\ due' = due \ {m}
  /\ shown' = [i \in 1..MaxOpen |-> IF i <= open THEN shown[i] \cup {m} ELSE shown[i]]
  /\ UNCHANGED <<home, arrived, stored, open>>

Drop(m) ==
  /\ ~home
  /\ m \in due
  /\ due' = due \ {m}
  /\ UNCHANGED <<home, arrived, stored, open, shown>>

Open(c) ==
  /\ home
  /\ open < MaxOpen
  /\ open' = open + 1
  /\ shown' = [shown EXCEPT ![open + 1] = stored[c]]
  /\ UNCHANGED <<home, arrived, stored, due>>

Close ==
  /\ open > 0
  /\ open' = open - 1
  /\ shown' = [shown EXCEPT ![open] = {}]
  /\ UNCHANGED <<home, arrived, stored, due>>

Forget(gone) ==
  /\ stored' = [c \in Cid |-> stored[c] \ gone]
  /\ shown' = [i \in 1..MaxOpen |-> shown[i] \ gone]
  /\ UNCHANGED <<home, arrived, due, open>>

Die ==
  /\ home' = FALSE
  /\ due' = {}
  /\ open' = 0
  /\ shown' = [i \in 1..MaxOpen |-> {}]
  /\ UNCHANGED <<arrived, stored>>

Next ==
  \/ Home
  \/ \E m \in Loud, c \in Cid : Arrive(m, c)
  \/ \E m \in Loud : ComeUp(m) \/ Drop(m)
  \/ \E c \in Cid : Open(c)
  \/ Close
  \/ \E gone \in SUBSET Loud : Forget(gone)
  \/ Die

Spec == Init /\ [][Next]_vars
=============================================================================
