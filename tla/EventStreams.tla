----------------------------- MODULE EventStreams -----------------------------
(***************************************************************************)
(* What the bridge between the native client and the isolate promises,     *)
(* without threads, ports, queue and logins: each kind of events has a     *)
(* stream of its own.  As soon as the isolate is ready for a kind, every   *)
(* event of that kind is due, and due events are handed on one by one,     *)
(* the oldest first.                                                       *)
(*                                                                         *)
(* The promise says also what it does not cover.  Events of a kind for     *)
(* which the isolate is not ready yet are never handed on, and when the    *)
(* process dies, all that was due is gone, with the events that no         *)
(* callback had been told of: the numbers that follow may leave a gap.     *)
(***************************************************************************)
EXTENDS Naturals, Sequences

CONSTANT Kind

VARIABLES ready,   \* the kinds whose events are handed on
          raised,  \* per kind, the number of events so far: they are numbered
          due,     \* per kind, the events that have still to be handed on
          handled  \* per kind, the events handed on, in this order

vars == <<ready, raised, due, handled>>

Init ==
  /\ ready = {}
  /\ raised = [k \in Kind |-> 0]
  /\ due = [k \in Kind |-> {}]
  /\ handled = [k \in Kind |-> <<>>]

\* The isolate is ready for the kind; it may say so more than once.
Register(k) ==
  /\ ready' = ready \cup {k}
  /\ UNCHANGED <<raised, due, handled>>

\* An event that comes before that is gone.
Raise(k) ==
  /\ raised' = [raised EXCEPT ![k] = @ + 1]
  /\ due' = IF k \in ready THEN [due EXCEPT ![k] = @ \cup {raised[k] + 1}] ELSE due
  /\ UNCHANGED <<ready, handled>>

\* The oldest event that is due goes to the stream.
HandOn(k) ==
  \E n \in due[k] :
    /\ \A m \in due[k] : n <= m
    /\ due' = [due EXCEPT ![k] = @ \ {n}]
    /\ handled' = [handled EXCEPT ![k] = Append(@, n)]
    /\ UNCHANGED <<ready, raised>>

\* The process dies; the numbers go on in the next one.
Die ==
  /\ ready' = {}
  /\ due' = [k \in Kind |-> {}]
  /\ raised' \in [Kind -> Nat] /\ \A k \in Kind : raised'[k] >= raised[k]
  /\ UNCHANGED handled

Next ==
  \/ \E k \in Kind : Register(k) \/ Raise(k) \/ HandOn(k)
  \/ Die

Spec == Init /\ [][Next]_vars
=============================================================================
