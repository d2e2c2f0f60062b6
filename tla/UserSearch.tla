------------------------------ MODULE UserSearch ------------------------------
(***************************************************************************)
(* The search for users: what the native client finds in the network, the  *)
(* list DhtClient collects, and the results the add-friend page shows      *)
(* (lib/ui/friends/add_friend_page.dart).                                  *)
(*                                                                         *)
(* A search only clears the list and asks the network.  Each answer is a   *)
(* port message of its own and carries no mark of the search it belongs    *)
(* to.  The page hears of them through a StreamBuilder that the next frame *)
(* mounts, since findStream repeats nothing to a new listener, and unmounts*)
(* when the user goes on typing.                                           *)
(***************************************************************************)
EXTENDS Integers, Sequences

CONSTANTS Person,    \* users of the network who answer to some search
          MaxSearch, \* bound: searches
          MaxAnswers \* bound: answers of one person to one search

ASSUME SearchAssumption == MaxSearch \in Nat /\ MaxAnswers \in Nat

VARIABLES
  nr,       \* number of the latest search
  asked,    \* how many answers of whom to which search are under way, in the
            \* network or as port messages: nothing keeps them in order
  results,  \* listFindUserResult
  isResult, \* the page is to show results
  mounted,  \* it has a StreamBuilder
  snap,     \* what that heard last, with the number of the search it heard it in
  early,    \* for the properties: results that came before it was mounted
  late      \* for the properties: answers under way when the latest search began

searchVars == <<nr, asked, results, isResult, mounted, snap, early, late>>
-----------------------------------------------------------------------------
Answer == [user : Person, nr : 1..MaxSearch]
NoSnap == [nr |-> 0, list |-> <<>>]

UserOf(list) == {list[k].user : k \in DOMAIN list}

SearchInit ==
  /\ nr = 0
  /\ asked = [a \in Answer |-> 0]
  /\ results = <<>>
  /\ isResult = FALSE
  /\ mounted = FALSE
  /\ snap = NoSnap
  /\ early = 0
  /\ late = {}

\* Mutant: the list is not cleared.
find_user_KeepsList ==
  /\ nr < MaxSearch
  /\ nr' = nr + 1
  /\ \E P \in SUBSET Person, n \in 1..MaxAnswers :
       asked' = [a \in Answer |-> IF a.nr = nr' /\ a.user \in P THEN n ELSE asked[a]]
  /\ late' = {a \in Answer : asked[a] > 0}
  /\ UNCHANGED results

\* The list is cleared, and whoever matches the words will answer, each along
\* as many ways as the network has.
find_user ==
  /\ nr < MaxSearch
  /\ nr' = nr + 1
  /\ results' = <<>>
  /\ \E P \in SUBSET Person, n \in 1..MaxAnswers :
       asked' = [a \in Answer |-> IF a.nr = nr' /\ a.user \in P THEN n ELSE asked[a]]
  /\ late' = {a \in Answer : asked[a] > 0}

\* The user starts a search, from the button or the keyboard.
search ==
  /\ find_user
  /\ isResult' = TRUE
  /\ early' = 0
  /\ UNCHANGED <<mounted, snap>>

\* The user goes on typing, or leaves the search field.
Type ==
  /\ isResult
  /\ isResult' = FALSE
  /\ UNCHANGED <<nr, asked, results, mounted, snap, early, late>>

\* A frame mounts or unmounts the StreamBuilder.
Show ==
  /\ isResult # mounted
  /\ mounted' = isResult
  /\ snap' = NoSnap
  /\ early' = IF isResult THEN Len(results) ELSE 0
  /\ UNCHANGED <<nr, asked, results, isResult, late>>

\* on_find_user has posted an answer, and the isolate takes it.
Take(a) ==
  /\ asked[a] > 0
  /\ asked' = [asked EXCEPT ![a] = @ - 1]

\* Mutant: the page is told before the answer is in the list.
setFindUserNotify_TellsFirst(a) ==
  /\ Take(a)
  /\ IF a.user \in UserOf(results)
     THEN UNCHANGED <<results, snap>>
     ELSE /\ results' = Append(results, a)
          /\ snap' = IF mounted THEN [nr |-> nr, list |-> results] ELSE snap
  /\ UNCHANGED <<nr, isResult, mounted, early, late>>

\* It is added, if the list does not have it yet, and a copy goes to the stream.
setFindUserNotify(a) ==
  /\ Take(a)
  /\ IF a.user \in UserOf(results)
     THEN UNCHANGED <<results, snap>>
     ELSE /\ results' = Append(results, a)
          /\ snap' = IF mounted THEN [nr |-> nr, list |-> results'] ELSE snap
  /\ UNCHANGED <<nr, isResult, mounted, early, late>>

\* The page is left, by a tap on a result among others; the list stays as it is.
LeaveSearch ==
  /\ isResult' = FALSE
  /\ mounted' = FALSE
  /\ snap' = NoSnap
  /\ early' = 0
  /\ UNCHANGED <<nr, asked, results, late>>
-----------------------------------------------------------------------------
SearchTypeOK ==
  /\ nr \in 0..MaxSearch
  /\ asked \in [Answer -> 0..MaxAnswers]
  /\ results \in Seq(Answer)
  /\ isResult \in BOOLEAN /\ mounted \in BOOLEAN
  /\ snap \in [nr : 0..MaxSearch, list : Seq(Answer)]
  /\ early \in Nat
  /\ late \subseteq Answer

\* The page shows all that has been found, with two exceptions: it still shows an
\* earlier search, and nothing has been found since (dhtclient.dart line 156), or
\* everything was found before a frame mounted the StreamBuilder, which then waits
\* for the next answer (add_friend_page.dart lines 129 to 134).
ShownIsFound ==
  mounted =>
    \/ snap # NoSnap /\ snap.nr < nr
    \/ snap # NoSnap /\ snap.list = results
    \/ snap = NoSnap /\ Len(results) <= early

\* An answer to an earlier search mixes with those of the latest one only if it was
\* still under way when that began: what the list held before never comes back.
OnlyLateAnswersMix ==
  \A k \in DOMAIN results : results[k].nr = nr \/ results[k] \in late
=============================================================================
