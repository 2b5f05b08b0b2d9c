-------------------------------- MODULE MCBook --------------------------------
(***************************************************************************)
(* Book on small instances, compared with the lot-by-lot reference.  Order *)
(* ids and accounts are interchangeable.                                   *)
(***************************************************************************)
EXTENDS Book, TLC

Reference == INSTANCE MatchingReference

Symmetry == Permutations(Ids) \cup Permutations(Accounts)

\* A book without its index, its cached totals and its levels' identities.
View(b) ==
  [queues |-> [s \in Sides |-> [p \in Prices |-> IF b[1][s][p] = None THEN <<>>
                                                 ELSE b[1][s][p].queue]],
   orders |-> b[3], nextSequence |-> b[4]]

\* Planning the whole sweep ahead and committing it later is unobservable:
\* every call that did not run out of memory returned what trading lot by lot
\* against the first order in price-time order returns, and left that book.
AnswersAsTheReference ==
  phase = "done" =>
    LET expected == Reference!Answer(View(before), call)
    IN \/ View(book) = expected.book /\ result = Outcome(expected.status, expected.fills,
                                                         expected.restingQty)
       \/ result.status = "Threw" /\ expected.status # "Threw" /\ book = before

===============================================================================
