-------------------------- MODULE AtomicPriceStore --------------------------
(***************************************************************************)
(* What the price store promises the jobs that write to it: a SaveQuote or *)
(* a SaveHistoryQuote that succeeds compares its quote with the rows as    *)
(* they are at that moment and replaces them or leaves them, all at once.  *)
(* PriceStore implements this with two statements in a transaction.        *)
(***************************************************************************)
EXTENDS PricePrecedence

VARIABLES current, history, saved, imported

atomicVars == <<current, history, saved, imported>>

Changes(q) == history[Date(q)] = None \/ TakesHistory(q, history[Date(q)])

Written(q) == IF Changes(q) THEN [history EXCEPT ![Date(q)] = q] ELSE history

Save(q) ==
  /\ current' = IF TakesCurrent(q, current) THEN q ELSE current
  /\ history' = Written(q)
  /\ saved' = saved \cup {q}
  /\ UNCHANGED imported

SaveHistory(q) ==
  /\ history' = Written(q)
  /\ imported' = imported \cup {q}
  /\ UNCHANGED <<current, saved>>

AtomicInit ==
  /\ current = Seed /\ history = [d \in Dates |-> None]
  /\ saved = {} /\ imported = {}

AtomicNext == \E q \in Quote : Save(q) \/ SaveHistory(q)

AtomicSpec == AtomicInit /\ [][AtomicNext]_atomicVars
=============================================================================
