---------------------------- MODULE MCProjections ----------------------------
(* Users 1 and 2; user 1 owns rewards 1, 2 and 4, user 2 owns reward 3.       *)
EXTENDS Projections, TLC

CONSTANTS t1, t2, t3, t4, w1, w2

Owners == <<1, 1, 2, 1>>

\* Reward 1 is adjusted, an event on rewards 2 and 3 reaches both users, an event
\* on reward 3 one of them, and reward 4 is granted.
AllKind == (t1 :> "adjust") @@ (t2 :> "grant") @@ (t3 :> "event") @@ (t4 :> "event")
AllDo   == (t1 :> {1}) @@ (t2 :> {4}) @@ (t3 :> {2, 3}) @@ (t4 :> {3})

Load(writers, workers, limit, checks) ==
  [writers |-> writers, workers |-> workers, syncLimit |-> limit, checks |-> checks]

\* Every writer refreshes in its own transaction while reconciliation runs; an
\* event leaves its users to the queue and two workers; or it does so while
\* reconciliation runs.
WritersAndQueue == {Load({t1, t2, t3, t4}, {}, 2, 1), Load({t1, t3, t4}, {w1, w2}, 1, 0),
                    Load({t1, t3}, {w1}, 1, 1)}

\* An event and an adjustment of one reward it changes.
MixedKind == (t1 :> "adjust") @@ (t3 :> "event")
MixedDo   == (t1 :> {2}) @@ (t3 :> {2, 3})
Inline    == {Load(Writer, {}, 2, 0)}

\* Two events that reach both users.
EventsKind == (t3 :> "event") @@ (t4 :> "event")
EventsDo   == (t3 :> {2, 3}) @@ (t4 :> {2, 3})
Queued     == {Load(Writer, {w1}, 1, 0)}
Reconciled == {Load(Writer, {}, 2, 1)}
=============================================================================
