---------------------------- MODULE AtomicLedger ----------------------------
(***************************************************************************)
(* What the reward write path promises, without transactions, locks or     *)
(* statements: every request is one indivisible step on the books -- it    *)
(* grants a reward, adjusts one, replays an earlier answer, or is refused  *)
(* and leaves no trace.  RewardLedger is shown to implement it.            *)
(***************************************************************************)
EXTENDS Integers

CONSTANTS Request, RewardId, Payload, Price, MaxDay, None

VARIABLES payload, rewards, adjustments, ledger, answer

vars == <<payload, rewards, adjustments, ledger, answer>>

Answered(r, status, body) ==
  answer' = [answer EXCEPT ![r] = [status |-> status, body |-> body]]

\* A request that changed the books is told so, or loses its answer.
Acknowledged(r, body) == Answered(r, 200, body) \/ Answered(r, 500, None)

Waiting(r, kind) == payload[r] # None /\ payload[r].kind = kind /\ answer[r] = None

Submit(r, p) ==
  /\ payload[r] = None
  /\ payload' = [payload EXCEPT ![r] = p]
  /\ UNCHANGED answer \/ Answered(r, 400, None)
  /\ UNCHANGED <<rewards, adjustments, ledger>>

Taken(p, day) ==
  \E w \in RewardId :
    /\ rewards[w] # None
    /\ \/ p.key # None /\ rewards[w].key = p.key
       \/ rewards[w].user = p.user /\ rewards[w].symbol = p.symbol /\ rewards[w].date = day

\* One grant per idempotency key and per (user, symbol, market day), at a price
\* the symbol really had, booked as units in, cash out and fees on that cash.
Grant(r) ==
  LET p == payload[r] IN
  /\ Waiting(r, "create")
  /\ p.qty > 0
  /\ rewards[r] = None
  /\ \E day \in 0..MaxDay, price \in Price :
        LET notional == price * p.qty
            body     == [id |-> r, amount |-> notional] IN
        /\ price > 0
        /\ ~Taken(p, day)
        /\ rewards' = [rewards EXCEPT ![r] =
              [user |-> p.user, symbol |-> p.symbol, date |-> day, quantity |-> p.qty,
               original |-> p.qty, key |-> p.key, response |-> body]]
        /\ ledger' = [ledger EXCEPT ![r] =
              [units |-> p.qty, cash |-> -notional, feeBase |-> notional]]
        /\ Acknowledged(r, body)
  /\ UNCHANGED <<payload, adjustments>>

\* One effect per idempotency key; the balance never goes below zero and the
\* ledger moves with it.
Adjust(r) ==
  LET p    == payload[r]
      w    == p.reward
      body == [id |-> r, amount |-> p.da] IN
  /\ Waiting(r, "adjust")
  /\ rewards[w] # None
  /\ adjustments[r] = None
  /\ rewards[w].quantity + p.dq >= 0
  /\ \A a \in Request : (p.key # None /\ adjustments[a] # None)
                           => adjustments[a].of.key # p.key
  /\ rewards' = [rewards EXCEPT ![w].quantity = @ + p.dq]
  /\ adjustments' = [adjustments EXCEPT ![r] = [of |-> p, response |-> body]]
  /\ ledger' = [ledger EXCEPT ![w].units = @ + p.dq, ![w].cash = @ + p.da]
  /\ Acknowledged(r, body)
  /\ UNCHANGED payload

\* A retry is answered with the response of the effect that holds its key.
Original(r, body) ==
  LET p == payload[r] IN
  /\ p.key # None
  /\ \/ /\ p.kind = "create"
        /\ \E w \in RewardId : /\ rewards[w] # None
                               /\ rewards[w].key = p.key
                               /\ rewards[w].user = p.user
                               /\ rewards[w].symbol = p.symbol
                               /\ rewards[w].original = p.qty
                               /\ rewards[w].response = body
     \/ /\ p.kind = "adjust"
        /\ \E a \in Request : /\ adjustments[a] # None
                              /\ adjustments[a].of = p
                              /\ adjustments[a].response = body

ReplayOriginal(r) ==
  /\ payload[r] # None /\ answer[r] = None
  /\ \E body \in {rewards[w].response : w \in {v \in RewardId : rewards[v] # None}}
            \cup {adjustments[a].response : a \in {b \in Request : adjustments[b] # None}} :
        Original(r, body) /\ body # None /\ Answered(r, 200, body)
  /\ UNCHANGED <<payload, rewards, adjustments, ledger>>

Refuse(r) ==
  /\ payload[r] # None /\ answer[r] = None
  /\ \E status \in {400, 409, 500} : Answered(r, status, None)
  /\ UNCHANGED <<payload, rewards, adjustments, ledger>>

Init == /\ payload = [r \in Request |-> None]
        /\ answer = [r \in Request |-> None]
        /\ adjustments = [r \in Request |-> None]
        /\ \A r \in Request : rewards[r] = None

Next == \E r \in Request : \/ \E p \in Payload : Submit(r, p)
                           \/ Grant(r) \/ Adjust(r) \/ ReplayOriginal(r) \/ Refuse(r)

Spec == Init /\ [][Next]_vars
=============================================================================
