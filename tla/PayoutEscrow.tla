---------------------------- MODULE PayoutEscrow ----------------------------
(***************************************************************************)
(* What a payout promises to the tenant who pays for it, with nothing said *)
(* of rows, callbacks or operators: the shillings are taken from the       *)
(* spendable balance into a reserve before Safaricom hears of the payout;  *)
(* they leave the reserve once, towards payouts_paid or back to the        *)
(* balance; and they never go back when Safaricom has paid or can still    *)
(* pay.  PayoutLifecycle implements it.                                    *)
(***************************************************************************)
CONSTANT Payouts

VARIABLES
  money,    \* payout -> where its shillings are
  verdict   \* payout -> what Safaricom made of it

Places == {"balance", "reserve", "paid", "returned"}

Verdicts == {"open", "paid", "refused"}

Init ==
  /\ money = [t \in Payouts |-> "balance"]
  /\ verdict = [t \in Payouts |-> "open"]

Move(t, from, to) == money[t] = from /\ money' = [money EXCEPT ![t] = to]

Reserve(t) == Move(t, "balance", "reserve") /\ UNCHANGED verdict

\* Safaricom decides; it pays only what is in the reserve
Decide(t) ==
  /\ verdict[t] = "open"
  /\ money[t] = "reserve"
  /\ \E v \in {"paid", "refused"} : verdict' = [verdict EXCEPT ![t] = v]
  /\ UNCHANGED money

Discharge(t) == verdict[t] = "paid" /\ Move(t, "reserve", "paid") /\ UNCHANGED verdict

Return(t) == verdict[t] # "paid" /\ Move(t, "reserve", "returned") /\ UNCHANGED verdict

Next == \E t \in Payouts : Reserve(t) \/ Decide(t) \/ Discharge(t) \/ Return(t)

Spec == Init /\ [][Next]_<<money, verdict>>

=============================================================================
