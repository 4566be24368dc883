-------------------------------- MODULE Bank --------------------------------
(***************************************************************************)
(* x/bank as the keepers use it: balances by account and denomination.  A  *)
(* transfer that would leave a balance negative is an error.               *)
(***************************************************************************)
EXTENDS Integers

CanPay(b, from, denom, amount) == b[from][denom] - amount \in Nat
Credit(b, to, denom, amount) == [b EXCEPT ![to][denom] = @ + amount]
Debit(b, from, denom, amount) == [b EXCEPT ![from][denom] = @ - amount]
Send(b, from, to, denom, amount) == Credit(Debit(b, from, denom, amount), to, denom, amount)
=============================================================================
