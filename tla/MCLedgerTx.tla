----------------------------- MODULE MCLedgerTx -----------------------------
(***************************************************************************)
(* Callers on one wallet, one escrow and the unguarded clearing account:   *)
(* two entry fees of which the wallet covers one until a deposit comes in, *)
(* the second tried twice; a refund that locks the same rows in the        *)
(* opposite order; and the deposit, which its webhook and the client's     *)
(* verification post under one key.                                        *)
(***************************************************************************)
EXTENDS LedgerTx

Move(from, to, n) ==
  [a \in Accounts |-> CASE a = from -> -n [] a = to -> n [] OTHER -> 0]

MCOpening ==
  [a \in Accounts |-> CASE a = "wallet" -> 1 [] a = "escrow" -> 1 [] OTHER -> -2]

MCKeyOf ==
  [r \in Requests |-> IF r \in {"webhook", "verify"} THEN "deposit" ELSE r]

MCOrder ==
  [r \in Requests |-> CASE r = "refund" -> <<"escrow", "wallet">>
                        [] r \in {"webhook", "verify"} -> <<"clearing", "wallet">>
                        [] OTHER -> <<"wallet", "escrow">>]

MCAmount ==
  [r \in Requests |-> CASE r = "feeA" -> Move("wallet", "escrow", 1)
                        [] r = "feeB" -> Move("wallet", "escrow", 2)
                        [] r = "refund" -> Move("escrow", "wallet", 1)
                        [] OTHER -> Move("clearing", "wallet", 1)]

MCMaxCalls == [r \in Requests |-> IF r = "feeB" THEN 2 ELSE 1]
=============================================================================
