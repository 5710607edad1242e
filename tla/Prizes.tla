------------------------------- MODULE Prizes -------------------------------
(***************************************************************************)
(* The arithmetic of settlement: the prize pool after commission and its   *)
(* division over the paid positions of a payout template, in whole minor   *)
(* units.  A template is a sequence of rows [from, to, shareBps].          *)
(***************************************************************************)
EXTENDS Integers, Sequences, Functions

Span(row) == row.to - row.from + 1

(* Share of each position, rows in order: a later row overwrites.          *)
PerPosition(template) ==
  LET rowsOf(pos) == {i \in DOMAIN template :
                        pos \in template[i].from .. template[i].to}
      lastRow(pos) == template[CHOOSE i \in rowsOf(pos) : \A j \in rowsOf(pos) : j <= i]
      positions == UNION {template[i].from .. template[i].to : i \in DOMAIN template}
  IN  [pos \in positions |-> lastRow(pos).shareBps \div Span(lastRow(pos))]

(* Rows of naturals that give position 1 a share, as the launch template   *)
(* and the schema's example do.                                            *)
TemplatePays(template) ==
  /\ template \in Seq([from : Nat \ {0}, to : Nat, shareBps : Nat])
  /\ 1 \in DOMAIN PerPosition(template) /\ PerPosition(template)[1] > 0

PaidPositions(template, entrants) ==
  {pos \in DOMAIN PerPosition(template) : pos <= entrants}

PrizePool(gross, commissionBps) == (gross * (10000 - commissionBps)) \div 10000

(* What a contest is listed with while entries come in.                    *)
EstimatedPool(entryFee, entryCount, commissionBps) ==
  LET gross == entryFee * entryCount
  IN  (gross * (10000 - commissionBps)) \div 10000

(* Mutant: the rounding dust stays undistributed.                          *)
ComputePrizesUndusted(pool, template, entrants) ==
  LET paid == PaidPositions(template, entrants)
      total == SumFunctionOnSet(PerPosition(template), paid)
  IN  IF paid = {} \/ pool <= 0 THEN <<>>
      ELSE [pos \in paid |-> (pool * PerPosition(template)[pos]) \div total]

(* Positions beyond the entrants fall away, the remaining shares are       *)
(* renormalized, and what rounding leaves goes to position 1.              *)
ComputePrizes(pool, template, entrants) ==
  LET share == PerPosition(template)
      paid == PaidPositions(template, entrants)
      total == SumFunctionOnSet(share, paid)
      base == [pos \in paid |-> (pool * share[pos]) \div total]
      dust == pool - SumFunction(base)
  IN  IF paid = {} \/ pool <= 0 THEN <<>> ELSE [base EXCEPT ![1] = @ + dust]
=============================================================================
