---------------------------- MODULE FeeMarketMC -----------------------------
(* Small fee markets: a target of 3 units of gas, blocks of up to two and   *)
(* three times that, steps of a quarter or a half; and settings that the    *)
(* constructor refuses.                                                     *)
EXTENDS FeeMarket

MCSettings ==
  [target_gas: {0, 3}, max_gas: {2, 6, 9}, denominator: {0, 1, 2, 4},
   min_base_fee: {-1, 0, 1, 5}]

MCFirstFees == {0, 1, 7, 12}

MCGasReports == {-1, 0, 1, 2, 3, 4, 6, 8, 10}

MCTips == -1..12

=============================================================================
