------------------------------ MODULE MCPipeline ------------------------------
(***************************************************************************)
(* Two mints, the smaller one of Pump.fun, with the durations and the      *)
(* thresholds of the code.  A burst is a market: the constants below are   *)
(* chosen so that each verdict is reached, and each is missed by little.   *)
(***************************************************************************)
EXTENDS Pipeline

\* Events of <<wallet, isBuy, ago, hundredths of a SOL, tokens>>.
Events(tuples) ==
    [i \in DOMAIN tuples |-> [wallet |-> tuples[i][1], isBuy |-> tuples[i][2],
                              ago |-> tuples[i][3], sol |-> tuples[i][4], qty |-> tuples[i][5]]]

\* Twelve buyers at no regular pace, the first alone in its slot, nine of them
\* in the last minute and three in the one before.
Crowd ==
    <<<<1, TRUE, 110, 150, 10>>, <<2, TRUE, 97, 90, 10>>, <<3, TRUE, 71, 320, 10>>,
      <<4, TRUE, 55, 110, 10>>, <<5, TRUE, 54, 260, 10>>, <<6, TRUE, 31, 75, 10>>,
      <<7, TRUE, 29, 410, 10>>, <<8, TRUE, 28, 130, 10>>, <<9, TRUE, 12, 180, 10>>,
      <<10, TRUE, 10, 240, 10>>, <<11, TRUE, 4, 95, 10>>, <<12, TRUE, 2, 300, 10>>>>

Organic == Events(Crowd)
\* The same crowd on a token that is seven hours old.
Revived == Events(<<<<13, TRUE, 7 * Hour, 10, 0>>>> \o Crowd)
\* Round trips of the same amount of tokens by one wallet.
Bump == Events(<<<<13, TRUE, 50, 100, 7>>, <<13, FALSE, 46, 99, 7>>,
                 <<13, TRUE, 21, 100, 7>>, <<13, FALSE, 19, 99, 7>>>>)
\* More is sold within the minute than the crowd bought in it.
Dump == Events(<<<<1, FALSE, 20, 900, 1>>, <<2, FALSE, 8, 900, 1>>>>)
Dust == Events(<<<<1, TRUE, 30, 1, 0>>>>)
\* Nine equal buys at a regular pace.
Machine == Events([i \in 1 .. 9 |-> <<i, TRUE, 5 + 10 * (9 - i), 100, 10>>])

MCBurst ==
    [mint \in Mint |-> IF mint \in PumpMint THEN {Organic, Revived, Bump, Dump, Dust, Machine}
                       ELSE {Organic, Dust}]

\* Amounts, of SOL in hundredths and of tokens.
MCAmount == 0 .. 1000

MCQuery ==
    {[window |-> 4 * Hour, minBuyers |-> 0, limit |-> 500, actionableOnly |-> FALSE],
     [window |-> 4 * Hour, minBuyers |-> 3, limit |-> 1, actionableOnly |-> TRUE]}

MCFunding ==
    {[healthy |-> TRUE, first |-> "own", second |-> "own"],
     [healthy |-> TRUE, first |-> "shared", second |-> "shared"],
     [healthy |-> TRUE, first |-> "partial", second |-> "partial"],
     [healthy |-> TRUE, first |-> "failed", second |-> "shared"],
     [healthy |-> TRUE, first |-> "own", second |-> "failed"],
     [healthy |-> FALSE, first |-> "own", second |-> "own"]}

=============================================================================
