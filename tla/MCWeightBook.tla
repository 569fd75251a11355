---------------------------- MODULE MCWeightBook ----------------------------
\* An instance of WeightBook for TLC: two ETFs and one coin over two weeks.
EXTENDS WeightBook

CONSTANTS etf1, etf2, coin

MCSymbol == {etf1, etf2, coin}
MCCrypto == {coin}
MCReturn == {-1, 1}

\* The coin is the most volatile, as in the universe.
MCInvVol ==
    [s \in MCSymbol |-> IF s = etf1 THEN 3 ELSE IF s = etf2 THEN 2 ELSE 1]

\* Horizons on both sides of the volatility's warm-up, both schemes, caps that
\* bind (a third and a sixth of the book are crypto without them).
MCParams ==
    <<[horizon |-> 1, scheme |-> "equal_weight", cap |-> <<1, 5>>],
      [horizon |-> 2, scheme |-> "inverse_vol", cap |-> <<1, 10>>]>>

\* Bound: etf1 has every history, rows of either sign that come in any order or
\* not at all; the other two only rise, and have the first week before any symbol
\* has the second.
OneFreeSymbol ==
    \A s \in Symbol \ {etf1} :
        /\ \A w \in Weeks : silver[s][w] # -1
        /\ silver[s][1] # NoRow \/ \A t \in Symbol : silver[t][2] = NoRow
=============================================================================
