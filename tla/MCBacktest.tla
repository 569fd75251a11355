----------------------------- MODULE MCBacktest -----------------------------
\* Instances of Backtest for TLC: two symbols, every small split configuration.
EXTENDS Backtest

CONSTANTS a, b

MCSymbol == {a, b}

MCBook ==
    {[s \in MCSymbol |-> 0],
     [s \in MCSymbol |-> IF s = a THEN 2 ELSE 0],
     [s \in MCSymbol |-> IF s = a THEN 1 ELSE -1]}

MCConfigs ==
    [splits : 1 .. 3, minTrain : 1 .. 2, purge : 0 .. 1, embargo : 0 .. 1,
     rolling : BOOLEAN]
=============================================================================
