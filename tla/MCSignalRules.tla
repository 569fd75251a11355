---------------------------- MODULE MCSignalRules ----------------------------
\* An instance of SignalRules for TLC: two versions with one period, a third with
\* another.
EXTENDS SignalRules, TLC

MCParams ==
    1 :> [period |-> 14, trend_start |-> 1, trend_end |-> 3, oversold |-> 2, overbought |-> 2]
    @@ 2 :> [period |-> 14, trend_start |-> 2, trend_end |-> 3, oversold |-> 3, overbought |-> 2]
    @@ 3 :> [period |-> 21, trend_start |-> 1, trend_end |-> 3, oversold |-> 2, overbought |-> 2]
=============================================================================
