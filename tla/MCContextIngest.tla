-------------------------- MODULE MCContextIngest --------------------------
(***************************************************************************)
(* Instance of ContextIngest for TLC: a feed of each kind, the bars with   *)
(* two symbols.                                                            *)
(***************************************************************************)
EXTENDS ContextIngest

CONSTANTS a, b

MCSymbol == {a, b}

MCFeeds ==
    {[kind |-> k, symbols |-> <<a>>] : k \in Kinds \ {"bars"}}
        \cup {[kind |-> "bars", symbols |-> <<a, b>>]}
=============================================================================
