----------------------------- MODULE WeightBook -----------------------------
(***************************************************************************)
(* Strategy 3: weekly excess returns (silver) -> momentum signals          *)
(* (fact_signals of strategy 3, stage A) -> two weight books per week      *)
(* (fact_portfolio_weights, stage B), under a versioned parameter row.     *)
(*                                                                         *)
(* Every run recomputes the whole history, and both MERGEs only upsert.    *)
(* The pipeline is run by hand, all of it or one stage, while weeks go on  *)
(* and parameters may be promoted, also between the two stages: each reads *)
(* the active row anew.  The symbols' rows of a week appear one by one and *)
(* any time later, the coins' with the daily pipeline, the ETFs' when their*)
(* bars are ingested and conformed by hand: a leg may join a week whose    *)
(* book is already stored.                                                 *)
(*                                                                         *)
(* A return is an integer; a volatility is given by its inverse (InvVol),  *)
(* constant per symbol; a weight is an exact fraction <<num, den>>.        *)
(***************************************************************************)
EXTENDS Integers, FiniteSets, FiniteSetsExt

CONSTANTS
    LastWeek,    \* bound: the model's weeks are 1..LastWeek
    Symbol,      \* FULL_UNIVERSE
    Crypto,      \* its crypto sleeve
    Return,      \* excess log returns
    InvVol,      \* 1 / realized_vol of each symbol
    VolWarmUp,   \* returns behind a volatility (26)
    Params,      \* parameter rows by version
    NoCap,       \* crypto_cap IS NULL
    NoRow,
    MaxUpsets,   \* bound: promotions and changes before a symbol's last row
    Env          \* disturbances, a subset of the ones below

(***************************************************************************)
(* promote  another parameter version becomes active                       *)
(* revise   a row before the symbol's last appears or changes, after a late*)
(*          candle or dividend (the last may always, its week being open)  *)
(***************************************************************************)
Disturbances == {"promote", "revise"}

Weeks == 1 .. LastWeek
Versions == DOMAIN Params
\* In this version risk_parity is inverse_vol by another name.
Schemes == {"equal_weight", "inverse_vol", "risk_parity"}
Signs == {-1, 0, 1}

\* The schemas of fact_signals and fact_portfolio_weights.
SignalRowType == [signal : Signs, invVol : Nat]
WeightRowType == [weight : Int \X Nat, scheme : Schemes, version : Versions]

ASSUME WeightBookAssumption ==
    /\ LastWeek \in Nat
    /\ IsFiniteSet(Symbol) /\ Crypto \subseteq Symbol
    /\ Return \subseteq Int
    /\ NoRow \notin Return \cup SignalRowType \cup WeightRowType
    /\ InvVol \in [Symbol -> Nat \ {0}]
    /\ VolWarmUp \in Nat
    /\ Versions \subseteq Nat
    /\ \A v \in Versions :
         /\ Params[v].horizon \in Nat \ {0}
         /\ Params[v].scheme \in Schemes
         /\ Params[v].cap # NoCap =>
              /\ Params[v].cap \in Nat \X Nat
              /\ 0 < Params[v].cap[1] /\ Params[v].cap[1] <= Params[v].cap[2]
    /\ MaxUpsets \in Nat
    /\ Env \subseteq Disturbances

VARIABLES
    now,          \* the last week of silver
    silver,       \* vw_asset_returns_weekly
    active,       \* the active parameter version
    upsets,       \* promotions and revisions so far
    changed,      \* history: a symbol's first week changed since stage A ran
    fact_signals, \* of strategy 3, by symbol and week
    weights,      \* fact_portfolio_weights, by book, symbol and week
    pc,           \* the stage the current run executes next
    only          \* the run's --stage

vars == <<now, silver, active, upsets, changed, fact_signals, weights, pc, only>>

Books == BOOLEAN  \* include_crypto
StageArgs == {"all", "tsmom_signal", "portfolio_weights"}
Abs(n) == IF n < 0 THEN -n ELSE n
Sgn(n) == IF n < 0 THEN -1 ELSE IF n > 0 THEN 1 ELSE 0
-----------------------------------------------------------------------------
(***************************************************************************)
(* Stage A: compute_tsmom_rows on the rows of one symbol, in week order.   *)
(***************************************************************************)
RowsUpTo(s, w) == {v \in Weeks : v <= w /\ silver[s][v] # NoRow}

\* Mutant: the window is taken around the row instead of ending at it.
CenteredWindow(s, w, horizon) ==
    {v \in RowsUpTo(s, w + 1) :
        Cardinality({u \in RowsUpTo(s, w + 1) : u > v}) < horizon}

\* excess_returns[-horizon:], counted in rows, not in calendar weeks.
Window(s, w, horizon) ==
    {v \in RowsUpTo(s, w) :
        Cardinality({u \in RowsUpTo(s, w) : u > v}) < horizon}

FormationReturn(s, w, horizon) ==
    MapThenSumSet(LAMBDA v : silver[s][v], Window(s, w, horizon))

\* A warm-up row has no signal and is never written.
IsLive(s, w, horizon) ==
    /\ silver[s][w] # NoRow
    /\ Cardinality(RowsUpTo(s, w)) >= horizon

\* Mutant: the formation return is stored in place of its sign.
UnsignedRow(s, w, horizon) ==
    [signal |-> FormationReturn(s, w, horizon),
     invVol |-> IF Cardinality(RowsUpTo(s, w)) >= VolWarmUp
                THEN InvVol[s] ELSE 0]

SignalRow(s, w, horizon) ==
    [signal |-> Sgn(FormationReturn(s, w, horizon)),
     invVol |-> IF Cardinality(RowsUpTo(s, w)) >= VolWarmUp
                THEN InvVol[s] ELSE 0]

SignalRows(horizon) ==
    [s \in Symbol |-> [w \in Weeks |->
        IF IsLive(s, w, horizon) THEN SignalRow(s, w, horizon) ELSE NoRow]]

-----------------------------------------------------------------------------
(***************************************************************************)
(* Stage B: build_portfolio on the cross-section of a week.                *)
(***************************************************************************)
\* The unnormalised weight of a leg; 0 for a leg the scheme does not hold.
Raw(row, scheme) ==
    IF row = NoRow THEN 0
    ELSE IF scheme = "equal_weight" THEN row.signal ELSE row.signal * row.invVol

RawBook(section, scheme, includeCrypto) ==
    [s \in Symbol |->
        IF s \in Crypto /\ ~ includeCrypto THEN 0 ELSE Raw(section[s], scheme)]

\* normalize_gross divides by this.
GrossOf(raw, S) == MapThenSumSet(LAMBDA s : Abs(raw[s]), S)

Legs(raw) == {s \in Symbol : raw[s] # 0}

OverCap(raw, cap) ==
    {c \in Crypto : Abs(raw[c]) * cap[2] > cap[1] * GrossOf(raw, Symbol)}

\* The gross clipped off, times GrossOf(raw, Symbol) * cap[2].
Freed(raw, cap) ==
    MapThenSumSet(
        LAMBDA c : Abs(raw[c]) * cap[2] - cap[1] * GrossOf(raw, Symbol),
        OverCap(raw, cap))

\* Mutant: the freed gross is given to every other leg in equal parts.
CappedInEqualParts(raw, cap) ==
    LET gross  == GrossOf(raw, Symbol)
        others == Cardinality(Legs(raw) \ Crypto)
    IN  [s \in Legs(raw) |->
            IF s \in OverCap(raw, cap) THEN <<Sgn(raw[s]) * cap[1], cap[2]>>
            ELSE IF s \in Crypto THEN <<raw[s], gross>>
            ELSE <<raw[s] * cap[2] * others + Sgn(raw[s]) * Freed(raw, cap),
                   gross * cap[2] * others>>]

\* apply_crypto_cap: clip the crypto legs, give what was freed to the others
\* pro rata.
Capped(raw, cap) ==
    LET gross  == GrossOf(raw, Symbol)
        others == GrossOf(raw, Symbol \ Crypto)
    IN  [s \in Legs(raw) |->
            IF s \in OverCap(raw, cap) THEN <<Sgn(raw[s]) * cap[1], cap[2]>>
            ELSE IF s \in Crypto THEN <<raw[s], gross>>
            ELSE <<raw[s] * (others * cap[2] + Freed(raw, cap)),
                   gross * cap[2] * others>>]

Uncapped(raw) == [s \in Legs(raw) |-> <<raw[s], GrossOf(raw, Symbol)>>]

\* The weights of the legs the book holds.
Book(section, p, includeCrypto) ==
    LET raw == RawBook(section, p.scheme, includeCrypto)
    IN  IF p.cap # NoCap /\ OverCap(raw, p.cap) # {}
        THEN Capped(raw, p.cap) ELSE Uncapped(raw)

Section(w) == [s \in Symbol |-> fact_signals[s][w]]

WeightRows(v) ==
    [b \in Books |-> [s \in Symbol |-> [w \in Weeks |->
        LET book == Book(Section(w), Params[v], b)
        IN  IF s \in DOMAIN book
            THEN [weight |-> book[s], scheme |-> Params[v].scheme, version |-> v]
            ELSE NoRow]]]

\* Mutant: WHEN MATCHED is missing.
InsertOnly(old, new) == IF old # NoRow THEN old ELSE new

Upsert(old, new) == IF new # NoRow THEN new ELSE old

-----------------------------------------------------------------------------
Init ==
    /\ now = 0
    /\ silver = [s \in Symbol |-> [w \in Weeks |-> NoRow]]
    /\ active \in Versions
    /\ upsets = 0
    /\ changed = [s \in Symbol |-> 1]
    /\ fact_signals = [s \in Symbol |-> [w \in Weeks |-> NoRow]]
    /\ weights = [b \in Books |-> [s \in Symbol |-> [w \in Weeks |-> NoRow]]]
    /\ pc = "idle"
    /\ only = "all"

NextWeek ==
    /\ now < LastWeek
    /\ now' = now + 1
    /\ UNCHANGED <<silver, active, upsets, changed, fact_signals, weights, pc, only>>

\* A symbol's row of a week appears, or is another one than before.
Row(s, w) ==
    /\ \E r \in Return \ {silver[s][w]} : silver' = [silver EXCEPT ![s][w] = r]
    /\ changed' = [changed EXCEPT ![s] = IF w < @ THEN w ELSE @]
    /\ UNCHANGED <<now, active, fact_signals, weights, pc, only>>

HasLaterRow(s, w) == \E v \in Weeks : w < v /\ silver[s][v] # NoRow

\* The row after the symbol's last one, symbols starting at different times and
\* missing weeks; or the last itself, as the candles of its week come in.
WeekRow(s, w) ==
    /\ w <= now
    /\ ~ HasLaterRow(s, w)
    /\ Row(s, w)
    /\ UNCHANGED upsets

\* A row in the midst of a symbol's history.
Revise(s, w) ==
    /\ "revise" \in Env
    /\ upsets < MaxUpsets
    /\ HasLaterRow(s, w)
    /\ Row(s, w)
    /\ upsets' = upsets + 1

\* UPDATE ... SET is_active = (param_version = @v) WHERE TRUE.
Promote(v) ==
    /\ "promote" \in Env
    /\ upsets < MaxUpsets
    /\ active' = v
    /\ upsets' = upsets + 1
    /\ changed' = [s \in Symbol |-> 1]
    /\ UNCHANGED <<now, silver, fact_signals, weights, pc, only>>

Start(arg) ==
    /\ pc = "idle"
    /\ pc' = IF arg = "portfolio_weights" THEN "portfolio_weights" ELSE "tsmom_signal"
    /\ only' = arg
    /\ UNCHANGED <<now, silver, active, upsets, changed, fact_signals, weights>>

EndRun == pc' = "idle" /\ only' = "all"

TsmomSignal ==
    /\ pc = "tsmom_signal"
    /\ LET batch == SignalRows(Params[active].horizon)
       IN  fact_signals' = [s \in Symbol |-> [w \in Weeks |->
               Upsert(fact_signals[s][w], batch[s][w])]]
    /\ changed' = [s \in Symbol |-> LastWeek + 1]
    /\ IF only = "all" THEN pc' = "portfolio_weights" /\ UNCHANGED only ELSE EndRun
    /\ UNCHANGED <<now, silver, active, upsets, weights>>

PortfolioWeights ==
    /\ pc = "portfolio_weights"
    /\ LET batch == WeightRows(active)
       IN  weights' = [b \in Books |-> [s \in Symbol |-> [w \in Weeks |->
               Upsert(weights[b][s][w], batch[b][s][w])]]]
    /\ EndRun
    /\ UNCHANGED <<now, silver, active, upsets, changed, fact_signals>>

\* The run dies before its next MERGE; nobody re-launches it.
Die ==
    /\ pc # "idle"
    /\ EndRun
    /\ UNCHANGED <<now, silver, active, upsets, changed, fact_signals, weights>>

Next ==
    \/ NextWeek
    \/ \E s \in Symbol, w \in Weeks : WeekRow(s, w) \/ Revise(s, w)
    \/ \E v \in Versions \ {active} : Promote(v)
    \/ \E arg \in StageArgs : Start(arg)
    \/ TsmomSignal
    \/ PortfolioWeights
    \/ Die

Spec == Init /\ [][Next]_vars
-----------------------------------------------------------------------------
(***************************************************************************)
(* Properties.                                                             *)
(***************************************************************************)
\* Every variable keeps its type; tables hold only rows of their schema.
TypeOK ==
    /\ now \in 0 .. LastWeek
    /\ silver \in [Symbol -> [Weeks -> Return \cup {NoRow}]]
    /\ active \in Versions
    /\ upsets \in 0 .. MaxUpsets
    /\ changed \in [Symbol -> 1 .. LastWeek + 1]
    /\ fact_signals \in [Symbol -> [Weeks -> SignalRowType \cup {NoRow}]]
    /\ weights \in [Books -> [Symbol -> [Weeks -> WeightRowType \cup {NoRow}]]]
    /\ pc \in {"idle", "tsmom_signal", "portfolio_weights"}
    /\ only \in StageArgs

\* Sum of |weight| over a book, as a fraction of CommonDen.
CommonDen(book) == FoldSet(LAMBDA s, d : book[s][2] * d, 1, DOMAIN book)
GrossWeight(book) ==
    MapThenSumSet(
        LAMBDA s : Abs(book[s][1]) * (CommonDen(book) \div book[s][2]), DOMAIN book)

\* The gross is 1 whenever a leg can absorb what the cap frees.
FullyInvested(book) ==
    DOMAIN book \ Crypto # {} => GrossWeight(book) = CommonDen(book)

\* No crypto leg is over the cap.
WithinCap(book, cap) ==
    cap # NoCap =>
        \A c \in DOMAIN book \cap Crypto :
            Abs(book[c][1]) * cap[2] <= cap[1] * book[c][2]

\* The cap couples crypto to the others, not the others to each other: any two of
\* them are held in the same proportion as in the book without crypto.
SameProportions(book, pure) ==
    \A s, t \in DOMAIN book \ Crypto :
        book[s][1] * book[t][2] * pure[t][1] * pure[s][2] =
        book[t][1] * book[s][2] * pure[s][1] * pure[t][2]

\* Both books of every week, whatever signals are stored, under the active
\* parameters: invested, capped, and the one without crypto agrees with the one
\* with crypto on everything but crypto.
BooksSound ==
    \A w \in Weeks :
        LET p    == Params[active]
            book == Book(Section(w), p, TRUE)
            pure == Book(Section(w), p, FALSE)
        IN  /\ DOMAIN pure = DOMAIN book \ Crypto
            /\ FullyInvested(book) /\ FullyInvested(pure)
            /\ WithinCap(book, p.cap)
            /\ SameProportions(book, pure)

\* Stage B brings every leg it stored before up to date with the signals of now,
\* whatever changed since: a leg that joined the week late, a revised return, a
\* promotion, a stage A of which this is the first stage B.  No leg of an earlier
\* book is left over beside the new ones, unless its signal has become exactly
\* zero or the scheme is another: such a leg is written no more.
StoredIsCurrent ==
    [][PortfolioWeights =>
        \A b \in Books, s \in Symbol, w \in Weeks :
            /\ weights[b][s][w] # NoRow
            /\ weights[b][s][w].scheme = Params[active].scheme
            /\ fact_signals[s][w].signal # 0
            => weights'[b][s][w] = WeightRows(active)[b][s][w]]_vars

\* New weeks change no signal of an old one: a run rewrites a stored signal only
\* if, since the last run of its stage, a row of its symbol changed in its week or
\* before it, or a parameter version was promoted.
HistoryIsStable ==
    [][\A s \in Symbol, w \in Weeks :
        fact_signals[s][w] # NoRow /\ w < changed[s] =>
            fact_signals'[s][w] = fact_signals[s][w]]_vars
=============================================================================
