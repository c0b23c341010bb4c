---------------------------- MODULE MCDecisions -----------------------------
(***************************************************************************)
(* An instance of Decisions for TLC.                                       *)
(***************************************************************************)
EXTENDS Decisions

\* Two sectors share company 2 and ETF 4.  Company 3 has no features yet; the
\* ETFs never have any.
TheSectors   == <<"chips", "memory">>
Companies    == [chips |-> <<1, 2>>, memory |-> <<2, 3>>]
Funds        == [chips |-> <<4>>, memory |-> <<4>>]
Momenta      == <<90, 40, None, None>>
Volumes      == <<100, 90, None, None>>
Vols         == <<60, 20, None, None>>
DollarVolumes == <<900, 600, None, None>>

Card(cat, conf, names) ==
    [cat |-> cat, dir |-> "positive", conf |-> conf, rel |-> 100, securities |-> names]
Evidence ==
    [chips |-> {{Card("demand_signal", 100, {1}), Card("macro_signal", 100, {})},
                {Card("demand_signal", 20, {2})}},
     memory |-> {{Card("supply_bottleneck", 80, {2})}}]

Opinion(dir, conf, missing) == [dir |-> dir, conf |-> conf, missing |-> missing]
TheViews    == [macro |-> {Opinion("positive", 90, FALSE)}, sector |-> {Opinion("positive", 90, FALSE)},
                supply_chain |-> {Opinion("negative", 80, FALSE)},
                valuation |-> {Opinion("negative", 80, FALSE)}]
TheOpinions == {Opinion("positive", 90, FALSE), Opinion("positive", 90, TRUE),
                Opinion("positive", 50, FALSE), Opinion("negative", 80, FALSE)}

History(days, price, traded, gaps) ==
    [days |-> days, price |-> price, traded |-> traded, gaps |-> gaps]
Histories == {History(200, 50, 800, FALSE), History(200, 50, 800, TRUE)}

\* configs/scoring.yaml, in hundredths.
Weights == [trend_strength |-> 15, evidence_quality |-> 15, supply_chain_confidence |-> 10,
            market_confirmation |-> 15, fundamental_confirmation |-> 10, valuation_risk |-> 10,
            crowding_risk |-> 5, liquidity |-> 5, macro_alignment |-> 5, validation_strength |-> 10]
Risks == {"valuation_risk", "crowding_risk"}
=============================================================================
