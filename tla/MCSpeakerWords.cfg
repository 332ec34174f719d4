SPECIFICATION FairSpec
CONSTANTS
    Inputs <- MCInputs
    Columns = {0, 1, 2, 3}
    Silent = Silent
    Cosines = {0, 1, 2}
    Threshold = 2
    Step = 2
    Half = 1
    MinTurn = 3
    MaxIsland = 2
    MaxBracketed = 3
INVARIANTS MergedVoicesAreAlike PriorHonoured LongTurnsSurvive EveryWordHasASpeaker NoLoneTurn
PROPERTIES AttributionEnds
CHECK_DEADLOCK FALSE
