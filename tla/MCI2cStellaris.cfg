SPECIFICATION FairSpec
CONSTANTS
    WriteLens = {0, 1, 2}
    ReadLens = {0, 1, 6}
    Settling = {TRUE, FALSE}
INVARIANTS TypeOK BusReleasedOnReturn PromptBusyIsEnough
PROPERTIES ImplementsBus CallReturns
