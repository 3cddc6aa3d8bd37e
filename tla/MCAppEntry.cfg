SPECIFICATION Spec
CONSTANTS
    NDev = 2
    Apps = {a1}
    NoApp = NoApp
    Freed = Freed
    ScanEvery = 2
    Tries = 1
INVARIANTS HideBeforeFree OneVolume ActionIsCurrent TableAgrees
