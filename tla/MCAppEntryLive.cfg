SPECIFICATION Spec
CONSTANTS
    NDev = 1
    Apps = {a1}
    NoApp = NoApp
    Freed = Freed
    ScanEvery = 2
    Tries = 2
PROPERTIES ExitEnds BrowserCatchesUp
