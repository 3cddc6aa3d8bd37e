SPECIFICATION MCSpec
CONSTANTS
    Settings = {d, s1, s2}
    Default = d
    Themes = {t1, t2}
    NoTheme = NoTheme
    None = None
    Torn = Torn
    UNZ_BUFSIZE = 2
    BUFREADCOMMENT = 5
    MaxBack = 14
    MaxZip = 16
    MaxAppEntries = 3
    MaxThemeEntries = 2
    MaxThemeSize = 12
    OutBuf = 2
    Zips <- MCZips
    Installed <- MCInstalled
INVARIANTS SavedIsLoaded ExitAgrees BannerMeansSave SearchFinds
PROPERTIES ManageHonest ManageEnds
