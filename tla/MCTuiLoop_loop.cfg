CONSTANTS
    None = None
    Keys <- MCKeys
    Names <- MCNames
    NameOf <- MCNameOf
    Rows <- MCRows
    KeyOf <- MCKeyOf
    Views <- TopAndOne
    Notices <- OneNotice
    Settle = 1
    MaxReleases = 1
    MaxRefreshes = 1
    MaxExpiries = 1
SPECIFICATION FairSpec
INVARIANTS
    LoadingIsUnderWay ScreenIsCurrent ClicksHitShownRows
PROPERTIES
    SelectionIsAnswered
