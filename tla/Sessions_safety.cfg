\* Two tabs of one browser, three calls, two tokens.
SPECIFICATION FairSpec
CONSTANTS
    t1 = t1
    t2 = t2
    b1 = b1
    b2 = b2
    c1 = c1
    c2 = c2
    c3 = c3
    Tabs = {t1, t2}
    Browsers = {b1}
    BrowserOf <- OneBrowser
    Calls = {c1, c2, c3}
    TabOf <- CallTabs
    MaxTokens = 2
INVARIANTS
    TypeOK
    OneLivePerLogin
    AlarmHasCause
PROPERTIES
    CallsSettle
