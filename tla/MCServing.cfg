SPECIFICATION Spec
CONSTANTS
    f1 = f1
    f2 = f2
    NoFetch = NoFetch
    Fetch = {f1, f2}
    raydium = raydium
    other = other
    Pool = {raydium, other}
    WsolPool = {raydium}
    TTL = 2
    Timeout = 1
    MaxSwaps = 2
    loop = loop
    asked = asked
    Loop = loop
    Asked = {asked}
    RefreshAge = 1
INVARIANTS
    NoWaitPastDeadline
    WrittenDepthIsRecent
PROPERTIES
    RowsNeverGoBack
    ChangesAreServed
