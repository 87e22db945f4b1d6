SPECIFICATION PrFairSpec
CONSTANTS
    Cmds = {c1, c2, r1, r2}
    Origin <- MCOrigin
    Redirects = {r1, r2}
    Resent = {c2}
    Eager = {c1}
    Progressive = {c1}
    TokenMod = 3
    Closers = {"client"}
    Breakable <- MCBreakable
INVARIANTS
    NoSurprise
    ProxyPair
PROPERTIES
    AnsweredOnce
CHECK_DEADLOCK FALSE
