\* Scheduled prompts, external sources and insights, each on its own.
SPECIFICATION MCSpec
CONSTANTS
    Prompts = {p1}
    Crons = {c1, c2}
    Refused = {c2}
    Runs = {r1, r2}
    Internal = {sync}
    NoCron = NoCron
    MaxCrashes = 1
    Sources = {s1, s2}
    Grants = {g1, g2}
    Lasting = {}
    Unrefreshable = {g2}
    Jobs = {j1}
    Tools = {t1}
    NoGrant = NoGrant
    NoSource = NoSource
    MaxTries = 2
    Events = {e1}
    Gens = {i1, i2}
    Replies = {b1}
    Mailers = {m1, m2}
    MaxUnread = 1
    Recurring = 1
    RateLimit = 1
    MaxDeliveries = 2
    MaxKills = 1
    MaxWindows = 1
INVARIANTS RunsAreAccounted PauseIsPrompt ReauthIsJustified EventToldOnce RateIsLimited
PROPERTY TableFollowsRows
CHECK_DEADLOCK FALSE
