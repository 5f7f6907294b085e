CONSTANTS
    Me = me
    Other = other
    Tenant = tenant
    Kids = {"k1", "k2"}
    Secret = secret
    NoSecret = nosecret
    Options <- MCOptions
    Offline <- MCOffline
    Leftovers <- MCLeftovers
    Lifetimes = {0, 1}
    Ahead = {1}
    RenewBefore = 1
    maxFutureSkew = 1
    MaxTime = 3
SPECIFICATION Spec
INVARIANTS
    IInv
    RevokedEndsStarts
    SavedIsReusable
