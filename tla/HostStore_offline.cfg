\* Reports of two hosts against two offline scanners.
SPECIFICATION Spec
CONSTANTS
    a1 = a1  a2 = a2  t1 = t1  t2 = t2  f1 = f1  none = none
    Hosts <- TwoHosts
    Agents = {a1, a2}
    HostOf <- OwnHosts
    TenantOf <- OneTenant
    NamedTenants = {t1}
    FreshTenants = {}
    DefaultTenant = t1
    NoTenant = none
    NoAgent = nobody
    Workers = {w1, w2}
    Reconcilers = {r1, r2}
    Kinds = {"report"}
    AllowCustomTenantCode = TRUE
    OfflineAfter = 1
    MaxRequests = 3
    LastRequest = 3
    MaxTime = 3
    MaxFaults = 0
SYMMETRY Symm
INVARIANTS DigestMatchesInstance NoDeadlock
PROPERTIES ImplementsDirectory
CHECK_DEADLOCK FALSE
