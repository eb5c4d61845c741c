\* One host that reports again while the scanner works on what it has read.
SPECIFICATION FairSpec
CONSTANTS
    a1 = a1  a2 = a2  t1 = t1  t2 = t2  f1 = f1  none = none
    Hosts <- OneHost
    Agents = {a1, a2}
    HostOf <- SharedHost
    TenantOf <- OneTenant
    NamedTenants = {t1}
    FreshTenants = {}
    DefaultTenant = t1
    NoTenant = none
    NoAgent = nobody
    Workers = {w1}
    Reconcilers = {r1}
    Kinds = {"report"}
    AllowCustomTenantCode = TRUE
    OfflineAfter = 1
    MaxRequests = 2
    LastRequest = 3
    MaxTime = 3
    MaxFaults = 0
PROPERTIES OfflineOnlyWhenSilent
CHECK_DEADLOCK FALSE
