\* Two agents of one host fall silent; the scanner may fail.
SPECIFICATION FairSpec
CONSTANTS
    a1 = a1  a2 = a2  t1 = t1  t2 = t2  f1 = f1  none = none
    Hosts <- OneHost
    Agents = {a1, a2}
    HostOf <- SharedHost
    TenantOf <- FreshAndOwn
    NamedTenants = {t1}
    FreshTenants = {f1}
    DefaultTenant = t1
    NoTenant = none
    NoAgent = nobody
    Workers = {w1, w2}
    Reconcilers = {r1}
    Kinds = {"report"}
    AllowCustomTenantCode = TRUE
    OfflineAfter = 1
    MaxRequests = 2
    LastRequest = 3
    MaxTime = 5
    MaxFaults = 1
PROPERTIES SilentHostsGoOffline
CHECK_DEADLOCK FALSE
