\* Two agents of one host, with different tenants, registering and reporting.
SPECIFICATION Spec
CONSTANTS
    a1 = a1  a2 = a2  t1 = t1  t2 = t2  f1 = f1  none = none
    Hosts <- OneHost
    Agents = {a1, a2}
    HostOf <- SharedHost
    TenantOf <- TwoTenants
    NamedTenants = {t1, t2}
    FreshTenants = {f1}
    DefaultTenant = t1
    NoTenant = none
    NoAgent = nobody
    Workers = {w1, w2}
    Reconcilers = {}
    Kinds = {"register", "report"}
    AllowCustomTenantCode = TRUE
    OfflineAfter = 1
    MaxRequests = 3
    LastRequest = 1
    MaxTime = 1
    MaxFaults = 1
SYMMETRY Symm
INVARIANTS TypeOK HostsAreComplete InsertsNeverCollide NoDeadlock
PROPERTIES TenantSettles ImplementsDirectory
CHECK_DEADLOCK FALSE
