SPECIFICATION Spec
CONSTANTS
    t1 = t1 t2 = t2 g1 = g1 g2 = g2 k1 = k1 k2 = k2 k3 = k3 a1 = a1 a2 = a2
    Tenants <- TwoTenants
    Groups <- TwoGroups
    GroupsOf <- BothGroups
    None = None
    Keys <- ThreeKeys
    TenantOf <- KeyTenants
    ScopeOf <- KeyScopes
    Askers <- TwoAskers
    Writers <- OneWriter
    MaxEntries = 2
    TTL = 1
    MaxVersion = 1
INVARIANT NoOutdatedAnswer
