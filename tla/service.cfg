SPECIFICATION Spec
CONSTANTS
    k1 = k1  k2 = k2  c1 = c1  c2 = c2  c3 = c3  r1 = r1  r2 = r2  r3 = r3  r4 = r4
    a = a  b = b  d = d  h = h  s = s  a2 = a2
    f1 = f1  f2 = f2  f3 = f3  f4 = f4  f5 = f5  f6 = f6
    boss = boss  clerk = clerk  web = web  q1 = q1  q2 = q2  q3 = q3  q4 = q4  both = both
    acme = acme  acmeInc = acmeInc  bolt = bolt  plant = plant  order = order  store = store
    None = None
    KnowledgeBase = {k1, k2}
    Connector = {c1, c2, c3}
    Record = {r1, r2, r3, r4}
    Entity = {a, b, d, h, s, a2}
    Fact = {f1, f2, f3, f4, f5, f6}
    FedTo <- Feeds
    FeederOf <- Feeders
    Yields <- Extracted
    Mentions <- Named
    Edge <- Edges
    HomeOf <- Homes
    Successor <- Successors
    MaxEpisodes = 5
    Now = 1
    User = {boss, clerk}
    OrgOf <- Orgs
    ReportsTo <- Reports
    AssignedTo <- Assigned
    MaxDepth = 2
    Name = {acme, acmeInc, bolt, plant, order, store}
    NameOf <- NamesOf
    NormOf <- Norms
    CoreHits <- Hits
    Holding <- Holds
    Deeds = {d}
    HasSummary = {s}
    SameAs <- Same
    CausalType = {"CAUSES"}
    CausalLimit = 2
    Authority <- Authorities
    Live = {web}
    Question = {q1, q2, q3, q4}
    Candidates <- Asked
    DocumentSet = {both}
    BasesOf <- Sets
    NumResults = 1
    PageSize = 5
    MaxDecisions = 1
    MaxStirs = 2
    MaxMade = 2
    t1 = t1  t2 = t2  g1 = g1  g2 = g2
    plain = plain  mail = mail  drive = drive  iq = iq
    Null = Null
    Tenant = {t1, t2}
    Config = {g1, g2}
    Base = {k1, k2}
    Given <- Bases
    Static <- InFile
    Conn = {plain, mail, drive, iq}
    KindOf <- KindsHere
    Sub = {sub}
    Grant = {token}
    Call = {p1, p2}
    Collection = {folder}
    MaxUpsets = 3
INVARIANT TypeOK
INVARIANT GraphMatchesEpisodes
INVARIANT AnswersStayVisible
INVARIANT NothingVanishes
INVARIANT DecisionsAreGrounded
INVARIANT RemoteStateIsAccounted
INVARIANT TenantBoundary
PROPERTY ImplementsCustody
