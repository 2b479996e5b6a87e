CONSTANTS
    k1 = k1  k2 = k2  la = la  lb = lb  lc = lc
    u1 = u1  u2 = u2  g1 = g1  g2 = g2  f1 = f1  v1 = v1  v2 = v2
    r9 = r9  r10 = r10  x = x  y = y
    p = p  q = q  p0 = p0  p1 = p1  q0 = q0  i1 = i1  i2 = i2  i3 = i3
    \* log forwarding
    Lokis = {k1, k2}
    LokiUnits = {la, lb, lc}
    LokiOf <- MCLokiOf
    Containers = {c1}
    LogUrls = {url1, url2}
    NoUrl = NoUrl
    NoTarget = NoTarget
    Disabled = Disabled
    MaxLogChanges = 4
    \* promtail
    ProxyLokis = {m1, m2}
    LokiApp = LokiApp
    ProxyUrls = {w1, w2}
    NoProxyUrl = NoProxyUrl
    MaxProxyChanges = 5
    \* alert rules
    RuleApps = {a1, a2}
    RuleUnits = {l1, l2}
    Identifiers = {id1, id2}
    NoRules = NoRules
    Unset = Unset
    MaxRuleChanges = 4
    \* dashboards
    DashUnits = {u1, u2}
    DashRelations = {r1}
    Revisions = {v1, v2}
    FilesOf <- MCFilesOf
    Added = {t1}
    NothingSent = NothingSent
    MaxDashChanges = 4
    GrafanaUnits = {g1, g2}
    Offerers = {r9, r10}
    IdOrder <- MCIdOrder
    Dashboards <- MCDashboards
    NoUid = NoUid
    Offers <- MCOffers
    Nothing = Nothing
    MaxOfferChanges = 4
    \* scraping
    Scraped = {p, q}
    ScrapedUnits = {p0, p1, q0}
    ScrapedOf <- MCScrapedOf
    Ips = {i1, i2, i3}
    Wildcard = Wildcard
    Outside = Outside
    NoAddress = NoAddress
    NoUnit = NoUnit
    NoJobs = NoJobs
    JobSets <- MCJobSets
    MaxScrapeChanges = 2
SPECIFICATION MCSpec
INVARIANTS TelemetryTypeOK ForwardsToThoseThere PromtailArrives RulesDistributed LeadersTemplatesSent OffersHandled TargetsAreRight
PROPERTIES OnlyUnreadyInterrupted
CHECK_DEADLOCK FALSE
