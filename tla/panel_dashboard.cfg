CONSTANTS
  Hosts = {h1, h2}
  Automatic = Automatic
  Nobody = Nobody
  Failed = Failed

SPECIFICATION FairSpec

PROPERTIES
  DashboardLoads
