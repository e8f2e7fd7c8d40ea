SPECIFICATION ToolsSpec
CONSTANTS
    t1 = t1
    t2 = t2
    p1 = p1
    h1 = h1
    Tools <- MCTools
    Places <- MCPlaces
    Homes <- MCHomes
    Backups <- MCBackups
    Runners = {1, 2}
    Campaigns <- MCCampaigns
    Mission <- MCMission
    Http <- MCHttp
    Roles <- MCRoles
    Deployments <- MCDeployments
    Ttl = 3
    ShortTtl = 1
    Probes = 2
    Horizon = 7
    Changes = 1
    Hosts <- MCHosts
    Commands = {1, 2}
    Apps <- MCApps
    System <- MCSystem
    Team = "T"
    Updates <- MCUpdates
INVARIANTS
    RestoredIsCertified
    CampaignIsHonest
    ReadinessIsTrue
    UpdatesAreSafe
CHECK_DEADLOCK FALSE
