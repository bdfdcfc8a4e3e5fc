SPECIFICATION Spec
CONSTANTS
    Clients = {c1}
    Users = {"staff"}
    Feeds = {"ticks"}
    Roles = {"Subscribe", "Publish"}
    Hosts <- SomeHosts
    RoleFiles <- SomeFiles
    Characters = {"a", "b", "A", "B", "?", "*"}
    Upper <- UpperCase
    Allow = {"Subscribe"}
    Deny = {}
    IsProxyAllowed = TRUE
    OneFolder = TRUE
    None = None
INVARIANTS TypeOK LoadedIsCurrent DecisionsFollowRoles
PROPERTY EditTakesEffect
CHECK_DEADLOCK FALSE
