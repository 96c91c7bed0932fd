SPECIFICATION PeopleSpec
CONSTANTS
    ann = ann
    bob = bob
    eve = eve
    o1 = o1
    o2 = o2
    Users = {ann, bob, eve}
    Founders <- MCFounders
    Invitees = {eve}
    Given = {"OWNER", "TECHNICIAN"}
    Requests = {q1, q2}
    MaxInvites = 2
    Holders = {ann, bob}
    MaxLinks = 2
    MaxClock = 4
    Orgs = {o1}
    Members <- MCMembers
    Managers <- MCMembers
    MaxSecrets = 2
    MaxCodes = 2
    Admins = {a1}
    Customers = {c1, c2}
    MaxSessions = 3
SYMMETRY Symmetry
CHECK_DEADLOCK FALSE
INVARIANTS
    TeamIsKept
    AccountsAreSafe
PROPERTIES
    JoinUsesInvitation
