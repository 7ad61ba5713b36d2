SPECIFICATION FairSpec
CONSTANTS
    n1 = n1
    n2 = n2
    k1 = k1
    r1 = r1
    Nodes = {n1, n2}
    Keys = {k1}
    Requests = {r1}
    Hash <- OneHash
    Peers <- TwoPeers
    NoNode = NoNode
    Bootstrapped = {n1}
    Contacts <- TwoContacts
    Founders = {n1}
    MaxLog = 2
INVARIANTS
    TypeOK
    TablesMatchLog
    ForwardsAlongCommitted
    LeaderIsMember
PROPERTIES
    EveryRequestEnds
    AddressFollowsLeadership
    HooksNotRepeated
    LoopEndsWhenAdded
    EveryJoinEnds
CHECK_DEADLOCK FALSE
