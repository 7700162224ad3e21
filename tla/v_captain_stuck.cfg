SPECIFICATION FairSpec
CONSTANTS
    Clients = {p1, p2, p3, p4, p5}
    NoOne = NoOne
    PlayersMin = 4
    CaptainQuorum = 2
    Events = {"Leave"}
PROPERTIES
    PickingEnds
