\* Silent, stalling and vanishing peers.
SPECIFICATION FairSpec
CONSTANTS
    p1 = p1 p2 = p2 b1 = b1 b2 = b2
    Peers = {p1, p2}
    Honest = {p1}
    Blocks = {b1, b2}
    NoPeer = NoPeer
    MAX_BLOCKS_IN_TRANSIT_PER_PEER = 2
    MaxQueued = 2
    BanScore = 1
    Inactivity = 2
INVARIANTS Bookkeeping PromptPeersStay
PROPERTIES DownloadGoesOn
