CONSTANTS
    good = good
    peer = peer
    blk = blk
    sub = sub
    txn = txn
    txn2 = txn2
    Nodes = {good, peer}
    Good = {good}
    NoNode = NoNode
    Blocks = {blk}
    Subblocks = {sub}
    Txns = {txn, txn2}
    Damaged <- DamagedBlock
    Scenarios <- DamagedScenarios
    MAX_SOURCES_TO_ADD = 1
    MAX_BLK_INFO = 1
    MAX_IN_FLIGHT_REQS = 1
    nMaxBlocksInTransit = 1
CHECK_DEADLOCK FALSE
SPECIFICATION Spec
PROPERTY RequestsEnd
