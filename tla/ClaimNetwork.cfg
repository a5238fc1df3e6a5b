SPECIFICATION NetworkSpec
CONSTANTS
    t1 = t1
    t2 = t2
    Txs = {t1, t2}
    Heights = {1}
    None = None
    Nil = Nil
    Junk = Junk
    Binary = Binary
    Bad = Bad
    Txids = {"txid1", "txid2"}
    Tokens = {"token"}
    Token = "token"
    TxidOf <- MCTxidOf
    Quotes <- MCQuotes
    Others <- MCOthers
    MaxRate = 3
    MaxBody = 3
    StatusLine = 2
    Pipe = 2
    Coins = {1, 2}
    Sizes = {1, 3, 4}
INVARIANTS
    OutcomeIsEarned
    FloorIsEnough
    ResponseIsExact
    OnlyPermittedLeaves
PROPERTIES
    CallsReturn
