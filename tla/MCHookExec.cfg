CONSTANTS
    alice = alice
    bob = bob
    carol = carol
    h = h
    k = k
    Blank = Blank
    None = None
    Account = {alice, bob, carol}
    Chain <- MCChain
    Callback = {h}
    TshCollect = {bob, carol}
    Tx <- MCTx
    Start <- MCStart
    Reserve = 3
    Increment = 1
    SettleDelay = 2
    TimeWidth = 16
    lsfDepositAuth = {carol}
    depositPreauth = {}
    MaxTransactions = 2
    MaxTime = 4
SPECIFICATION Spec
INVARIANTS
    TypeOK
    AllOrNothing
    RunOnce
    
    StrongHooksPaid
    
    ApplyConserves
    OwnerCountExact
PROPERTIES
    DropsConserved
    ChannelSettles
    DepositsAuthorized
