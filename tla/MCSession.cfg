SPECIFICATION Spec
CONSTANTS
    Wallets = {w1, w2}
    NoWallet = NoWallet
    platformOwner = w2
    Kinds = {"identity", "permissions", "trusted-provider"}
    Hooks = {header, page}
    Header = header
    Gone = Gone
    MaxChanges = 2
    MaxFaults = 1
INVARIANTS TypeOK AddressFollowsWallet ShownIsReplaced
PROPERTIES SessionSettles
CHECK_DEADLOCK FALSE
