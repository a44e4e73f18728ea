SPECIFICATION Spec
CONSTANTS
    MaxNumber = 2
    Accounts = {{0}}
    Wallets = {"hw", "sw"}
    Networks = {"btc"}
    Affected = {{1, 2}}
    Callers = {c1}
    MaxChanges = 1
    MaxNotes = 1
INVARIANTS BalanceFresh KeysComplete
PROPERTY NumbersFit
