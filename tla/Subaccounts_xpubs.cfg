SPECIFICATION Spec
CONSTANTS
    MaxNumber = 2
    Accounts = {{0}}
    Wallets = {"hw"}
    Networks = {"btc"}
    Affected = {{1, 2}}
    Callers = {c1}
    MaxChanges = 1
    MaxNotes = 1
PROPERTY RegistersAll
