SPECIFICATION Spec
CONSTANTS
    start = start
    pro = pro
    card = card
    Plaidly = plaidly
    None = None
    Unlisted = Unlisted
    Plans = {start, pro}
    Days <- MCDays
    Gateways = {card, plaidly}
    Assets = {usdt}
    Shops <- MCShops
    MaxPayments = 2
    MaxFaults = 0
INVARIANT ConfirmNamesThePurchase
