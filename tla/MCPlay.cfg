CONSTANTS
    Char = {c1, c2, c3}
    None = None
    PartyMax = 2
    Battle = {b1, b2}
    SideMax = 2
    TurnMax = 1
    Fd = {f1, f2, f3}
    TradeIndex = {l1, l2}
    MaxShown = 1
SPECIFICATION AllSpec
INVARIANTS PlayTypes PartyAgrees  LinksAgree ListsAgree SwapAsConfirmed
SYMMETRY Symmetry
