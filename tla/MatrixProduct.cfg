SPECIFICATION Spec
CONSTANTS
    e1 = e1
    e2 = e2
    Subject = {"matrix"}
    N = 10
    MaxDigits = 8
    HexDigit <- MCHexDigit
    Enumerators <- MCEnumerators
    Cell = {e1, e2}
    ZeroCell = ZeroCell
    Flag <- MCFlag
    Width = 4
    IntWidth = 4
    Held = {e1, e2}
    Given = {1, 2}
    NullValue = 3
    NoMaybe = NoMaybe
    GivesNull = FALSE
    MultipliesNaN = FALSE
    Small <- MCSmall
    MaxFrac = 6
    Align = {1, 2, 4, 8}
    MaxUnits = 3
    MaxCount = 3
    NewAlign = 8
    Char = {e1, e2}
    Nul = Nul
    MaxText = 3
    option = {0, 1, 31}
    Semicolon = 100
    Escape = 101
    Bracket = 102
    EndOfCode = 103
    x = x
    y = y
    Name <- MCName
    Message <- MCMessage
    EndOfText = EndOfText
    Period = Period
    Opening = Opening
    Closing = Closing
    Newline = Newline
    bold = bold
    red = red
    yellow = yellow
    clear = clear
    MaxDepth = 3
    Variable = {x, y}
    Number = {0, 1}
    MaxArgs = 3
    MatObj = {e1, e2}
    NullStore = NullStore
    Dim = {1, 2}
    RowLists <- MCRowLists
    MaxOps = 4
    Aliased = FALSE
    Rectangular = {"*"}
INVARIANT
    AccessesInRange
CHECK_DEADLOCK FALSE
