SPECIFICATION TypesSpec
CONSTANTS
    NULL = NULL
    lo = lo  lo2 = lo2  middle = middle  hi = hi
    x = x  y = y  a = a  b = b  third = third  near = near  nan = nan
    plain = plain  number = number  minus = minus
    Elements <- Four
    Weight <- FourWeights
    MaxSize = 1
    Inputs <- Nothing
    Values = {lo}
    \* as in the code
    WordBits = 64  Halves <- Widths  ByteBits = 8
    PageSize = 256
    MaxPages = 2
    MaxAmount = 1
    Held <- Two
    Rooms <- SmallRooms  MaxLength = 3
    ElementSizes <- TwoSizes  MaxElements = 4
    Keys <- MapKeys  Hash <- Hashes  MaxTable = 7
    MaxKey = 8  MaxRemovals = 1
    ByteSize = 2  Amounts <- TwoThree
    AmountOfChars = 3  Data <- One  MaxDepth = 2  MaxStored = 3
    Chars <- Cases  MaxString = 4
    Flags <- ThreeFlags  Texts <- TypesTexts  ArgWords <- TwoWords  MaxArgs = 1
    Rank <- JsonRank  Leaves <- JsonLeaves  Unreadable <- NotANumber
    TextOf <- WrittenText  IsCopied <- HasCopy
    MaxTokens = 1  MaxText = 1  MaxMembers = 1
PROPERTY KeptUntilRemoved
CHECK_DEADLOCK FALSE
