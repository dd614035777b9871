SPECIFICATION TypesSpec
CONSTANTS
    NULL = NULL
    lo = lo  lo2 = lo2  middle = middle  hi = hi
    x = x  y = y  a = a  b = b  third = third  near = near  nan = nan
    plain = plain  number = number  minus = minus
    Elements <- Four
    Weight <- FourWeights
    MaxSize = 6
    Inputs <- ToSix
    Values = {lo}
    WordBits = 4  Halves <- Quarters  ByteBits = 1
    PageSize = 4
    MaxPages = 3
    MaxAmount = 5
    Held <- Two
    Rooms <- SmallRooms  MaxLength = 3
    ElementSizes <- TwoSizes  MaxElements = 4
    Keys <- MapKeys  Hash <- Hashes  MaxTable = 7
    MaxKey = 8  MaxRemovals = 1
    ByteSize = 2  Amounts <- TwoThree
    AmountOfChars = 3  Data <- One  MaxDepth = 2  MaxStored = 3
    Chars <- Cases  MaxString = 4
    Flags <- ThreeFlags  Texts <- TypesTexts  ArgWords <- TwoWords  MaxArgs = 3
    Rank <- JsonRank  Leaves <- JsonLeaves  Unreadable <- NotANumber
    TextOf <- WrittenText  IsCopied <- HasCopy
    MaxTokens = 9  MaxText = 13  MaxMembers = 3
INVARIANTS
    HeapOrder Sorted SizesRight StructureWhole SearchTree IteratesInOrder StringsRight
     FindsMembers 
    ParsesExpressions ParsesArgs
PROPERTIES
    ImplementsPriorityQueue PutsApart ImplementsList ImplementsDict
\* A sort stops when it is done, and so does a command line.
CHECK_DEADLOCK FALSE
