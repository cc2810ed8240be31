SPECIFICATION Spec
CONSTANTS
    Texts <- MCTexts
    NoSection = " "
    Size <- MCSize
    Cut <- MCCut
    Upper <- MCUpper
    Letters <- MCLetters
    Digits <- MCDigits
    Strip <- MCStrip
    Value <- MCValue
    Padded <- MCPadded
    Successor <- MCSuccessor
    GenderOf <- MCGenderOf
    GoodName <- MCGoodName
    Month <- MCMonth
    Filled <- MCFilled
    Works <- MCWorks
    Inputs <- MCInputs
    CommonAll <- MCCommonAll
    CommonOf <- MCCommonOf
    CodesAccepted <- MCCodesAccepted
    Ssc = FALSE
INVARIANTS TypeOK DependentsFollow
PROPERTIES SavedIsKept
