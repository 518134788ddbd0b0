SPECIFICATION CpSpec
CONSTANTS
    Texts <- MCTexts
    Games <- MCGames
    AtFirst <- MCAtFirst
INVARIANT
    PageIsTrue
PROPERTIES
    NamesStayDistinct
    OnlyTheOpened
    AppliedIsShown
CHECK_DEADLOCK FALSE
