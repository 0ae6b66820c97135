SPECIFICATION Spec
CONSTANTS
    NoValue = NoValue
    Exit = Exit
    Decks <- MCDecks
    Texts <- MCTexts
    Continued <- MCContinued
    MaxOpen = 3
INVARIANTS
    DeckTypeOK
    DeckAsWritten
    AcceptedIsSound
PROPERTY
    ParseEnds
CHECK_DEADLOCK FALSE
