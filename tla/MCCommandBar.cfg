SPECIFICATION Spec
CONSTANTS
    Texts <- MCTexts
    Memo <- MCMemo
INVARIANTS
    HighlightIsOnARow
    AcceptedStaysBest
    AnswerHidesNoApp
PROPERTY SectionStraysOnlyBetweenViews
