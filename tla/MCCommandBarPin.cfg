SPECIFICATION Spec
CONSTANTS
    Texts <- MCTexts
    Memo <- MCMemo
PROPERTY PinTakesEffect
