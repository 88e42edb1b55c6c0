CONSTANTS
    Texts <- MCBlockTexts
SPECIFICATION Spec
PROPERTIES RecoveryEnds
