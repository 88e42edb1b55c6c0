CONSTANTS
    Texts <- MCShiftTexts
SPECIFICATION Spec
INVARIANTS TornOnlyInArguments
