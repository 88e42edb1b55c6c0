CONSTANTS
    Texts <- MCTexts
SPECIFICATION Spec
INVARIANTS TypeOK NothingLostSilently AcceptedIsBalanced TemplateContextFollows
PROPERTIES EndsUnlessStuckInBlock
