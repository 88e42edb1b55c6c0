CONSTANT Offers <- AllOffers
SPECIFICATION Spec
INVARIANTS TypeOK TypesAreUnique ConversionsAgree LayoutsFit HierarchyAnswers
CHECK_DEADLOCK FALSE
