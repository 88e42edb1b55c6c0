CONSTANT Offers <- ClassOffers
SPECIFICATION Spec
INVARIANT FlattenedFieldsDisjoint
CHECK_DEADLOCK FALSE
