SPECIFICATION Spec
CHECK_DEADLOCK FALSE
CONSTANTS
  Concepts <- MemoryConcepts
  MaxFields = 2
  MaxConcepts = 5
INVARIANT ConceptsAreStated
INVARIANT VariablesAreBoundOnce
INVARIANT UpdatesAreComplete
