SPECIFICATION Spec
CONSTANTS
  Calls = {c1, c2}
  Retries = 2
  MixedInline = FALSE
INVARIANTS
  AnsweredOnce
  NothingInFlightAfterDone
  AttemptsConserved
  ActiveCallsExact
  DestructorFinishesAll
PROPERTIES
  EveryCallAnswered
  ImplementsContract
