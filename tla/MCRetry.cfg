SPECIFICATION Spec
CONSTANTS
  MaxRetries = 3
  BaseDelay = 2
  MaxDelay = 4
  Exceptions <- MCExceptions
  RetryableNames <- MCNames
INVARIANTS
  CallBudget
  GivesUpOnlyWhenJustified
  BackOffBounded
PROPERTIES
  NoCallAfterPermanentFailure
  Terminates
