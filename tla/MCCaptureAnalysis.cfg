SPECIFICATION Spec
CONSTANTS
    Requests <- MCRequests
    Unseen <- MCUnseen
    Shape <- MCShape
    Hint <- MCHint
INVARIANTS
    TypeOK AnswersAreCovered CandidatesAreDistinct RequiredIffAlwaysSent
    OrderDoesNotMatter
CHECK_DEADLOCK FALSE
