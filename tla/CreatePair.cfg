SPECIFICATION Spec
CONSTANTS
    Callers = {c1, c2}
    Studio = studio
    Classes = {object, variable}
    Attempts = 1
    MaxLate = 2
    MaxEvents = 1
SYMMETRY AnySymmetry
INVARIANTS TypeOK OncePerCall AnswerIsFinal
PROPERTIES DuplicateOnlyUnread RolledBackIsGone
