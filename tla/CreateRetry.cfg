SPECIFICATION Spec
CONSTANTS
    Callers = {c1}
    Studio = studio
    Classes = {object}
    Attempts = 2
    MaxLate = 2
    MaxEvents = 0
PROPERTIES NeverBareDuplicate
