CONSTANTS
    Words <- Letters
    Numbers <- Digits
    Args <- Arguments
    Strings <- Literals
    MaxPath = 5
    Forms <- AllForms
    NoForm = NoForm
SPECIFICATION FormSpec
INVARIANTS
    TextInStep
    FormArrives
PROPERTIES
    EachItsOwn
