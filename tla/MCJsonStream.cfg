SPECIFICATION Spec
CONSTANTS
    Inputs <- MCInputs
    MaxRead = 2
    MaxFail = 1
PROPERTIES
    AnswersAsDocument
    CallReturns
