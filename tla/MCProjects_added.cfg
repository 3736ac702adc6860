\* What README.md says ban_transaction answers.
SPECIFICATION Spec
CONSTANTS
    t1 = t1
    t2 = t2
    tx = tx
    Null = Null
    MaxId = 2
    Thread = {t1}
    EditPorts = {}
    Deniable = {tx}
PROPERTIES
    AnswerAdded
CHECK_DEADLOCK FALSE
