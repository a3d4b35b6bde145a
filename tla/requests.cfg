\* Five questions of all kinds from two handles, in every order.
CONSTANTS
    line = line
    choice = choice
    form = form
    card = card
    file = file
    conn = conn
    acct = acct
    Questions = {line, choice, form, card, file}
    Form <- MCForm
    Fields <- MCFields
    Handles = {conn, acct}
    HandleOf <- MCHandleOf
SPECIFICATION RequestsSpec
INVARIANTS PromptIsFirst FieldsComplete
PROPERTY AnswersInOrder
CHECK_DEADLOCK FALSE
