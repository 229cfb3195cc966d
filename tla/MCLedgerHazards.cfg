CHECK_DEADLOCK FALSE
SPECIFICATION Spec
CONSTANTS
    Users = {u1, u2}
    Invoices = {i1}
    Requests = {r1, r2, r3}
    Amounts <- MCAmounts
    Tips <- MCTips
    Start = 2
    Managers = {u1}
    None = None
PROPERTIES
    CreditsTheDebit
    InvoicePaidOnce
