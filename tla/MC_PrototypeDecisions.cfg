\* One tab of a browser with two sign-ins, and everyone else.
SPECIFICATION Spec
CONSTANTS
    Tabs = {"t"}
    Plans <- MCPlans
    MaxLogins = 2
INVARIANTS
    TypeOK
    TraceExplainsState
    OfferedIsAccepted
    PageIsComplete
