SPECIFICATION SelectionSpec
CONSTANTS
    e1 = e1
    e2 = e2
    h1 = h1
    h2 = h2
    Experts <- TwoExperts
    Handlers <- OneHandler
    Prices = {1, 2}
    MaxDirects = 2
    MaxOrders = 2
    MaxCount = 2
SYMMETRY Symmetry
INVARIANTS
    SelectionTypeOK
    ManagedConverges
    AcceptedHasOrder
    MatchedHasOrder
PROPERTIES
    ClosedAnswerStaysClosed
CHECK_DEADLOCK FALSE
