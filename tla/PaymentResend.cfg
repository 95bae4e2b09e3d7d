SPECIFICATION FairSpec
CONSTANTS
    u1 = u1
    u2 = u2
    o1 = o1
    o2 = o2
    p1 = p1
    r1 = r1
    r2 = r2
    Users = {u1, u2}
    Orders = {o1}
    PayUOrders = {}
    OwnerOf <- Owners
    Requests = {r1, r2}
    Budget <- OneFault
PROPERTY
    ResendHeals
CHECK_DEADLOCK FALSE
