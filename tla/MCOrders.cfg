SPECIFICATION MCSpec
CONSTANTS
    w1 = w1  w2 = w2  k1 = k1  k2 = k2  x = x  y = y
    a1 = a1  a2 = a2  b1 = b1  p = p  q = q  u = u  v = v
    Workers = {w1, w2}
    Checkouts = {k1, k2}
    Keys = {x, y}
    Orders = {a1, a2, b1}
    Products = {p, q}
    Variants = {u, v}
    ProductOf <- MCProductOf
    CheckoutOf <- MCCheckoutOf
    Quantity <- MCQuantity
    Wants <- MCWants
    Shelf <- MCShelf
    Rack <- MCRack
    Deployments = {"replica", "standalone"}
    Targets = {"CONFIRMED", "SHIPPED", "CANCELLED", "RETURN_REQUESTED", "RETURNED"}
    MaxEvents = 2
INVARIANTS TypeOK UnitsFollowStatus CheckoutIsAtomic KeyPlacesOnce StrayCaptureNeedsRetry ShippedIsPaid
PROPERTIES CancelledStays
CHECK_DEADLOCK FALSE
SYMMETRY Alike
