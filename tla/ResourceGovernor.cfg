SPECIFICATION Spec
CONSTANTS
    ReservationId = {r1, r2, r3}
    Scope <- MCScope
    Dimension <- MCDimension
    Cap <- MCCap
    Estimate <- MCEstimate
    Usage <- MCUsage
    Limit <- MCLimit
INVARIANTS
    TypeOK
    HoldsMatchActiveReservations
    UsageMatchesReconciled
PROPERTIES
    OnlyOverrunsPassLimits
    ClosedStaysClosed
SYMMETRY ReservationSymmetry

