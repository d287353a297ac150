SPECIFICATION Spec
CONSTANT Procs = {p1, p2}
INVARIANT AuthenticateReturns
