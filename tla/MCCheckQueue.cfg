\* Four checks, one of them bad, two workers and spurious wake-ups.
SPECIFICATION Spec
CONSTANTS
    w1 = w1  w2 = w2  c1 = c1  c2 = c2  c3 = c3  c4 = c4
    Workers = {w1, w2}
    Master = master
    NoThread = NoThread
    Checks = {c1, c2, c3, c4}
    BadChecks = {c1}
    nBatchSize = 2
    MaxSpurious = 1
INVARIANTS AccountsExact
PROPERTIES ImplementsAbstract WaitReturns
