CONSTANTS
    s1 = s1 s2 = s2 c1 = c1 c2 = c2 a = a b = b
    Students = {s1, s2}
    Courses = {c1}
    Billings = {"b1"}
    Payments = {"p1"}
    Capacities = {1}
    Prices = {1}
    None = None Null = Null Required = Required Refused = Refused
    MAX_COURSES_PER_STUDENT = 1
    MIN_STUDENTS_TO_START = 1
    PAYMENT_WINDOW_DAYS = 1
    READINESS_DAYS = 2
    MONTHLY_FEE_PERIOD_DAYS = 2
    INVOICE_DUE_DAYS = 1
    MaxInvoices = 4
    Pods = {a, b}
    ClientPods = {a}
    Ahead <- MCAhead
    BatchSize = 2
    MaxErrors = 1
    MaxNow = 2
    MaxRequests = 3
    MaxDeadlines = 7
    MaxFaults = 1
SPECIFICATION Spec
INVARIANTS EndedOnceForAll SeatsAreCounted WhatWaitsHasADeadline RowsShowTheModels
PROPERTIES SeatsAreLostForAReason
SYMMETRY Symmetry
CHECK_DEADLOCK FALSE
