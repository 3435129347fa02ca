----------------------------- MODULE Enrolment ------------------------------
(***************************************************************************)
(* The course-enrolment domain: its events and their tags, the models that *)
(* fold them, and what each command decides.  A model is a fold of the     *)
(* events that carry its tag, so it is kept here as the state the fold has *)
(* reached: models[kind][id].  A decision is a function of the models of   *)
(* the command's boundary, of its input and of `now`; that it is made on   *)
(* the log as it stands at its append is what the event store promises     *)
(* (EventStore, DcbLog) and Command shows.  Prices are amounts; a refusal  *)
(* and a no-op append nothing, and are told apart for a deadline only.     *)
(***************************************************************************)
EXTENDS Integers, Sequences, FiniteSets, SequencesExt

CONSTANTS Students, Courses, Billings, Payments, Capacities, Prices, None,
          MAX_COURSES_PER_STUDENT, MIN_STUDENTS_TO_START,
          PAYMENT_WINDOW_DAYS, READINESS_DAYS, MONTHLY_FEE_PERIOD_DAYS, INVOICE_DUE_DAYS,
          MaxInvoices     \* bound: the invoices of one billing that are followed

ASSUME EnrolmentAssumption ==
    /\ Capacities \subseteq Nat /\ None \notin Nat /\ None \notin Prices
    /\ {PAYMENT_WINDOW_DAYS, READINESS_DAYS, MONTHLY_FEE_PERIOD_DAYS, INVOICE_DUE_DAYS, MaxInvoices} \subseteq Nat

Seats == Students \X Courses
Invoices == Billings \X (1 .. MaxInvoices)

-----------------------------------------------------------------------------
(* The events, and the tags that put each of them in the models of those it concerns. *)
Event(type, tags, data) == [type |-> type, tags |-> tags, data |-> data]
OfCourse(c) == [course_id |-> {c}]
OfSeat(s, c) == [student_id |-> {s}, course_id |-> {c}]
OfInvoice(b, n) == [billing_id |-> {b}, invoice_id |-> {<<b, n>>}]

CourseDefined(c, capacity) == Event("CourseDefined", OfCourse(c), [capacity |-> capacity])
StudentSubscribed(s, c, at) == Event("StudentSubscribed", OfSeat(s, c), [student |-> s, course |-> c, subscribedAt |-> at])
SubscriptionReleased(s, c) == Event("SubscriptionReleased", OfSeat(s, c), [student |-> s, course |-> c])
CourseCancelled(c, students) == Event("CourseCancelled", [course_id |-> {c}, student_id |-> students], [course |-> c, students |-> students])
CoursePriced(c, price) == Event("CoursePriced", OfCourse(c), [price |-> price])
SubscriptionPaid(s, c, p, amount) == Event("SubscriptionPaid", [student_id |-> {s}, course_id |-> {c}, payment_id |-> {p}],
                                           [student |-> s, course |-> c, payment |-> p, amount |-> amount])
ReceiptSent(p) == Event("ReceiptSent", [payment_id |-> {p}], [payment |-> p])
TeacherAssigned(c) == Event("TeacherAssigned", OfCourse(c), [course |-> c])
RoomBooked(c) == Event("RoomBooked", OfCourse(c), [course |-> c])
CourseConfirmed(c, count) == Event("CourseConfirmed", OfCourse(c), [course |-> c, students |-> count])
BillingStarted(b, s, c, amount, at) == Event("BillingStarted", [billing_id |-> {b}, student_id |-> {s}, course_id |-> {c}],
                                             [billing |-> b, amount |-> amount, startsAt |-> at])
InvoiceIssued(b, n, amount, dueAt) == Event("InvoiceIssued", OfInvoice(b, n), [n |-> n, amount |-> amount, dueAt |-> dueAt])
InvoicePaid(b, n, p) == Event("InvoicePaid", [billing_id |-> {b}, invoice_id |-> {<<b, n>>}, payment_id |-> {p}], [n |-> n])
InvoiceOverdue(b, n) == Event("InvoiceOverdue", OfInvoice(b, n), [n |-> n])
BillingStopped(b) == Event("BillingStopped", [billing_id |-> {b}], [billing |-> b])

Tagged(e, key, id) == key \in DOMAIN e.tags /\ id \in e.tags[key]

-----------------------------------------------------------------------------
(* The models: what each makes of an event that carries its tag; any other event leaves it as it is. *)
CourseModel(c, e) ==
    CASE e.type = "CourseDefined" -> [c EXCEPT !.exists = TRUE, !.capacity = e.data.capacity]
      [] e.type = "StudentSubscribed" -> [c EXCEPT !.subscribers = @ + 1]
      [] e.type = "SubscriptionReleased" -> [c EXCEPT !.subscribers = @ - 1]
      [] e.type = "CourseCancelled" -> [c EXCEPT !.cancelled = TRUE, !.subscribers = 0]
      [] OTHER -> c

StudentModel(courses, e) ==
    CASE e.type = "StudentSubscribed" -> courses \cup {e.data.course}
      [] e.type \in {"SubscriptionReleased", "CourseCancelled"} -> courses \ {e.data.course}
      [] OTHER -> courses

CoursePricing(price, e) == IF e.type = "CoursePriced" THEN e.data.price ELSE price

\* windowClosesAt: when the payment window closes, from the time the subscription recorded.
SubscriptionModel(s, e) ==
    CASE e.type = "StudentSubscribed" ->
            [status |-> "subscribed", windowClosesAt |-> e.data.subscribedAt + PAYMENT_WINDOW_DAYS, billingId |-> None]
      [] e.type = "BillingStarted" -> [s EXCEPT !.status = "billed", !.billingId = e.data.billing]
      [] e.type = "SubscriptionPaid" -> [s EXCEPT !.status = "paid"]
      [] e.type \in {"SubscriptionReleased", "CourseCancelled"} -> [s EXCEPT !.status = "released"]
      [] OTHER -> s

CourseReadiness(r, e) ==
    CASE e.type = "TeacherAssigned" -> [r EXCEPT !.teacher = TRUE]
      [] e.type = "RoomBooked" -> [r EXCEPT !.room = TRUE]
      [] e.type = "StudentSubscribed" -> [r EXCEPT !.students = @ \cup {e.data.student}]
      [] e.type = "SubscriptionReleased" -> [r EXCEPT !.students = @ \ {e.data.student}]
      [] e.type = "CourseConfirmed" -> [r EXCEPT !.status = "confirmed"]
      [] e.type = "CourseCancelled" -> [r EXCEPT !.status = "cancelled"]
      [] OTHER -> r

BillingModel(b, e) ==
    CASE e.type = "BillingStarted" -> [b EXCEPT !.amount = e.data.amount, !.startsAt = e.data.startsAt]
      [] e.type = "InvoiceIssued" -> [b EXCEPT !.lastIssued = IF e.data.n > @ THEN e.data.n ELSE @]
      [] OTHER -> b

InvoiceModel(i, e) ==
    CASE e.type = "InvoiceIssued" -> [i EXCEPT !.issued = TRUE, !.amount = e.data.amount, !.dueAt = e.data.dueAt]
      [] e.type = "InvoicePaid" -> [i EXCEPT !.paid = TRUE]
      [] e.type = "InvoiceOverdue" -> [i EXCEPT !.overdue = TRUE]
      [] OTHER -> i

\* The keys commands are idempotent by (`idempotentBy: where`): an event type and an id of the client's, with how many events have it.
KeyOf == [SubscriptionPaid |-> "payment_id", ReceiptSent |-> "payment_id", InvoicePaid |-> "payment_id",
          BillingStarted |-> "billing_id", BillingStopped |-> "billing_id"]
Keys(e) == IF e.type \in DOMAIN KeyOf THEN SetToBag({e.type} \X e.tags[KeyOf[e.type]]) ELSE EmptyBag
Known(m, type, id) == BagIn(<<type, id>>, m.keys)

InitialModels ==
    [course |-> [c \in Courses |-> [exists |-> FALSE, cancelled |-> FALSE, capacity |-> 0, subscribers |-> 0]],
     student |-> [s \in Students |-> {}],
     pricing |-> [c \in Courses |-> None],
     subscription |-> [x \in Seats |-> [status |-> "none", windowClosesAt |-> 0, billingId |-> None]],
     readiness |-> [c \in Courses |-> [teacher |-> FALSE, room |-> FALSE, students |-> {}, status |-> "waiting"]],
     billing |-> [b \in Billings |-> [amount |-> 0, startsAt |-> None, lastIssued |-> 0]],
     invoice |-> [i \in Invoices |-> [issued |-> FALSE, amount |-> 0, dueAt |-> 0, paid |-> FALSE, overdue |-> FALSE]],
     keys |-> EmptyBag]

\* An event reaches every instance of a model whose tag it carries; the subscription's model is a student's events narrowed to one course.
Reached(model, key, e, On(_, _)) == [id \in DOMAIN model |-> IF Tagged(e, key, id) THEN On(model[id], e) ELSE model[id]]
Folded(m, e) ==
    [course |-> Reached(m.course, "course_id", e, CourseModel),
     student |-> Reached(m.student, "student_id", e, StudentModel),
     pricing |-> Reached(m.pricing, "course_id", e, CoursePricing),
     subscription |-> [x \in Seats |-> IF Tagged(e, "student_id", x[1]) /\ Tagged(e, "course_id", x[2])
                                       THEN SubscriptionModel(m.subscription[x], e) ELSE m.subscription[x]],
     readiness |-> Reached(m.readiness, "course_id", e, CourseReadiness),
     billing |-> Reached(m.billing, "billing_id", e, BillingModel),
     invoice |-> Reached(m.invoice, "invoice_id", e, InvoiceModel),
     keys |-> m.keys (+) Keys(e)]

-----------------------------------------------------------------------------
(* Decisions.  asked: the deadlines set with the events, each with the command to run, its input and the time it falls due. *)
Emit(events, asked) == [outcome |-> "appended", events |-> events, asked |-> asked]
Noop == [outcome |-> "noop", events |-> <<>>, asked |-> <<>>]
Fail == [outcome |-> "failed", events |-> <<>>, asked |-> <<>>]
Ask(command, input, at) == [command |-> command, input |-> input, dueAt |-> at]

DefineCourse(m, c, capacity, at) ==
    IF ~m.course[c].exists
    THEN Emit(<<CourseDefined(c, capacity)>>, <<Ask("cancel_unready_course", c, at + READINESS_DAYS)>>)
    ELSE IF m.course[c].capacity = capacity THEN Noop ELSE Fail

Subscribe(m, s, c, at) ==
    LET course == m.course[c] IN
    IF ~course.exists \/ course.cancelled THEN Fail
    ELSE IF c \in m.student[s] THEN Noop
    ELSE IF course.subscribers >= course.capacity \/ Cardinality(m.student[s]) >= MAX_COURSES_PER_STUDENT THEN Fail
    ELSE Emit(<<StudentSubscribed(s, c, at)>>, <<Ask("release_unpaid_subscription", <<s, c>>, at + PAYMENT_WINDOW_DAYS)>>)

PriceCourse(m, c, price) ==
    IF ~m.course[c].exists THEN Fail ELSE IF m.pricing[c] = price THEN Noop ELSE Emit(<<CoursePriced(c, price)>>, <<>>)

\* mutant: at the very instant it closes, the window is open
WindowClosedAfter(subscription, at) == at > subscription.windowClosesAt
WindowClosed(subscription, at) == at >= subscription.windowClosesAt

PaySubscription(m, s, c, p, amount, at) ==
    LET subscription == m.subscription[<<s, c>>] IN
    IF Known(m, "SubscriptionPaid", p) THEN Noop
    ELSE IF \/ subscription.status # "subscribed" \/ WindowClosed(subscription, at)
            \/ m.pricing[c] = None \/ amount # m.pricing[c]
    THEN Fail
    ELSE Emit(<<SubscriptionPaid(s, c, p, amount)>>, <<>>)

\* mutant: whatever the subscription is by now
ReleaseAnySubscription(m, s, c, at) ==
    IF m.subscription[<<s, c>>].status = "released" THEN Noop ELSE Emit(<<SubscriptionReleased(s, c)>>, <<>>)
ReleaseUnpaidSubscription(m, s, c, at) ==
    LET subscription == m.subscription[<<s, c>>] IN
    IF subscription.status # "subscribed" \/ ~WindowClosed(subscription, at) THEN Noop
    ELSE Emit(<<SubscriptionReleased(s, c)>>, <<>>)

\* mutant: a receipt for each delivery
SendReceiptAgain(m, p) == Emit(<<ReceiptSent(p)>>, <<>>)
SendReceipt(m, p) == IF Known(m, "ReceiptSent", p) THEN Noop ELSE Emit(<<ReceiptSent(p)>>, <<>>)

ConfirmCourse(m, c) ==
    LET r == m.readiness[c] IN
    IF r.status # "waiting" \/ ~r.teacher \/ ~r.room \/ Cardinality(r.students) < MIN_STUDENTS_TO_START THEN Noop
    ELSE Emit(<<CourseConfirmed(c, Cardinality(r.students))>>, <<>>)

\* mutants: the event is not tagged with the students; a confirmed course is cancelled too
CancelForTheCourse(m, c) == IF m.readiness[c].status # "waiting" THEN Noop ELSE Emit(<<CourseCancelled(c, {})>>, <<>>)
CancelUnreadyCourse(m, c) ==
    IF m.readiness[c].status # "waiting" THEN Noop ELSE Emit(<<CourseCancelled(c, m.readiness[c].students)>>, <<>>)

-----------------------------------------------------------------------------
(* The monthly fee. *)
BilledBy(subscription, b) == subscription.status = "billed" /\ subscription.billingId = b
IssueDateOf(startsAt, n) == startsAt + (n - 1) * MONTHLY_FEE_PERIOD_DAYS
DueDateOf(issueDate, at) == (IF issueDate > at THEN issueDate ELSE at) + INVOICE_DUE_DAYS

StartMonthlyFee(m, b, s, c, at) ==
    LET subscription == m.subscription[<<s, c>>] IN
    IF Known(m, "BillingStarted", b) \/ subscription.status = "billed" THEN Noop
    ELSE IF subscription.status # "subscribed" \/ WindowClosed(subscription, at) \/ m.pricing[c] = None THEN Fail
    ELSE Emit(<<BillingStarted(b, s, c, m.pricing[c], at)>>, <<Ask("issue_invoice", <<b, s, c, 1>>, at)>>)

IssueInvoice(m, b, s, c, n, at) ==
    LET billing == m.billing[b]
        dueAt == DueDateOf(IssueDateOf(billing.startsAt, n), at) IN
    IF ~BilledBy(m.subscription[<<s, c>>], b) \/ billing.startsAt = None \/ billing.lastIssued >= n THEN Noop
    ELSE Emit(<<InvoiceIssued(b, n, billing.amount, dueAt)>>,
              <<Ask("issue_invoice", <<b, s, c, n + 1>>, IssueDateOf(billing.startsAt, n + 1)),
                Ask("release_overdue_invoice", <<b, s, c, n>>, dueAt)>>)

PayInvoice(m, b, n, p, amount, at) ==
    LET invoice == m.invoice[<<b, n>>] IN
    IF Known(m, "InvoicePaid", p) THEN Noop
    ELSE IF ~invoice.issued \/ invoice.paid \/ invoice.overdue \/ at >= invoice.dueAt \/ amount # invoice.amount THEN Fail
    ELSE Emit(<<InvoicePaid(b, n, p)>>, <<>>)

ReleaseOverdueInvoice(m, b, s, c, n) ==
    IF m.invoice[<<b, n>>].paid \/ ~BilledBy(m.subscription[<<s, c>>], b) THEN Noop
    ELSE Emit(<<InvoiceOverdue(b, n), SubscriptionReleased(s, c)>>, <<>>)

StopMonthlyFee(m, b, s, c) ==
    IF Known(m, "BillingStopped", b) THEN Noop
    ELSE IF ~BilledBy(m.subscription[<<s, c>>], b) THEN Fail
    ELSE Emit(<<BillingStopped(b), SubscriptionReleased(s, c)>>, <<>>)

\* What the deadlines processor runs for a deadline of this app, on a clock that shows `at`.
RunDeadline(m, d, at) ==
    LET x == d.input IN
    CASE d.command = "cancel_unready_course" -> CancelUnreadyCourse(m, x)
      [] d.command = "release_unpaid_subscription" -> ReleaseUnpaidSubscription(m, x[1], x[2], at)
      [] d.command = "issue_invoice" -> IssueInvoice(m, x[1], x[2], x[3], x[4], at)
      [] d.command = "release_overdue_invoice" -> ReleaseOverdueInvoice(m, x[1], x[2], x[3], x[4])
=============================================================================
