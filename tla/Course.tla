------------------------------ MODULE Course --------------------------------
(***************************************************************************)
(* The course-enrolment app: clients' commands, the two automations, the   *)
(* deadlines processor and the views, over one log.  A command is one      *)
(* step: what it decides is decided on the log it appends to.  Whoever     *)
(* runs one reads the clock of the pod it runs on.  The views are taken at *)
(* the end of the log (how far behind they may be, and that each event is  *)
(* applied once and in order, is Poller's and Reads' subject).  An         *)
(* automation is asked by the events it handles and may run its command    *)
(* again for the same event: a crash before its cursor moved.              *)
(***************************************************************************)
EXTENDS Enrolment, Deadlines

CONSTANTS Null, Required, Refused,
          ClientPods,   \* the pods that serve clients
          MaxRequests   \* bound: clients set deadlines while fewer than these are set

\* Every pod that serves clients is a pod, and the bounds leave room: an invoice sets two deadlines.
ASSUME CourseAssumption == ClientPods \subseteq Pods /\ MaxDeadlines < 2 * MaxInvoices

\* What a NOT NULL column without a value holds is no value of a column.
ASSUME RequiredAssumption == Required \notin Int /\ Required \notin {Null, TRUE, "waiting", "confirmed", "cancelled"}

VARIABLES models,       \* every model's state, by instance
          asked,        \* what the automations have been asked and not answered for good
          rows,         \* the views' tables
          memory        \* those that a replay of the log in memory can keep, as the tests do

courseVars == <<models, asked, rows, memory>>
vars == <<deadlineVars, courseVars>>

T == INSTANCE ViewTable

-----------------------------------------------------------------------------
(* The views: what each event does to each table. *)
Tables == [seats |-> [capacity |-> Required, subscribers |-> 0],
           enrolments |-> [seat_number |-> Required],
           readiness |-> [teacher |-> Null, room |-> Null, students |-> 0, status |-> "waiting"]]

CourseSeatsView(e) ==
    CASE e.type = "CourseDefined" -> {T!Insert(c, [capacity |-> e.data.capacity], "ignore") : c \in e.tags.course_id}
      [] e.type = "StudentSubscribed" -> {T!Update(e.data.course, T!Adding([subscribers |-> 1]))}
      [] e.type = "SubscriptionReleased" -> {T!Update(e.data.course, T!Adding([subscribers |-> -1]))}
      [] e.type = "CourseCancelled" -> {T!Update(e.data.course, T!Setting([subscribers |-> 0]))}
      [] OTHER -> {}

\* The seat number is computed by the view's own SQL, one INSERT ... ON CONFLICT DO NOTHING (`raw`): the highest of the course's numbers plus one.
NextSeat(table, c) == Max({0} \cup {table[x].seat_number : x \in {y \in DOMAIN table : y[2] = c}}) + 1
CourseEnrolmentsView(table, e) ==
    CASE e.type = "StudentSubscribed" ->
            {T!Insert(<<e.data.student, e.data.course>>, [seat_number |-> NextSeat(table, e.data.course)], "ignore")}
      [] e.type = "SubscriptionReleased" -> {T!Remove(<<e.data.student, e.data.course>>)}
      [] e.type = "CourseCancelled" -> {T!Remove(<<s, e.data.course>>) : s \in e.data.students}
      [] OTHER -> {}

CourseReadinessView(e) ==
    LET upsert(change) == {T!Upsert(e.data.course, change)} IN
    CASE e.type = "TeacherAssigned" -> upsert(T!Setting([teacher |-> TRUE]))
      [] e.type = "RoomBooked" -> upsert(T!Setting([room |-> TRUE]))
      [] e.type = "StudentSubscribed" -> upsert(T!Adding([students |-> 1]))
      [] e.type = "SubscriptionReleased" -> upsert(T!Adding([students |-> -1]))
      [] e.type = "CourseConfirmed" -> upsert(T!Setting([status |-> "confirmed"]))
      [] e.type = "CourseCancelled" -> upsert(T!Setting([status |-> "cancelled"]))
      [] OTHER -> {}

\* The operations of an event on one table touch different rows, so their order does not matter.
OpsOf(t, table, e) ==
    CASE t = "seats" -> CourseSeatsView(e)
      [] t = "enrolments" -> CourseEnrolmentsView(table, e)
      [] t = "readiness" -> CourseReadinessView(e)
Applied(tables, e, Apply(_, _, _)) ==
    [t \in DOMAIN tables |-> FoldSet(LAMBDA o, table : Apply(Tables[t], table, o), tables[t], OpsOf(t, tables[t], e))]
Projected(tables, e) == Applied(tables, e, T!RunOp)

\* A replay in memory keeps the tables of the views whose operations are all declared: `raw` needs a database, and stops the replay.
Replayable == {"seats", "readiness"}
InMemory(tables, e) == Applied(tables, e, T!ApplyOp)

-----------------------------------------------------------------------------
(* The automations: the events each handles, and the request it makes of them. *)
ConfirmCourseWhenReady(e) ==
    IF e.type \in {"TeacherAssigned", "RoomBooked", "StudentSubscribed"} THEN {<<"confirm_course", e.data.course>>} ELSE {}
ReceiptOnPayment(e) == IF e.type = "SubscriptionPaid" THEN {<<"send_receipt", e.data.payment>>} ELSE {}
Requests(e) == ConfirmCourseWhenReady(e) \cup ReceiptOnPayment(e)

\* A decision's append: the models, the rows, the automations' triggers and the deadlines, all from the one transaction.
Stored(decision) ==
    /\ models' = FoldLeft(Folded, models, decision.events)
    /\ rows' = FoldLeft(Projected, rows, decision.events)
    /\ memory' = FoldLeft(InMemory, memory, decision.events)
    /\ Schedule(decision.asked)

Commits(decision) ==
    /\ Stored(decision)
    /\ asked' = asked \cup UNION {Requests(e) : e \in ToSet(decision.events)}
    /\ UNCHANGED <<now, fired>>

-----------------------------------------------------------------------------
(* Clients' commands, each on any pod.  One that is refused, or repeats what is known, changes nothing and is no step here. *)
Runs(decision) ==
    /\ decision.outcome = "appended"
    /\ decision.asked # <<>> => last < MaxRequests
    /\ Commits(decision) /\ UNCHANGED processorVars

Defines(p) == \E c \in Courses, capacity \in Capacities : Runs(DefineCourse(models, c, capacity, Clock(p)))
Subscribes(p) == \E s \in Students, c \in Courses : Runs(Subscribe(models, s, c, Clock(p)))
PricesACourse == \E c \in Courses, price \in Prices : Runs(PriceCourse(models, c, price))
Pays(p) == \E s \in Students, c \in Courses, y \in Payments, amount \in Prices :
              Runs(PaySubscription(models, s, c, y, amount, Clock(p)))
StartsFee(p) == \E b \in Billings, s \in Students, c \in Courses : Runs(StartMonthlyFee(models, b, s, c, Clock(p)))
StopsFee == \E b \in Billings, s \in Students, c \in Courses : Runs(StopMonthlyFee(models, b, s, c))
PaysInvoice(p) == \E b \in Billings, n \in 1 .. MaxInvoices, y \in Payments, amount \in Prices :
                     Runs(PayInvoice(models, b, n, y, amount, Clock(p)))

\* A teacher or a room, which other parts of the school append.
Prepares == \E c \in Courses : \E e \in {TeacherAssigned(c), RoomBooked(c)} :
    /\ models.course[c].exists /\ Folded(models, e) # models
    /\ Runs(Emit(<<e>>, <<>>))

\* An automation runs its command for an event, and its cursor moves past the event; or the process ends before it does.
RunRequest(request) == IF request[1] = "confirm_course" THEN ConfirmCourse(models, request[2]) ELSE SendReceipt(models, request[2])
Handles(request) == Stored(RunRequest(request)) /\ UNCHANGED <<now, fired, processorVars>>
Reacts == \E request \in asked : Handles(request) /\ asked' = asked \ {request}
ReactsAndEnds == \E request \in asked : Handles(request) /\ UNCHANGED asked

\* The deadlines processor of a pod runs the command of the deadline it is firing.
Fires(p) ==
    /\ Firing(p)
    /\ LET decision == RunDeadline(models, Current(p), Clock(p)) IN Commits(decision) /\ Ran(p, decision.outcome)

-----------------------------------------------------------------------------
Init ==
    /\ DeadlinesInit
    /\ models = InitialModels /\ asked = {}
    /\ rows = [t \in DOMAIN Tables |-> <<>>] /\ memory = [t \in Replayable |-> <<>>]

ClientStep == \E p \in ClientPods : Defines(p) \/ Subscribes(p) \/ Pays(p) \/ StartsFee(p) \/ PaysInvoice(p)
Next ==
    \/ ClientStep \/ PricesACourse \/ StopsFee \/ Prepares
    \/ Reacts \/ ReactsAndEnds
    \/ \E p \in Pods : Fires(p)
    \/ ProcessorStep /\ UNCHANGED courseVars

Spec == Init /\ [][Next]_vars

-----------------------------------------------------------------------------
Held(m) == {x \in Seats : m.subscription[x].status \in {"subscribed", "paid", "billed"}}
HeldOf(c) == {x \in Held(models) : x[2] = c}
Pending(command, input) == {d \in deadlines : d.command = command /\ d.input = input}
BillingsOf(x) == {b \in Billings : BilledBy(models.subscription[x], b)}

CourseTypeOK ==
    /\ DeadlinesTypeOK
    /\ \A c \in Courses : models.course[c].capacity \in Capacities \cup {0} /\ models.pricing[c] \in Prices \cup {None}
    /\ \A s \in Students : models.student[s] \subseteq Courses
    /\ \A b \in Billings : models.billing[b].lastIssued < MaxInvoices
    /\ asked \subseteq {"confirm_course"} \X Courses \cup {"send_receipt"} \X Payments

\* A course holds no more than its capacity; and the models that look at the same events from the course's side, the student's and the
\* subscription's count the same seats, which the one CourseCancelled of a course gives back in all of them.
SeatsAreCounted ==
    /\ CourseTypeOK
    /\ \A c \in Courses :
        /\ models.course[c].subscribers = Cardinality(HeldOf(c)) /\ Cardinality(HeldOf(c)) <= models.course[c].capacity
        /\ models.readiness[c].status # "cancelled" => models.readiness[c].students = {x[1] : x \in HeldOf(c)}
    /\ \A s \in Students : models.student[s] = {x[2] : x \in {y \in Held(models) : y[1] = s}}

\* What waits for time has a deadline that will ask for it: a course not confirmed, a seat not paid for (when its window closes), the next
\* invoice of a billing and one that is not paid (when it is due).  There is no other record of it, and no deadline is ever cancelled.
WhatWaitsHasADeadline ==
    /\ \A c \in Courses : models.course[c].exists /\ models.readiness[c].status = "waiting" => Pending("cancel_unready_course", c) # {}
    /\ \A x \in Held(models) :
        LET subscription == models.subscription[x] IN
        /\ subscription.status = "subscribed" =>
            \E d \in Pending("release_unpaid_subscription", x) : d.dueAt = subscription.windowClosesAt
        /\ \A b \in BillingsOf(x) :
            LET billing == models.billing[b] IN
            /\ \E d \in Pending("issue_invoice", <<b, x[1], x[2], billing.lastIssued + 1>>) :
                  d.dueAt = IssueDateOf(billing.startsAt, billing.lastIssued + 1)
            /\ \A n \in 1 .. billing.lastIssued : \/ models.invoice[<<b, n>>].paid
                                                  \/ \E d \in Pending("release_overdue_invoice", <<b, x[1], x[2], n>>) :
                                                        d.dueAt = models.invoice[<<b, n>>].dueAt

\* A seat is lost for a reason only: its course was cancelled, its window closed on some clock before it was paid, the student stopped
\* the fee, or one of its invoices is overdue, which was due on some clock and not paid.  A seat that is paid for is never one of them,
\* and a course that was confirmed is not cancelled any more.
SeatsAreLostForAReason ==
    [][/\ \A c \in Courses : models.readiness[c].status # "waiting" => models'.readiness[c].status = models.readiness[c].status
       /\ \A x \in Held(models) \ Held(models') :
         LET subscription == models.subscription[x] IN
         \/ models'.course[x[2]].cancelled
         \/ subscription.status = "subscribed" /\ \E p \in Pods : WindowClosed(subscription, Clock(p))
         \/ \E b \in BillingsOf(x) :
              \/ Known(models', "BillingStopped", b)
              \/ \E n \in 1 .. MaxInvoices : LET invoice == models.invoice[<<b, n>>] IN
                    models'.invoice[<<b, n>>].overdue /\ ~invoice.paid /\ \E p \in Pods : Clock(p) >= invoice.dueAt]_vars

\* What ended has ended once: a deadline has fired, an invoice is paid or overdue and never both, and no key's work is done twice,
\* whatever was delivered or fired twice.
EndedOnceForAll ==
    /\ FiredOnce
    /\ \A i \in Invoices : ~(models.invoice[i].paid /\ models.invoice[i].overdue)
    /\ \A k \in BagToSet(models.keys) : models.keys[k] = 1

\* The views' rows, each kept by additions and removals of its own, say what the models do; of the views a test can replay in memory, the
\* rows are those Postgres holds (not of the enrolments, whose seat numbers `raw` SQL computes).
RowsShowTheModels ==
    /\ memory = [t \in Replayable |-> rows[t]]
    /\ rows.seats = [c \in {c \in Courses : models.course[c].exists} |->
                        [capacity |-> models.course[c].capacity, subscribers |-> models.course[c].subscribers]]
    /\ DOMAIN rows.enrolments = Held(models)
    /\ \A c \in DOMAIN rows.readiness : LET r == models.readiness[c] IN
        rows.readiness[c] = [teacher |-> IF r.teacher THEN TRUE ELSE Null, room |-> IF r.room THEN TRUE ELSE Null,
                             students |-> Cardinality(r.students), status |-> r.status]
=============================================================================
