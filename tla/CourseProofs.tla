---------------------------- MODULE CourseProofs -----------------------------
(***************************************************************************)
(* The course-enrolment app keeps its seats, its fees and its deadlines in *)
(* step, for every number of students, courses, billings and pods, every   *)
(* difference of their clocks, and however often a deadline is fired or an *)
(* event delivered.                                                        *)
(***************************************************************************)
EXTENDS Course, FiniteSetTheorems, WellFoundedInduction, TLAPS

-----------------------------------------------------------------------------
(* The inductive invariant.  What is said of the models alone is said of   *)
(* any models m.                                                           *)
CourseState       == [Courses -> [exists : BOOLEAN, cancelled : BOOLEAN, capacity : Nat, subscribers : Int]]
SubscriptionState == [Seats -> [status : {"none", "subscribed", "billed", "paid", "released"},
                                windowClosesAt : Nat, billingId : Billings \cup {None}]]
ReadinessState    == [Courses -> [teacher : BOOLEAN, room : BOOLEAN, students : SUBSET Students,
                                  status : {"waiting", "confirmed", "cancelled"}]]
BillingState      == [Billings -> [amount : Prices \cup {0}, startsAt : Nat \cup {None}, lastIssued : Nat]]
InvoiceState      == [Invoices -> [issued : BOOLEAN, amount : Prices \cup {0}, dueAt : Nat, paid : BOOLEAN, overdue : BOOLEAN]]

ModelsType(m) ==
  /\ m.course \in CourseState /\ \A c \in Courses : m.course[c].capacity \in Capacities \cup {0}
  /\ m.student \in [Students -> SUBSET Courses]
  /\ m.pricing \in [Courses -> Prices \cup {None}]
  /\ m.subscription \in SubscriptionState
  /\ m.readiness \in ReadinessState
  /\ m.billing \in BillingState
  /\ m.invoice \in InvoiceState
  /\ m.keys \in [DOMAIN m.keys -> {1}]

SeatsOf(m, c) == {x \in Held(m) : x[2] = c}

(* The three models that look at a seat agree. *)
SeatsInv(m) ==
  /\ \A s \in Students, c \in Courses : c \in m.student[s] <=> <<s, c>> \in Held(m)
  /\ \A c \in Courses :
       /\ m.course[c].cancelled <=> m.readiness[c].status = "cancelled"
       /\ ~ m.course[c].cancelled => \A s \in Students : s \in m.readiness[c].students <=> <<s, c>> \in Held(m)
       /\ m.course[c].cancelled => SeatsOf(m, c) = {}
       /\ ~ m.course[c].exists => m.course[c].capacity = 0
       /\ IsFiniteSet(SeatsOf(m, c))
       /\ m.course[c].subscribers = Cardinality(SeatsOf(m, c)) /\ Cardinality(SeatsOf(m, c)) <= m.course[c].capacity

(* A billing bills one seat, and knows since when. *)
BillingInv(m) ==
  /\ \A b \in Billings :
       /\ m.billing[b].startsAt = None <=> ~ Known(m, "BillingStarted", b)
       /\ m.billing[b].startsAt = None => m.billing[b].lastIssued = 0
  /\ \A x, y \in Seats, b \in Billings : BilledBy(m.subscription[x], b) =>
       /\ Known(m, "BillingStarted", b)
       /\ BilledBy(m.subscription[y], b) => x = y

InvoiceInv(m) == \A i \in Invoices : ~ (m.invoice[i].paid /\ m.invoice[i].overdue)

ModelInv(m) == ModelsType(m) /\ SeatsInv(m) /\ BillingInv(m) /\ InvoiceInv(m)

(* What a deadline may be: the invoice it is about is the next of its      *)
(* billing, or one issued and due when the deadline is.                    *)
IsDeadline(m, d) ==
  LET x == d.input IN
  \/ d.command = "cancel_unready_course" /\ x \in Courses
  \/ d.command = "release_unpaid_subscription" /\ x \in Seats
  \/ /\ x \in Billings \X Students \X Courses \X (Nat \ {0})
     /\ \/ d.command = "issue_invoice" /\ x[4] <= m.billing[x[1]].lastIssued + 1
        \/ /\ d.command = "release_overdue_invoice" /\ x[4] <= m.billing[x[1]].lastIssued
           /\ d.dueAt = m.invoice[<<x[1], x[4]>>].dueAt

(* The rows, those a pod has fetched, and the invoices they are of. *)
Rows == deadlines \cup UNION {batch[p] : p \in Pods}

DeadlinesInv ==
  /\ DeadlinesTypeOK /\ batch = [p \in Pods |-> batch[p]]
  /\ \A d, e \in Rows : d.position = e.position => d = e
  /\ \A d \in Rows : IsDeadline(models, d)
  /\ \A p \in Pods : \A d \in batch[p] : d.position \in 1 .. last /\ d.dueAt \in Nat /\ d.dueAt <= Clock(p)
  /\ \A b \in Billings : 2 * models.billing[b].lastIssued <= last

(* What waits has a deadline in D. *)
Has(D, command, input) == \E d \in D : d.command = command /\ d.input = input
HasDue(D, command, input, at) == \E d \in D : d.command = command /\ d.input = input /\ d.dueAt = at

CoursesWait(m, D) ==
  \A c \in Courses : m.course[c].exists /\ m.readiness[c].status = "waiting" => Has(D, "cancel_unready_course", c)
SeatsWait(m, D) ==
  \A x \in Seats : m.subscription[x].status = "subscribed" =>
    HasDue(D, "release_unpaid_subscription", x, m.subscription[x].windowClosesAt)
InvoicesWait(m, D) ==
  \A x \in Seats, b \in Billings : BilledBy(m.subscription[x], b) =>
    /\ HasDue(D, "issue_invoice", <<b, x[1], x[2], m.billing[b].lastIssued + 1>>,
              IssueDateOf(m.billing[b].startsAt, m.billing[b].lastIssued + 1))
    /\ \A i \in 1 .. m.billing[b].lastIssued :
         \/ m.invoice[<<b, i>>].paid
         \/ HasDue(D, "release_overdue_invoice", <<b, x[1], x[2], i>>, m.invoice[<<b, i>>].dueAt)

WaitsIn(m, D) == CoursesWait(m, D) /\ SeatsWait(m, D) /\ InvoicesWait(m, D)

(* It is one whose command has not run. *)
Open == {d \in deadlines : \A p \in Pods : ran[p] # "not_run" => d # Current(p)}

AskedInv == asked \subseteq {"confirm_course"} \X Courses \cup {"send_receipt"} \X Payments

IInv == ModelInv(models) /\ DeadlinesInv /\ FiredOnce /\ WaitsIn(models, Open) /\ AskedInv
-----------------------------------------------------------------------------
(* What the fold makes of one event, or of two. *)

LEMMA MaxOf == Max({1}) = 1 /\ Max({2}) = 2 /\ Max({1, 2}) = 2
BY DEF Max

FoldOf(m, events) == FoldLeft(Folded, m, events)

LEMMA FoldIs ==
  ASSUME NEW m, NEW seq
  PROVE  FoldOf(m, seq) =
           LET iter[s \in SUBSET DOMAIN seq] ==
                 IF s = {} THEN m ELSE LET x == Max(s) IN Folded(iter[s \ {x}], seq[x])
           IN  iter[DOMAIN seq]
BY Zenon DEF FoldOf, FoldLeft, MapThenFoldSet

LEMMA FoldNone == ASSUME NEW m PROVE FoldOf(m, <<>>) = m
<1> DEFINE Is(it) == it = [s \in SUBSET DOMAIN <<>> |->
                             IF s = {} THEN m ELSE LET x == Max(s) IN Folded(it[s \ {x}], <<>>[x])]
           iter == CHOOSE it : Is(it)
<1>1. Is([s \in SUBSET DOMAIN <<>> |-> m])
  OBVIOUS
<1>2. Is(iter)
  BY <1>1, Zenon
<1>3. FoldOf(m, <<>>) = iter[DOMAIN <<>>]
  BY FoldIs, Zenon
<1>4. iter[DOMAIN <<>>] = m
  <2> HIDE DEF iter
  <2> QED
    BY <1>2
<1> QED
  BY <1>3, <1>4

LEMMA FoldOne == ASSUME NEW m, NEW a PROVE FoldOf(m, <<a>>) = Folded(m, a)
<1> DEFINE seq == <<a>>
           Is(it) == it = [s \in SUBSET DOMAIN seq |->
                             IF s = {} THEN m ELSE LET x == Max(s) IN Folded(it[s \ {x}], seq[x])]
           iter == CHOOSE it : Is(it)
           F == [s \in SUBSET DOMAIN seq |-> IF s = {} THEN m ELSE Folded(m, a)]
<1>1. DOMAIN seq = {1} /\ seq[1] = a
  OBVIOUS
<1> HIDE DEF seq
<1>2. SUBSET DOMAIN seq = {{}, {1}} /\ {1} \ {1} = {}
  BY <1>1
<1>3. Is(F)
  <2>1. F[{}] = m /\ F[{1}] = Folded(m, a)
    BY <1>2
  <2> SUFFICES ASSUME NEW s \in SUBSET DOMAIN seq
               PROVE  F[s] = IF s = {} THEN m ELSE LET x == Max(s) IN Folded(F[s \ {x}], seq[x])
    BY Zenon
  <2> QED
    BY <2>1, <1>1, <1>2, MaxOf
<1>4. Is(iter)
  BY <1>3, Zenon
<1>5. FoldOf(m, seq) = iter[DOMAIN seq]
  BY FoldIs, Zenon
<1>6. iter[DOMAIN seq] = Folded(m, a)
  <2> HIDE DEF iter
  <2>1. \A s \in SUBSET DOMAIN seq :
          iter[s] = IF s = {} THEN m ELSE LET x == Max(s) IN Folded(iter[s \ {x}], seq[x])
    BY <1>4
  <2>2. iter[{}] = m
    BY <2>1
  <2> QED
    BY <2>1, <2>2, <1>1, <1>2, MaxOf
<1> QED
  BY <1>5, <1>6 DEF seq

LEMMA FoldTwo == ASSUME NEW m, NEW a, NEW b PROVE FoldOf(m, <<a, b>>) = Folded(Folded(m, a), b)
<1> DEFINE seq == <<a, b>>
           Is(it) == it = [s \in SUBSET DOMAIN seq |->
                             IF s = {} THEN m ELSE LET x == Max(s) IN Folded(it[s \ {x}], seq[x])]
           iter == CHOOSE it : Is(it)
           F == [s \in SUBSET DOMAIN seq |-> IF s = {} THEN m ELSE IF s = {1} THEN Folded(m, a)
                                             ELSE IF s = {2} THEN Folded(m, b) ELSE Folded(Folded(m, a), b)]
<1>1. DOMAIN seq = {1, 2} /\ seq[1] = a /\ seq[2] = b
  OBVIOUS
<1> HIDE DEF seq
<1>2. /\ SUBSET DOMAIN seq = {{}, {1}, {2}, {1, 2}}
      /\ {1} \ {1} = {} /\ {2} \ {2} = {} /\ {1, 2} \ {2} = {1} /\ {1} # {2} /\ {1, 2} # {1} /\ {1, 2} # {2}
  BY <1>1
<1>3. Is(F)
  <2>1. F[{}] = m /\ F[{1}] = Folded(m, a) /\ F[{2}] = Folded(m, b) /\ F[{1, 2}] = Folded(Folded(m, a), b)
    BY <1>2
  <2> SUFFICES ASSUME NEW s \in SUBSET DOMAIN seq
               PROVE  F[s] = IF s = {} THEN m ELSE LET x == Max(s) IN Folded(F[s \ {x}], seq[x])
    BY Zenon
  <2> QED
    BY <2>1, <1>1, <1>2, MaxOf
<1>4. Is(iter)
  BY <1>3, Zenon
<1>5. FoldOf(m, seq) = iter[DOMAIN seq]
  BY FoldIs, Zenon
<1>6. iter[DOMAIN seq] = Folded(Folded(m, a), b)
  <2> HIDE DEF iter
  <2>1. \A s \in SUBSET DOMAIN seq :
          iter[s] = IF s = {} THEN m ELSE LET x == Max(s) IN Folded(iter[s \ {x}], seq[x])
    BY <1>4
  <2>2. iter[{}] = m
    BY <2>1
  <2>3. iter[{1}] = Folded(m, a)
    BY <2>1, <2>2, <1>1, <1>2, MaxOf
  <2>4. iter[{1, 2}] = Folded(iter[{1}], b)
    <3>1. {1, 2} \in SUBSET DOMAIN seq /\ {1, 2} # {} /\ {1, 2} \ {Max({1, 2})} = {1} /\ seq[Max({1, 2})] = b
      BY <1>1, <1>2, MaxOf
    <3> QED
      BY <2>1, <3>1
  <2> QED
    BY <2>3, <2>4, <1>1
<1> QED
  BY <1>5, <1>6 DEF seq

-----------------------------------------------------------------------------
(* What the models make of each event. *)

LEMMA NoKeys == ASSUME NEW keys, keys \in [DOMAIN keys -> {1}] PROVE keys (+) EmptyBag = keys
BY DEF (+), EmptyBag, SetToBag

(* One key more, which was not there. *)
LEMMA NewKey ==
  ASSUME NEW keys, keys \in [DOMAIN keys -> {1}], NEW k, k \notin DOMAIN keys
  PROVE  /\ DOMAIN (keys (+) SetToBag({k})) = DOMAIN keys \cup {k}
         /\ keys (+) SetToBag({k}) \in [DOMAIN (keys (+) SetToBag({k})) -> {1}]
BY DEF (+), SetToBag

LEMMA SeatIsPair == \A x \in Seats : x[1] \in Students /\ x[2] \in Courses /\ x = <<x[1], x[2]>>
BY DEF Seats

LEMMA InvoiceIsPair == \A i \in Invoices : i[1] \in Billings /\ i[2] \in Nat /\ i = <<i[1], i[2]>>
BY EnrolmentAssumption DEF Invoices

AfterDefined(m, n, c, capacity) ==
  /\ n.course = [m.course EXCEPT ![c].exists = TRUE, ![c].capacity = capacity]
  /\ n.student = m.student /\ n.pricing = m.pricing /\ n.subscription = m.subscription /\ n.readiness = m.readiness
  /\ n.billing = m.billing /\ n.invoice = m.invoice
  /\ n.keys = m.keys

LEMMA OnDefined ==
  ASSUME NEW m, ModelsType(m), NEW c \in Courses, NEW capacity
  PROVE  AfterDefined(m, Folded(m, CourseDefined(c, capacity)), c, capacity)
<1> DEFINE e == CourseDefined(c, capacity)
<1>1. /\ e.type = "CourseDefined" /\ e.data.capacity = capacity
      /\ \A k \in Courses : Tagged(e, "course_id", k) <=> k = c
      /\ \A k : ~ Tagged(e, "student_id", k) /\ ~ Tagged(e, "billing_id", k) /\ ~ Tagged(e, "invoice_id", k)
      /\ Keys(e) = EmptyBag
  BY DEF CourseDefined, Event, Tagged, Keys, KeyOf, OfCourse
<1> HIDE DEF e
<1>2. Folded(m, e).course = [m.course EXCEPT ![c].exists = TRUE, ![c].capacity = capacity]
  <2>1. Folded(m, e).course = [m.course EXCEPT ![c] = CourseModel(m.course[c], e)]
    BY <1>1 DEF Folded, Reached, ModelsType, CourseState
  <2> QED
    BY <2>1, <1>1 DEF CourseModel
<1>3. /\ Folded(m, e).student = m.student /\ Folded(m, e).pricing = m.pricing
      /\ Folded(m, e).subscription = m.subscription /\ Folded(m, e).readiness = m.readiness
      /\ Folded(m, e).billing = m.billing /\ Folded(m, e).invoice = m.invoice
  BY <1>1 DEF Folded, Reached, StudentModel, CoursePricing, SubscriptionState, SubscriptionModel, ReadinessState,
         CourseReadiness, BillingState, BillingModel, InvoiceState, InvoiceModel, ModelsType
<1>4. Folded(m, e).keys = m.keys
  BY <1>1, NoKeys DEF Folded, ModelsType
<1> QED
  BY <1>2, <1>3, <1>4 DEF e, AfterDefined

AfterSubscribed(m, n, s, c, at) ==
  /\ n.course = [m.course EXCEPT ![c].subscribers = @ + 1]
  /\ n.student = [m.student EXCEPT ![s] = @ \cup {c}]
  /\ n.subscription = [m.subscription EXCEPT ![<<s, c>>] =
                [status |-> "subscribed", windowClosesAt |-> at + PAYMENT_WINDOW_DAYS, billingId |-> None]]
  /\ n.readiness = [m.readiness EXCEPT ![c].students = @ \cup {s}]
  /\ n.pricing = m.pricing /\ n.billing = m.billing /\ n.invoice = m.invoice
  /\ n.keys = m.keys

LEMMA OnSubscribed ==
  ASSUME NEW m, ModelsType(m), NEW s \in Students, NEW c \in Courses, NEW at \in Nat
  PROVE  AfterSubscribed(m, Folded(m, StudentSubscribed(s, c, at)), s, c, at)
<1> DEFINE e == StudentSubscribed(s, c, at)
<1>1. /\ e.type = "StudentSubscribed" /\ e.data.student = s /\ e.data.course = c /\ e.data.subscribedAt = at
      /\ \A k \in Courses : Tagged(e, "course_id", k) <=> k = c
      /\ \A k \in Students : Tagged(e, "student_id", k) <=> k = s
      /\ \A k : ~ Tagged(e, "billing_id", k) /\ ~ Tagged(e, "invoice_id", k)
      /\ Keys(e) = EmptyBag
  BY DEF StudentSubscribed, Event, Tagged, Keys, KeyOf, OfSeat
<1> HIDE DEF e
<1>2. Folded(m, e).course = [m.course EXCEPT ![c].subscribers = @ + 1]
  BY <1>1 DEF Folded, Reached, CourseState, CourseModel, ModelsType
<1>3. Folded(m, e).student = [m.student EXCEPT ![s] = @ \cup {c}]
  BY <1>1 DEF Folded, Reached, StudentModel, ModelsType
<1>4. Folded(m, e).subscription = [m.subscription EXCEPT ![<<s, c>>] =
                       [status |-> "subscribed", windowClosesAt |-> at + PAYMENT_WINDOW_DAYS, billingId |-> None]]
  <2>1. Folded(m, e).subscription = [m.subscription EXCEPT ![<<s, c>>] = SubscriptionModel(m.subscription[<<s, c>>], e)]
    <3>1. \A x \in Seats : Tagged(e, "student_id", x[1]) /\ Tagged(e, "course_id", x[2]) <=> x = <<s, c>>
      BY <1>1, SeatIsPair
    <3> QED
      BY <3>1 DEF Folded, ModelsType, SubscriptionState
  <2> QED
    BY <2>1, <1>1 DEF SubscriptionModel
<1>5. Folded(m, e).readiness = [m.readiness EXCEPT ![c].students = @ \cup {s}]
  BY <1>1 DEF Folded, Reached, ReadinessState, CourseReadiness, ModelsType
<1>6. Folded(m, e).pricing = m.pricing /\ Folded(m, e).billing = m.billing /\ Folded(m, e).invoice = m.invoice
  BY <1>1 DEF Folded, Reached, CoursePricing, BillingState, BillingModel, InvoiceState, InvoiceModel, ModelsType
<1>7. Folded(m, e).keys = m.keys
  BY <1>1, NoKeys DEF Folded, ModelsType
<1> QED
  BY <1>2, <1>3, <1>4, <1>5, <1>6, <1>7 DEF e, AfterSubscribed

AfterReleased(m, n, s, c) ==
  /\ n.course = [m.course EXCEPT ![c].subscribers = @ - 1]
  /\ n.student = [m.student EXCEPT ![s] = @ \ {c}]
  /\ n.subscription = [m.subscription EXCEPT ![<<s, c>>].status = "released"]
  /\ n.readiness = [m.readiness EXCEPT ![c].students = @ \ {s}]
  /\ n.pricing = m.pricing /\ n.billing = m.billing /\ n.invoice = m.invoice
  /\ n.keys = m.keys

LEMMA OnReleased ==
  ASSUME NEW m, ModelsType(m), NEW s \in Students, NEW c \in Courses
  PROVE  AfterReleased(m, Folded(m, SubscriptionReleased(s, c)), s, c)
<1> DEFINE e == SubscriptionReleased(s, c)
<1>1. /\ e.type = "SubscriptionReleased" /\ e.data.student = s /\ e.data.course = c
      /\ \A k \in Courses : Tagged(e, "course_id", k) <=> k = c
      /\ \A k \in Students : Tagged(e, "student_id", k) <=> k = s
      /\ \A k : ~ Tagged(e, "billing_id", k) /\ ~ Tagged(e, "invoice_id", k)
      /\ Keys(e) = EmptyBag
  BY DEF SubscriptionReleased, Event, Tagged, Keys, KeyOf, OfSeat
<1> HIDE DEF e
<1>2. Folded(m, e).course = [m.course EXCEPT ![c].subscribers = @ - 1]
  BY <1>1 DEF Folded, Reached, CourseState, CourseModel, ModelsType
<1>3. Folded(m, e).student = [m.student EXCEPT ![s] = @ \ {c}]
  BY <1>1 DEF Folded, Reached, StudentModel, ModelsType
<1>4. Folded(m, e).subscription = [m.subscription EXCEPT ![<<s, c>>].status = "released"]
  <2>1. Folded(m, e).subscription = [m.subscription EXCEPT ![<<s, c>>] = SubscriptionModel(m.subscription[<<s, c>>], e)]
    <3>1. \A x \in Seats : Tagged(e, "student_id", x[1]) /\ Tagged(e, "course_id", x[2]) <=> x = <<s, c>>
      BY <1>1, SeatIsPair
    <3> QED
      BY <3>1 DEF Folded, ModelsType, SubscriptionState
  <2> QED
    BY <2>1, <1>1 DEF SubscriptionModel
<1>5. Folded(m, e).readiness = [m.readiness EXCEPT ![c].students = @ \ {s}]
  BY <1>1 DEF Folded, Reached, ReadinessState, CourseReadiness, ModelsType
<1>6. Folded(m, e).pricing = m.pricing /\ Folded(m, e).billing = m.billing /\ Folded(m, e).invoice = m.invoice
  BY <1>1 DEF Folded, Reached, CoursePricing, BillingState, BillingModel, InvoiceState, InvoiceModel, ModelsType
<1>7. Folded(m, e).keys = m.keys
  BY <1>1, NoKeys DEF Folded, ModelsType
<1> QED
  BY <1>2, <1>3, <1>4, <1>5, <1>6, <1>7 DEF e, AfterReleased

AfterCancelled(m, n, c, students) ==
  /\ n.course = [m.course EXCEPT ![c].cancelled = TRUE, ![c].subscribers = 0]
  /\ n.student = [k \in Students |-> IF k \in students THEN m.student[k] \ {c} ELSE m.student[k]]
  /\ n.subscription = [x \in Seats |-> IF x[1] \in students /\ x[2] = c THEN [m.subscription[x] EXCEPT !.status = "released"]
                                                          ELSE m.subscription[x]]
  /\ n.readiness = [m.readiness EXCEPT ![c].status = "cancelled"]
  /\ n.pricing = m.pricing /\ n.billing = m.billing /\ n.invoice = m.invoice
  /\ n.keys = m.keys

LEMMA OnCancelled ==
  ASSUME NEW m, ModelsType(m), NEW c \in Courses, NEW students \in SUBSET Students
  PROVE  AfterCancelled(m, Folded(m, CourseCancelled(c, students)), c, students)
<1> DEFINE e == CourseCancelled(c, students)
<1>1. /\ e.type = "CourseCancelled" /\ e.data.course = c /\ e.data.students = students
      /\ \A k \in Courses : Tagged(e, "course_id", k) <=> k = c
      /\ \A k \in Students : Tagged(e, "student_id", k) <=> k \in students
      /\ \A k : ~ Tagged(e, "billing_id", k) /\ ~ Tagged(e, "invoice_id", k)
      /\ Keys(e) = EmptyBag
  BY DEF CourseCancelled, Event, Tagged, Keys, KeyOf
<1> HIDE DEF e
<1>2. Folded(m, e).course = [m.course EXCEPT ![c].cancelled = TRUE, ![c].subscribers = 0]
  BY <1>1 DEF Folded, Reached, CourseState, CourseModel, ModelsType
<1>3. Folded(m, e).student = [k \in Students |-> IF k \in students THEN m.student[k] \ {c} ELSE m.student[k]]
  BY <1>1 DEF Folded, Reached, StudentModel, ModelsType
<1>4. Folded(m, e).subscription = [x \in Seats |-> IF x[1] \in students /\ x[2] = c THEN [m.subscription[x] EXCEPT !.status = "released"]
                                                                 ELSE m.subscription[x]]
  BY <1>1, SeatIsPair DEF Folded, SubscriptionState, SubscriptionModel, ModelsType
<1>5. Folded(m, e).readiness = [m.readiness EXCEPT ![c].status = "cancelled"]
  BY <1>1 DEF Folded, Reached, ReadinessState, CourseReadiness, ModelsType
<1>6. Folded(m, e).pricing = m.pricing /\ Folded(m, e).billing = m.billing /\ Folded(m, e).invoice = m.invoice
  BY <1>1 DEF Folded, Reached, CoursePricing, BillingState, BillingModel, InvoiceState, InvoiceModel, ModelsType
<1>7. Folded(m, e).keys = m.keys
  BY <1>1, NoKeys DEF Folded, ModelsType
<1> QED
  BY <1>2, <1>3, <1>4, <1>5, <1>6, <1>7 DEF e, AfterCancelled

AfterPriced(m, n, c, price) ==
  /\ n.pricing = [m.pricing EXCEPT ![c] = price]
  /\ n.course = m.course /\ n.student = m.student /\ n.subscription = m.subscription /\ n.readiness = m.readiness
  /\ n.billing = m.billing /\ n.invoice = m.invoice
  /\ n.keys = m.keys

LEMMA OnPriced ==
  ASSUME NEW m, ModelsType(m), NEW c \in Courses, NEW price
  PROVE  AfterPriced(m, Folded(m, CoursePriced(c, price)), c, price)
<1> DEFINE e == CoursePriced(c, price)
<1>1. /\ e.type = "CoursePriced" /\ e.data.price = price
      /\ \A k \in Courses : Tagged(e, "course_id", k) <=> k = c
      /\ \A k : ~ Tagged(e, "student_id", k) /\ ~ Tagged(e, "billing_id", k) /\ ~ Tagged(e, "invoice_id", k)
      /\ Keys(e) = EmptyBag
  BY DEF CoursePriced, Event, Tagged, Keys, KeyOf, OfCourse
<1> HIDE DEF e
<1>2. Folded(m, e).pricing = [m.pricing EXCEPT ![c] = price]
  BY <1>1 DEF Folded, Reached, CoursePricing, ModelsType
<1>3. /\ Folded(m, e).course = m.course /\ Folded(m, e).student = m.student
      /\ Folded(m, e).subscription = m.subscription /\ Folded(m, e).readiness = m.readiness
      /\ Folded(m, e).billing = m.billing /\ Folded(m, e).invoice = m.invoice
  BY <1>1 DEF Folded, Reached, CourseState, CourseModel, StudentModel, SubscriptionState, SubscriptionModel,
         ReadinessState, CourseReadiness, BillingState, BillingModel, InvoiceState, InvoiceModel, ModelsType
<1>4. Folded(m, e).keys = m.keys
  BY <1>1, NoKeys DEF Folded, ModelsType
<1> QED
  BY <1>2, <1>3, <1>4 DEF e, AfterPriced

AfterPaid(m, n, s, c, p, amount) ==
  /\ n.subscription = [m.subscription EXCEPT ![<<s, c>>].status = "paid"]
  /\ n.course = m.course /\ n.student = m.student /\ n.pricing = m.pricing /\ n.readiness = m.readiness
  /\ n.billing = m.billing /\ n.invoice = m.invoice
  /\ n.keys \in [DOMAIN n.keys -> {1}] /\ DOMAIN n.keys = DOMAIN m.keys \cup {<<"SubscriptionPaid", p>>}

LEMMA OnPaid ==
  ASSUME NEW m, ModelsType(m), NEW s \in Students, NEW c \in Courses, NEW p, NEW amount, ~ Known(m, "SubscriptionPaid", p)
  PROVE  AfterPaid(m, Folded(m, SubscriptionPaid(s, c, p, amount)), s, c, p, amount)
<1> DEFINE e == SubscriptionPaid(s, c, p, amount)
<1>1. /\ e.type = "SubscriptionPaid"
      /\ \A k \in Courses : Tagged(e, "course_id", k) <=> k = c
      /\ \A k \in Students : Tagged(e, "student_id", k) <=> k = s
      /\ \A k : ~ Tagged(e, "billing_id", k) /\ ~ Tagged(e, "invoice_id", k)
      /\ Keys(e) = SetToBag({<<"SubscriptionPaid", p>>})
  <2>1. e.type \in DOMAIN KeyOf /\ e.tags[KeyOf[e.type]] = {p} /\ e.type = "SubscriptionPaid"
    BY DEF SubscriptionPaid, Event, KeyOf
  <2>2. {e.type} \X {p} = {<<"SubscriptionPaid", p>>}
    BY <2>1
  <2>3. Keys(e) = SetToBag({<<"SubscriptionPaid", p>>})
    BY <2>1, <2>2, Zenon DEF Keys
  <2> QED
    BY <2>3 DEF SubscriptionPaid, Event, Tagged
<1> HIDE DEF e
<1>2. Folded(m, e).subscription = [m.subscription EXCEPT ![<<s, c>>].status = "paid"]
  <2>1. Folded(m, e).subscription = [m.subscription EXCEPT ![<<s, c>>] = SubscriptionModel(m.subscription[<<s, c>>], e)]
    <3>1. \A x \in Seats : Tagged(e, "student_id", x[1]) /\ Tagged(e, "course_id", x[2]) <=> x = <<s, c>>
      BY <1>1, SeatIsPair
    <3> QED
      BY <3>1 DEF Folded, ModelsType, SubscriptionState
  <2> QED
    BY <2>1, <1>1 DEF SubscriptionModel
<1>3. /\ Folded(m, e).course = m.course /\ Folded(m, e).student = m.student /\ Folded(m, e).pricing = m.pricing
      /\ Folded(m, e).readiness = m.readiness /\ Folded(m, e).billing = m.billing /\ Folded(m, e).invoice = m.invoice
  BY <1>1 DEF Folded, Reached, CourseState, CourseModel, StudentModel, CoursePricing, ReadinessState, CourseReadiness,
         BillingState, BillingModel, InvoiceState, InvoiceModel, ModelsType
<1>4. /\ Folded(m, e).keys \in [DOMAIN Folded(m, e).keys -> {1}]
      /\ DOMAIN Folded(m, e).keys = DOMAIN m.keys \cup {<<"SubscriptionPaid", p>>}
  BY <1>1, NewKey DEF Folded, ModelsType, Known, BagIn, BagToSet
<1> QED
  BY <1>2, <1>3, <1>4 DEF e, AfterPaid

AfterReceipt(m, n, p) ==
  /\ n.course = m.course /\ n.student = m.student /\ n.pricing = m.pricing /\ n.subscription = m.subscription
  /\ n.readiness = m.readiness /\ n.billing = m.billing /\ n.invoice = m.invoice
  /\ n.keys \in [DOMAIN n.keys -> {1}] /\ DOMAIN n.keys = DOMAIN m.keys \cup {<<"ReceiptSent", p>>}

LEMMA OnReceipt ==
  ASSUME NEW m, ModelsType(m), NEW p, ~ Known(m, "ReceiptSent", p)
  PROVE  AfterReceipt(m, Folded(m, ReceiptSent(p)), p)
<1> DEFINE e == ReceiptSent(p)
<1>1. /\ e.type = "ReceiptSent"
      /\ \A k : ~ Tagged(e, "course_id", k) /\ ~ Tagged(e, "student_id", k) /\ ~ Tagged(e, "billing_id", k) /\ ~ Tagged(e, "invoice_id", k)
      /\ Keys(e) = SetToBag({<<"ReceiptSent", p>>})
  <2>1. e.type \in DOMAIN KeyOf /\ e.tags[KeyOf[e.type]] = {p} /\ e.type = "ReceiptSent"
    BY DEF ReceiptSent, Event, KeyOf
  <2>2. {e.type} \X {p} = {<<"ReceiptSent", p>>}
    BY <2>1
  <2>3. Keys(e) = SetToBag({<<"ReceiptSent", p>>})
    BY <2>1, <2>2, Zenon DEF Keys
  <2> QED
    BY <2>3 DEF ReceiptSent, Event, Tagged
<1> HIDE DEF e
<1>2. /\ Folded(m, e).course = m.course /\ Folded(m, e).student = m.student /\ Folded(m, e).pricing = m.pricing
      /\ Folded(m, e).subscription = m.subscription /\ Folded(m, e).readiness = m.readiness
      /\ Folded(m, e).billing = m.billing /\ Folded(m, e).invoice = m.invoice
  BY <1>1 DEF Folded, Reached, CourseState, CourseModel, StudentModel, CoursePricing, SubscriptionState,
         SubscriptionModel, ReadinessState, CourseReadiness, BillingState, BillingModel, InvoiceState, InvoiceModel,
         ModelsType
<1>3. /\ Folded(m, e).keys \in [DOMAIN Folded(m, e).keys -> {1}]
      /\ DOMAIN Folded(m, e).keys = DOMAIN m.keys \cup {<<"ReceiptSent", p>>}
  BY <1>1, NewKey DEF Folded, ModelsType, Known, BagIn, BagToSet
<1> QED
  BY <1>2, <1>3 DEF e, AfterReceipt

AfterTeacher(m, n, c) ==
  /\ n.readiness = [m.readiness EXCEPT ![c].teacher = TRUE]
  /\ n.course = m.course /\ n.student = m.student /\ n.pricing = m.pricing /\ n.subscription = m.subscription
  /\ n.billing = m.billing /\ n.invoice = m.invoice
  /\ n.keys = m.keys

LEMMA OnTeacher ==
  ASSUME NEW m, ModelsType(m), NEW c \in Courses
  PROVE  AfterTeacher(m, Folded(m, TeacherAssigned(c)), c)
<1> DEFINE e == TeacherAssigned(c)
<1>1. /\ e.type = "TeacherAssigned"
      /\ \A k \in Courses : Tagged(e, "course_id", k) <=> k = c
      /\ \A k : ~ Tagged(e, "student_id", k) /\ ~ Tagged(e, "billing_id", k) /\ ~ Tagged(e, "invoice_id", k)
      /\ Keys(e) = EmptyBag
  BY DEF TeacherAssigned, Event, Tagged, Keys, KeyOf, OfCourse
<1> HIDE DEF e
<1>2. Folded(m, e).readiness = [m.readiness EXCEPT ![c].teacher = TRUE]
  <2>1. Folded(m, e).readiness = [m.readiness EXCEPT ![c] = CourseReadiness(m.readiness[c], e)]
    BY <1>1 DEF Folded, Reached, ModelsType, ReadinessState
  <2> QED
    BY <2>1, <1>1 DEF CourseReadiness
<1>3. /\ Folded(m, e).course = m.course /\ Folded(m, e).student = m.student /\ Folded(m, e).pricing = m.pricing
      /\ Folded(m, e).subscription = m.subscription /\ Folded(m, e).billing = m.billing
      /\ Folded(m, e).invoice = m.invoice
  BY <1>1 DEF Folded, Reached, CourseState, CourseModel, StudentModel, CoursePricing, SubscriptionState,
         SubscriptionModel, BillingState, BillingModel, InvoiceState, InvoiceModel, ModelsType
<1>4. Folded(m, e).keys = m.keys
  BY <1>1, NoKeys DEF Folded, ModelsType
<1> QED
  BY <1>2, <1>3, <1>4 DEF e, AfterTeacher

AfterRoom(m, n, c) ==
  /\ n.readiness = [m.readiness EXCEPT ![c].room = TRUE]
  /\ n.course = m.course /\ n.student = m.student /\ n.pricing = m.pricing /\ n.subscription = m.subscription
  /\ n.billing = m.billing /\ n.invoice = m.invoice
  /\ n.keys = m.keys

LEMMA OnRoom ==
  ASSUME NEW m, ModelsType(m), NEW c \in Courses
  PROVE  AfterRoom(m, Folded(m, RoomBooked(c)), c)
<1> DEFINE e == RoomBooked(c)
<1>1. /\ e.type = "RoomBooked"
      /\ \A k \in Courses : Tagged(e, "course_id", k) <=> k = c
      /\ \A k : ~ Tagged(e, "student_id", k) /\ ~ Tagged(e, "billing_id", k) /\ ~ Tagged(e, "invoice_id", k)
      /\ Keys(e) = EmptyBag
  BY DEF RoomBooked, Event, Tagged, Keys, KeyOf, OfCourse
<1> HIDE DEF e
<1>2. Folded(m, e).readiness = [m.readiness EXCEPT ![c].room = TRUE]
  <2>1. Folded(m, e).readiness = [m.readiness EXCEPT ![c] = CourseReadiness(m.readiness[c], e)]
    BY <1>1 DEF Folded, Reached, ModelsType, ReadinessState
  <2> QED
    BY <2>1, <1>1 DEF CourseReadiness
<1>3. /\ Folded(m, e).course = m.course /\ Folded(m, e).student = m.student /\ Folded(m, e).pricing = m.pricing
      /\ Folded(m, e).subscription = m.subscription /\ Folded(m, e).billing = m.billing
      /\ Folded(m, e).invoice = m.invoice
  BY <1>1 DEF Folded, Reached, CourseState, CourseModel, StudentModel, CoursePricing, SubscriptionState,
         SubscriptionModel, BillingState, BillingModel, InvoiceState, InvoiceModel, ModelsType
<1>4. Folded(m, e).keys = m.keys
  BY <1>1, NoKeys DEF Folded, ModelsType
<1> QED
  BY <1>2, <1>3, <1>4 DEF e, AfterRoom

AfterConfirmed(m, n, c, count) ==
  /\ n.readiness = [m.readiness EXCEPT ![c].status = "confirmed"]
  /\ n.course = m.course /\ n.student = m.student /\ n.pricing = m.pricing /\ n.subscription = m.subscription
  /\ n.billing = m.billing /\ n.invoice = m.invoice
  /\ n.keys = m.keys

LEMMA OnConfirmed ==
  ASSUME NEW m, ModelsType(m), NEW c \in Courses, NEW count
  PROVE  AfterConfirmed(m, Folded(m, CourseConfirmed(c, count)), c, count)
<1> DEFINE e == CourseConfirmed(c, count)
<1>1. /\ e.type = "CourseConfirmed"
      /\ \A k \in Courses : Tagged(e, "course_id", k) <=> k = c
      /\ \A k : ~ Tagged(e, "student_id", k) /\ ~ Tagged(e, "billing_id", k) /\ ~ Tagged(e, "invoice_id", k)
      /\ Keys(e) = EmptyBag
  BY DEF CourseConfirmed, Event, Tagged, Keys, KeyOf, OfCourse
<1> HIDE DEF e
<1>2. Folded(m, e).readiness = [m.readiness EXCEPT ![c].status = "confirmed"]
  BY <1>1 DEF Folded, Reached, ReadinessState, CourseReadiness, ModelsType
<1>3. /\ Folded(m, e).course = m.course /\ Folded(m, e).student = m.student /\ Folded(m, e).pricing = m.pricing
      /\ Folded(m, e).subscription = m.subscription /\ Folded(m, e).billing = m.billing
      /\ Folded(m, e).invoice = m.invoice
  BY <1>1 DEF Folded, Reached, CourseState, CourseModel, StudentModel, CoursePricing, SubscriptionState,
         SubscriptionModel, BillingState, BillingModel, InvoiceState, InvoiceModel, ModelsType
<1>4. Folded(m, e).keys = m.keys
  BY <1>1, NoKeys DEF Folded, ModelsType
<1> QED
  BY <1>2, <1>3, <1>4 DEF e, AfterConfirmed

AfterBilled(m, n, b, s, c, amount, at) ==
  /\ n.subscription = [m.subscription EXCEPT ![<<s, c>>].status = "billed", ![<<s, c>>].billingId = b]
  /\ n.billing = [m.billing EXCEPT ![b].amount = amount, ![b].startsAt = at]
  /\ n.course = m.course /\ n.student = m.student /\ n.pricing = m.pricing /\ n.readiness = m.readiness /\ n.invoice = m.invoice
  /\ n.keys \in [DOMAIN n.keys -> {1}] /\ DOMAIN n.keys = DOMAIN m.keys \cup {<<"BillingStarted", b>>}

LEMMA OnBilled ==
  ASSUME NEW m, ModelsType(m), NEW b \in Billings, NEW s \in Students, NEW c \in Courses, NEW amount, NEW at, ~ Known(m, "BillingStarted", b)
  PROVE  AfterBilled(m, Folded(m, BillingStarted(b, s, c, amount, at)), b, s, c, amount, at)
<1> DEFINE e == BillingStarted(b, s, c, amount, at)
<1>1. /\ e.type = "BillingStarted" /\ e.data.billing = b /\ e.data.amount = amount /\ e.data.startsAt = at
      /\ \A k \in Courses : Tagged(e, "course_id", k) <=> k = c
      /\ \A k \in Students : Tagged(e, "student_id", k) <=> k = s
      /\ \A k \in Billings : Tagged(e, "billing_id", k) <=> k = b
      /\ \A k : ~ Tagged(e, "invoice_id", k)
      /\ Keys(e) = SetToBag({<<"BillingStarted", b>>})
  <2>1. e.type \in DOMAIN KeyOf /\ e.tags[KeyOf[e.type]] = {b} /\ e.type = "BillingStarted"
    BY DEF BillingStarted, Event, KeyOf
  <2>2. {e.type} \X {b} = {<<"BillingStarted", b>>}
    BY <2>1
  <2>3. Keys(e) = SetToBag({<<"BillingStarted", b>>})
    BY <2>1, <2>2, Zenon DEF Keys
  <2> QED
    BY <2>3 DEF BillingStarted, Event, Tagged
<1> HIDE DEF e
<1>2. Folded(m, e).subscription = [m.subscription EXCEPT ![<<s, c>>].status = "billed", ![<<s, c>>].billingId = b]
  <2>1. Folded(m, e).subscription = [m.subscription EXCEPT ![<<s, c>>] = SubscriptionModel(m.subscription[<<s, c>>], e)]
    <3>1. \A x \in Seats : Tagged(e, "student_id", x[1]) /\ Tagged(e, "course_id", x[2]) <=> x = <<s, c>>
      BY <1>1, SeatIsPair
    <3> QED
      BY <3>1 DEF Folded, ModelsType, SubscriptionState
  <2> QED
    BY <2>1, <1>1 DEF SubscriptionModel
<1>3. Folded(m, e).billing = [m.billing EXCEPT ![b].amount = amount, ![b].startsAt = at]
  BY <1>1 DEF Folded, Reached, BillingState, BillingModel, ModelsType
<1>4. /\ Folded(m, e).course = m.course /\ Folded(m, e).student = m.student /\ Folded(m, e).pricing = m.pricing
      /\ Folded(m, e).readiness = m.readiness /\ Folded(m, e).invoice = m.invoice
  BY <1>1 DEF Folded, Reached, CourseState, CourseModel, StudentModel, CoursePricing, ReadinessState, CourseReadiness,
         InvoiceState, InvoiceModel, ModelsType
<1>5. /\ Folded(m, e).keys \in [DOMAIN Folded(m, e).keys -> {1}]
      /\ DOMAIN Folded(m, e).keys = DOMAIN m.keys \cup {<<"BillingStarted", b>>}
  BY <1>1, NewKey DEF Folded, ModelsType, Known, BagIn, BagToSet
<1> QED
  BY <1>2, <1>3, <1>4, <1>5 DEF e, AfterBilled

AfterIssued(m, n, b, i, amount, dueAt) ==
  /\ n.billing = [m.billing EXCEPT ![b].lastIssued = IF i > @ THEN i ELSE @]
  /\ n.invoice = [m.invoice EXCEPT ![<<b, i>>].issued = TRUE, ![<<b, i>>].amount = amount, ![<<b, i>>].dueAt = dueAt]
  /\ n.course = m.course /\ n.student = m.student /\ n.pricing = m.pricing /\ n.subscription = m.subscription
  /\ n.readiness = m.readiness
  /\ n.keys = m.keys

LEMMA OnIssued ==
  ASSUME NEW m, ModelsType(m), NEW b \in Billings, NEW i \in Nat, <<b, i>> \in Invoices, NEW amount, NEW dueAt
  PROVE  AfterIssued(m, Folded(m, InvoiceIssued(b, i, amount, dueAt)), b, i, amount, dueAt)
<1> DEFINE e == InvoiceIssued(b, i, amount, dueAt)
<1>1. /\ e.type = "InvoiceIssued" /\ e.data.n = i /\ e.data.amount = amount /\ e.data.dueAt = dueAt
      /\ \A k \in Billings : Tagged(e, "billing_id", k) <=> k = b
      /\ \A k \in Invoices : Tagged(e, "invoice_id", k) <=> k = <<b, i>>
      /\ \A k : ~ Tagged(e, "course_id", k) /\ ~ Tagged(e, "student_id", k)
      /\ Keys(e) = EmptyBag
  BY DEF InvoiceIssued, Event, Tagged, Keys, KeyOf, OfInvoice
<1> HIDE DEF e
<1>2. Folded(m, e).billing = [m.billing EXCEPT ![b].lastIssued = IF i > @ THEN i ELSE @]
  BY <1>1 DEF Folded, Reached, BillingState, BillingModel, ModelsType
<1>3. Folded(m, e).invoice = [m.invoice EXCEPT ![<<b, i>>].issued = TRUE, ![<<b, i>>].amount = amount, ![<<b, i>>].dueAt = dueAt]
  BY <1>1, InvoiceIsPair DEF Folded, Reached, InvoiceState, InvoiceModel, ModelsType
<1>4. /\ Folded(m, e).course = m.course /\ Folded(m, e).student = m.student /\ Folded(m, e).pricing = m.pricing
      /\ Folded(m, e).subscription = m.subscription /\ Folded(m, e).readiness = m.readiness
  BY <1>1 DEF Folded, Reached, CourseState, CourseModel, StudentModel, CoursePricing, SubscriptionState,
         SubscriptionModel, ReadinessState, CourseReadiness, ModelsType
<1>5. Folded(m, e).keys = m.keys
  BY <1>1, NoKeys DEF Folded, ModelsType
<1> QED
  BY <1>2, <1>3, <1>4, <1>5 DEF e, AfterIssued

AfterInvoicePaid(m, n, b, i, p) ==
  /\ n.invoice = [m.invoice EXCEPT ![<<b, i>>].paid = TRUE]
  /\ n.course = m.course /\ n.student = m.student /\ n.pricing = m.pricing /\ n.subscription = m.subscription
  /\ n.readiness = m.readiness /\ n.billing = m.billing
  /\ n.keys \in [DOMAIN n.keys -> {1}] /\ DOMAIN n.keys = DOMAIN m.keys \cup {<<"InvoicePaid", p>>}

LEMMA OnInvoicePaid ==
  ASSUME NEW m, ModelsType(m), NEW b \in Billings, NEW i, <<b, i>> \in Invoices, NEW p, ~ Known(m, "InvoicePaid", p)
  PROVE  AfterInvoicePaid(m, Folded(m, InvoicePaid(b, i, p)), b, i, p)
<1> DEFINE e == InvoicePaid(b, i, p)
<1>1. /\ e.type = "InvoicePaid"
      /\ \A k \in Billings : Tagged(e, "billing_id", k) <=> k = b
      /\ \A k \in Invoices : Tagged(e, "invoice_id", k) <=> k = <<b, i>>
      /\ \A k : ~ Tagged(e, "course_id", k) /\ ~ Tagged(e, "student_id", k)
      /\ Keys(e) = SetToBag({<<"InvoicePaid", p>>})
  <2>1. e.type \in DOMAIN KeyOf /\ e.tags[KeyOf[e.type]] = {p} /\ e.type = "InvoicePaid"
    BY DEF InvoicePaid, Event, KeyOf
  <2>2. {e.type} \X {p} = {<<"InvoicePaid", p>>}
    BY <2>1
  <2>3. Keys(e) = SetToBag({<<"InvoicePaid", p>>})
    BY <2>1, <2>2, Zenon DEF Keys
  <2> QED
    BY <2>3 DEF InvoicePaid, Event, Tagged
<1> HIDE DEF e
<1>2. Folded(m, e).invoice = [m.invoice EXCEPT ![<<b, i>>].paid = TRUE]
  BY <1>1, InvoiceIsPair DEF Folded, Reached, InvoiceState, InvoiceModel, ModelsType
<1>3. /\ Folded(m, e).course = m.course /\ Folded(m, e).student = m.student /\ Folded(m, e).pricing = m.pricing
      /\ Folded(m, e).subscription = m.subscription /\ Folded(m, e).readiness = m.readiness
      /\ Folded(m, e).billing = m.billing
  BY <1>1 DEF Folded, Reached, CourseState, CourseModel, StudentModel, CoursePricing, SubscriptionState,
         SubscriptionModel, ReadinessState, CourseReadiness, BillingState, BillingModel, ModelsType
<1>4. /\ Folded(m, e).keys \in [DOMAIN Folded(m, e).keys -> {1}]
      /\ DOMAIN Folded(m, e).keys = DOMAIN m.keys \cup {<<"InvoicePaid", p>>}
  BY <1>1, NewKey DEF Folded, ModelsType, Known, BagIn, BagToSet
<1> QED
  BY <1>2, <1>3, <1>4 DEF e, AfterInvoicePaid

AfterOverdue(m, n, b, i) ==
  /\ n.invoice = [m.invoice EXCEPT ![<<b, i>>].overdue = TRUE]
  /\ n.course = m.course /\ n.student = m.student /\ n.pricing = m.pricing /\ n.subscription = m.subscription
  /\ n.readiness = m.readiness /\ n.billing = m.billing
  /\ n.keys = m.keys

LEMMA OnOverdue ==
  ASSUME NEW m, ModelsType(m), NEW b \in Billings, NEW i, <<b, i>> \in Invoices
  PROVE  AfterOverdue(m, Folded(m, InvoiceOverdue(b, i)), b, i)
<1> DEFINE e == InvoiceOverdue(b, i)
<1>1. /\ e.type = "InvoiceOverdue"
      /\ \A k \in Billings : Tagged(e, "billing_id", k) <=> k = b
      /\ \A k \in Invoices : Tagged(e, "invoice_id", k) <=> k = <<b, i>>
      /\ \A k : ~ Tagged(e, "course_id", k) /\ ~ Tagged(e, "student_id", k)
      /\ Keys(e) = EmptyBag
  BY DEF InvoiceOverdue, Event, Tagged, Keys, KeyOf, OfInvoice
<1> HIDE DEF e
<1>2. Folded(m, e).invoice = [m.invoice EXCEPT ![<<b, i>>].overdue = TRUE]
  BY <1>1, InvoiceIsPair DEF Folded, Reached, InvoiceState, InvoiceModel, ModelsType
<1>3. /\ Folded(m, e).course = m.course /\ Folded(m, e).student = m.student /\ Folded(m, e).pricing = m.pricing
      /\ Folded(m, e).subscription = m.subscription /\ Folded(m, e).readiness = m.readiness
      /\ Folded(m, e).billing = m.billing
  BY <1>1 DEF Folded, Reached, CourseState, CourseModel, StudentModel, CoursePricing, SubscriptionState,
         SubscriptionModel, ReadinessState, CourseReadiness, BillingState, BillingModel, ModelsType
<1>4. Folded(m, e).keys = m.keys
  BY <1>1, NoKeys DEF Folded, ModelsType
<1> QED
  BY <1>2, <1>3, <1>4 DEF e, AfterOverdue

AfterStopped(m, n, b) ==
  /\ n.course = m.course /\ n.student = m.student /\ n.pricing = m.pricing /\ n.subscription = m.subscription
  /\ n.readiness = m.readiness /\ n.billing = m.billing /\ n.invoice = m.invoice
  /\ n.keys \in [DOMAIN n.keys -> {1}] /\ DOMAIN n.keys = DOMAIN m.keys \cup {<<"BillingStopped", b>>}

LEMMA OnStopped ==
  ASSUME NEW m, ModelsType(m), NEW b \in Billings, ~ Known(m, "BillingStopped", b)
  PROVE  AfterStopped(m, Folded(m, BillingStopped(b)), b)
<1> DEFINE e == BillingStopped(b)
<1>1. /\ e.type = "BillingStopped"
      /\ \A k \in Billings : Tagged(e, "billing_id", k) <=> k = b
      /\ \A k : ~ Tagged(e, "course_id", k) /\ ~ Tagged(e, "student_id", k) /\ ~ Tagged(e, "invoice_id", k)
      /\ Keys(e) = SetToBag({<<"BillingStopped", b>>})
  <2>1. e.type \in DOMAIN KeyOf /\ e.tags[KeyOf[e.type]] = {b} /\ e.type = "BillingStopped"
    BY DEF BillingStopped, Event, KeyOf
  <2>2. {e.type} \X {b} = {<<"BillingStopped", b>>}
    BY <2>1
  <2>3. Keys(e) = SetToBag({<<"BillingStopped", b>>})
    BY <2>1, <2>2, Zenon DEF Keys
  <2> QED
    BY <2>3 DEF BillingStopped, Event, Tagged
<1> HIDE DEF e
<1>2. /\ Folded(m, e).course = m.course /\ Folded(m, e).student = m.student /\ Folded(m, e).pricing = m.pricing
      /\ Folded(m, e).subscription = m.subscription /\ Folded(m, e).readiness = m.readiness
      /\ Folded(m, e).billing = m.billing /\ Folded(m, e).invoice = m.invoice
  BY <1>1 DEF Folded, Reached, CourseState, CourseModel, StudentModel, CoursePricing, SubscriptionState,
         SubscriptionModel, ReadinessState, CourseReadiness, BillingState, BillingModel, InvoiceState, InvoiceModel,
         ModelsType
<1>3. /\ Folded(m, e).keys \in [DOMAIN Folded(m, e).keys -> {1}]
      /\ DOMAIN Folded(m, e).keys = DOMAIN m.keys \cup {<<"BillingStopped", b>>}
  BY <1>1, NewKey DEF Folded, ModelsType, Known, BagIn, BagToSet
<1> QED
  BY <1>2, <1>3 DEF e, AfterStopped

-----------------------------------------------------------------------------
(* What is said of the models holds after each event, if the event may     *)
(* happen there.                                                           *)

(* The seats stand as they did, if the three models that look at them do. *)
LEMMA SeatsStand ==
  ASSUME NEW m, NEW n, SeatsInv(m), Held(n) = Held(m), n.course = m.course, n.student = m.student,
         \A c \in Courses : /\ n.readiness[c].status = "cancelled" <=> m.readiness[c].status = "cancelled"
                            /\ n.readiness[c].students = m.readiness[c].students
  PROVE  SeatsInv(n)
<1>1. \A c \in Courses : SeatsOf(n, c) = SeatsOf(m, c)
  BY DEF SeatsOf
<1> QED
  BY <1>1 DEF SeatsInv

(* The billings do, if nothing new is billed. *)
LEMMA BillingsStand ==
  ASSUME NEW m, NEW n, BillingInv(m),
         \A x \in Seats, b \in Billings : BilledBy(n.subscription[x], b) => BilledBy(m.subscription[x], b),
         \A b \in Billings : /\ n.billing[b].startsAt = m.billing[b].startsAt
                             /\ n.billing[b].startsAt = None => n.billing[b].lastIssued = m.billing[b].lastIssued
                             /\ Known(n, "BillingStarted", b) <=> Known(m, "BillingStarted", b)
  PROVE  BillingInv(n)
BY DEF BillingInv

LEMMA InvoicesStand == ASSUME NEW m, NEW n, InvoiceInv(m), n.invoice = m.invoice PROVE InvoiceInv(n)
BY DEF InvoiceInv

LEMMA KnownIsKey == \A m, type, id : Known(m, type, id) <=> <<type, id>> \in DOMAIN m.keys
BY DEF Known, BagIn, BagToSet

LEMMA KeepDefined ==
  ASSUME NEW m, NEW n, NEW c \in Courses, NEW capacity \in Capacities,
         ModelInv(m), AfterDefined(m, n, c, capacity), ~ m.course[c].exists
  PROVE  ModelInv(n)
<1>1. capacity \in Nat
  BY EnrolmentAssumption
<1>2. ModelsType(n)
  <2>1. n.course \in CourseState
    <3> DEFINE R == [exists : BOOLEAN, cancelled : BOOLEAN, capacity : Nat, subscribers : Int]
               r == [m.course[c] EXCEPT !.exists = TRUE, !.capacity = capacity]
    <3>1. m.course \in [Courses -> R]
      BY DEF ModelInv, ModelsType, CourseState
    <3>2. r \in R
      <4>1. m.course[c] \in R
        BY <3>1
      <4> QED
        BY <4>1, <1>1
    <3>3. n.course = [m.course EXCEPT ![c] = r]
      BY <3>1 DEF AfterDefined
    <3> HIDE DEF R, r
    <3> QED
      BY <3>1, <3>2, <3>3 DEF CourseState, R
  <2>2. \A k \in Courses : n.course[k].capacity \in Capacities \cup {0}
    BY DEF ModelInv, ModelsType, AfterDefined, CourseState
  <2> QED
    BY <2>1, <2>2 DEF ModelInv, ModelsType, AfterDefined
<1>3. SeatsInv(n)
  <2>1. \A k \in Courses : SeatsOf(n, k) = SeatsOf(m, k)
    BY DEF SeatsOf, Held, AfterDefined
  <2>2. Held(n) = Held(m)
    BY DEF Held, AfterDefined
  <2>3. \A k \in Courses : /\ n.course[k].cancelled = m.course[k].cancelled
                           /\ n.course[k].subscribers = m.course[k].subscribers
                           /\ k # c => n.course[k] = m.course[k]
    BY DEF AfterDefined, ModelInv, ModelsType, CourseState
  <2>4. n.course[c].exists /\ n.course[c].capacity = capacity
    BY DEF AfterDefined, ModelInv, ModelsType, CourseState
  <2>5. Cardinality(SeatsOf(m, c)) <= capacity
    <3>1. Cardinality(SeatsOf(m, c)) \in Nat /\ Cardinality(SeatsOf(m, c)) <= 0
      BY FS_CardinalityType DEF ModelInv, SeatsInv
    <3> QED
      BY <1>1, <3>1
  <2>6. n.student = m.student /\ n.readiness = m.readiness
    BY DEF AfterDefined
  <2>7. ASSUME NEW k \in Courses
        PROVE  /\ ~ n.course[k].exists => n.course[k].capacity = 0
               /\ Cardinality(SeatsOf(m, k)) <= n.course[k].capacity
    BY <2>3, <2>4, <2>5 DEF ModelInv, SeatsInv
  <2> QED
    BY <2>1, <2>2, <2>3, <2>6, <2>7 DEF ModelInv, SeatsInv
<1>4. BillingInv(n)
  BY BillingsStand, KnownIsKey DEF ModelInv, AfterDefined
<1> QED
  BY <1>2, <1>3, <1>4, InvoicesStand DEF ModelInv, AfterDefined

LEMMA KeepSubscribed ==
  ASSUME NEW m, NEW n, NEW s \in Students, NEW c \in Courses, NEW at \in Nat,
         ModelInv(m), AfterSubscribed(m, n, s, c, at),
         m.course[c].exists, ~ m.course[c].cancelled, c \notin m.student[s], m.course[c].subscribers < m.course[c].capacity
  PROVE  ModelInv(n)
<1>0. at + PAYMENT_WINDOW_DAYS \in Nat /\ <<s, c>> \in Seats
  BY EnrolmentAssumption DEF Seats
<1>1. ModelsType(n)
  <2>1. n.course \in CourseState
    BY DEF ModelInv, ModelsType, AfterSubscribed, CourseState
  <2>2. \A k \in Courses : n.course[k].capacity = m.course[k].capacity
    BY DEF ModelInv, ModelsType, AfterSubscribed, CourseState
  <2>3. n.student \in [Students -> SUBSET Courses]
    BY DEF ModelInv, ModelsType, AfterSubscribed
  <2>4. n.subscription \in SubscriptionState
    BY <1>0 DEF ModelInv, ModelsType, AfterSubscribed, SubscriptionState
  <2>5. n.readiness \in ReadinessState
    BY DEF ModelInv, ModelsType, AfterSubscribed, ReadinessState
  <2> QED
    BY <2>1, <2>2, <2>3, <2>4, <2>5 DEF ModelInv, ModelsType, AfterSubscribed
<1>2. /\ n.subscription[<<s, c>>].status = "subscribed"
      /\ \A x \in Seats : x # <<s, c>> => n.subscription[x] = m.subscription[x]
  BY <1>0 DEF ModelInv, ModelsType, SubscriptionState, AfterSubscribed
<1>3. Held(n) = Held(m) \cup {<<s, c>>} /\ <<s, c>> \notin Held(m)
  BY <1>0, <1>2 DEF Held, ModelInv, SeatsInv
<1>4. SeatsInv(n)
  <2>1. SeatsOf(n, c) = SeatsOf(m, c) \cup {<<s, c>>} /\ <<s, c>> \notin SeatsOf(m, c)
    BY <1>3 DEF SeatsOf
  <2>2. \A k \in Courses \ {c} : SeatsOf(n, k) = SeatsOf(m, k)
    BY <1>3 DEF SeatsOf
  <2>3. IsFiniteSet(SeatsOf(n, c)) /\ Cardinality(SeatsOf(n, c)) = Cardinality(SeatsOf(m, c)) + 1
    <3>1. IsFiniteSet(SeatsOf(m, c))
      BY DEF ModelInv, SeatsInv
    <3> HIDE DEF SeatsOf
    <3> QED
      BY <2>1, <3>1, FS_AddElement
  <2>4. /\ n.course[c] = [m.course[c] EXCEPT !.subscribers = @ + 1]
        /\ \A k \in Courses \ {c} : n.course[k] = m.course[k]
    BY DEF AfterSubscribed, ModelInv, ModelsType, CourseState
  <2>5. /\ n.readiness[c] = [m.readiness[c] EXCEPT !.students = @ \cup {s}]
        /\ \A k \in Courses \ {c} : n.readiness[k] = m.readiness[k]
    BY DEF AfterSubscribed, ModelInv, ModelsType, ReadinessState
  <2>6. \A t \in Students, k \in Courses : k \in n.student[t] <=> <<t, k>> \in Held(n)
    <3>1. \A t \in Students : n.student[t] = IF t = s THEN m.student[t] \cup {c} ELSE m.student[t]
      BY DEF AfterSubscribed, ModelInv, ModelsType
    <3>2. \A t \in Students, k \in Courses : k \in m.student[t] <=> <<t, k>> \in Held(m)
      BY DEF ModelInv, SeatsInv
    <3> HIDE DEF Held
    <3>3. \A t \in Students, k \in Courses : <<t, k>> \in Held(n) <=> (<<t, k>> \in Held(m) \/ (t = s /\ k = c))
      BY <1>3
    <3> QED
      BY <3>1, <3>2, <3>3
  <2>7. /\ n.course[c].subscribers = m.course[c].subscribers + 1 /\ n.course[c].capacity = m.course[c].capacity
        /\ n.course[c].cancelled = m.course[c].cancelled /\ n.course[c].exists = m.course[c].exists
        /\ m.course[c].subscribers \in Int /\ m.course[c].capacity \in Nat
    BY <2>4 DEF ModelInv, ModelsType, CourseState
  <2>8. n.readiness[c].status = m.readiness[c].status /\ n.readiness[c].students = m.readiness[c].students \cup {s}
    BY <2>5 DEF ModelInv, ModelsType, ReadinessState
  <2>9. \A k \in Courses \ {c} : \A t \in Students : <<t, k>> \in Held(n) <=> <<t, k>> \in Held(m)
    BY <1>3
  <2>10. \A t \in Students : t \in n.readiness[c].students <=> <<t, c>> \in Held(n)
    BY <2>8, <1>3 DEF ModelInv, SeatsInv
  <2>11. ASSUME NEW k \in Courses \ {c}
         PROVE  /\ n.course[k].cancelled <=> n.readiness[k].status = "cancelled"
                /\ ~ n.course[k].cancelled => \A t \in Students : t \in n.readiness[k].students <=> <<t, k>> \in Held(n)
                /\ n.course[k].cancelled => SeatsOf(n, k) = {}
                /\ ~ n.course[k].exists => n.course[k].capacity = 0
                /\ IsFiniteSet(SeatsOf(n, k))
                /\ n.course[k].subscribers = Cardinality(SeatsOf(n, k)) /\ Cardinality(SeatsOf(n, k)) <= n.course[k].capacity
    BY <2>2, <2>4, <2>5, <2>9 DEF ModelInv, SeatsInv
  <2>12. /\ n.course[c].subscribers = Cardinality(SeatsOf(n, c)) /\ Cardinality(SeatsOf(n, c)) <= n.course[c].capacity
    BY <2>3, <2>7 DEF ModelInv, SeatsInv
  <2>13. ~ n.course[c].cancelled /\ n.course[c].exists /\ n.readiness[c].status # "cancelled"
    BY <2>7, <2>8 DEF ModelInv, SeatsInv
  <2> QED
    BY <2>3, <2>6, <2>10, <2>11, <2>12, <2>13 DEF SeatsInv
<1>5. BillingInv(n)
  <2>1. \A x \in Seats, b \in Billings : BilledBy(n.subscription[x], b) => BilledBy(m.subscription[x], b)
    BY <1>2 DEF BilledBy
  <2> QED
    BY <2>1, BillingsStand, KnownIsKey DEF ModelInv, AfterSubscribed
<1> QED
  BY <1>1, <1>4, <1>5, InvoicesStand DEF ModelInv, AfterSubscribed

LEMMA KeepReleased ==
  ASSUME NEW m, NEW n, NEW s \in Students, NEW c \in Courses,
         ModelInv(m), AfterReleased(m, n, s, c), m.subscription[<<s, c>>].status \in {"subscribed", "billed"}
  PROVE  ModelInv(n)
<1>0. <<s, c>> \in Seats
  BY DEF Seats
<1>1. ModelsType(n)
  <2>1. n.course \in CourseState
    BY DEF ModelInv, ModelsType, AfterReleased, CourseState
  <2>2. \A k \in Courses : n.course[k].capacity = m.course[k].capacity
    BY DEF ModelInv, ModelsType, AfterReleased, CourseState
  <2>3. n.student \in [Students -> SUBSET Courses]
    BY DEF ModelInv, ModelsType, AfterReleased
  <2>4. n.subscription \in SubscriptionState
    BY <1>0 DEF ModelInv, ModelsType, AfterReleased, SubscriptionState
  <2>5. n.readiness \in ReadinessState
    BY DEF ModelInv, ModelsType, AfterReleased, ReadinessState
  <2> QED
    BY <2>1, <2>2, <2>3, <2>4, <2>5 DEF ModelInv, ModelsType, AfterReleased
<1>2. /\ n.subscription[<<s, c>>].status = "released"
      /\ \A x \in Seats : x # <<s, c>> => n.subscription[x] = m.subscription[x]
  BY <1>0 DEF ModelInv, ModelsType, SubscriptionState, AfterReleased
<1>3. Held(n) = Held(m) \ {<<s, c>>} /\ <<s, c>> \in Held(m)
  BY <1>0, <1>2 DEF Held
<1>4. SeatsInv(n)
  <2>1. SeatsOf(n, c) = SeatsOf(m, c) \ {<<s, c>>} /\ <<s, c>> \in SeatsOf(m, c)
    BY <1>3 DEF SeatsOf
  <2>2. \A k \in Courses \ {c} : SeatsOf(n, k) = SeatsOf(m, k)
    BY <1>3 DEF SeatsOf
  <2>3. /\ IsFiniteSet(SeatsOf(n, c)) /\ Cardinality(SeatsOf(n, c)) = Cardinality(SeatsOf(m, c)) - 1
        /\ Cardinality(SeatsOf(m, c)) \in Nat
    <3>1. IsFiniteSet(SeatsOf(m, c))
      BY DEF ModelInv, SeatsInv
    <3> HIDE DEF SeatsOf
    <3> QED
      BY <2>1, <3>1, FS_RemoveElement, FS_CardinalityType
  <2>4. /\ n.course[c] = [m.course[c] EXCEPT !.subscribers = @ - 1]
        /\ \A k \in Courses \ {c} : n.course[k] = m.course[k]
    BY DEF AfterReleased, ModelInv, ModelsType, CourseState
  <2>5. /\ n.readiness[c] = [m.readiness[c] EXCEPT !.students = @ \ {s}]
        /\ \A k \in Courses \ {c} : n.readiness[k] = m.readiness[k]
    BY DEF AfterReleased, ModelInv, ModelsType, ReadinessState
  <2>6. \A t \in Students, k \in Courses : k \in n.student[t] <=> <<t, k>> \in Held(n)
    <3>1. \A t \in Students : n.student[t] = IF t = s THEN m.student[t] \ {c} ELSE m.student[t]
      BY DEF AfterReleased, ModelInv, ModelsType
    <3>2. \A t \in Students, k \in Courses : k \in m.student[t] <=> <<t, k>> \in Held(m)
      BY DEF ModelInv, SeatsInv
    <3> HIDE DEF Held
    <3>3. \A t \in Students, k \in Courses : <<t, k>> \in Held(n) <=> (<<t, k>> \in Held(m) /\ ~ (t = s /\ k = c))
      BY <1>3
    <3> QED
      BY <3>1, <3>2, <3>3
  <2>7. /\ n.course[c].subscribers = m.course[c].subscribers - 1 /\ n.course[c].capacity = m.course[c].capacity
        /\ n.course[c].cancelled = m.course[c].cancelled /\ n.course[c].exists = m.course[c].exists
        /\ m.course[c].subscribers \in Int /\ m.course[c].capacity \in Nat
    BY <2>4 DEF ModelInv, ModelsType, CourseState
  <2>8. n.readiness[c].status = m.readiness[c].status /\ n.readiness[c].students = m.readiness[c].students \ {s}
    BY <2>5 DEF ModelInv, ModelsType, ReadinessState
  <2>9. \A k \in Courses \ {c} : \A t \in Students : <<t, k>> \in Held(n) <=> <<t, k>> \in Held(m)
    BY <1>3
  <2>10. ~ m.course[c].cancelled
    BY <2>1 DEF ModelInv, SeatsInv
  <2>11. \A t \in Students : t \in n.readiness[c].students <=> <<t, c>> \in Held(n)
    BY <2>8, <2>10, <1>3 DEF ModelInv, SeatsInv
  <2>12. ASSUME NEW k \in Courses \ {c}
         PROVE  /\ n.course[k].cancelled <=> n.readiness[k].status = "cancelled"
                /\ ~ n.course[k].cancelled => \A t \in Students : t \in n.readiness[k].students <=> <<t, k>> \in Held(n)
                /\ n.course[k].cancelled => SeatsOf(n, k) = {}
                /\ ~ n.course[k].exists => n.course[k].capacity = 0
                /\ IsFiniteSet(SeatsOf(n, k))
                /\ n.course[k].subscribers = Cardinality(SeatsOf(n, k)) /\ Cardinality(SeatsOf(n, k)) <= n.course[k].capacity
    BY <2>2, <2>4, <2>5, <2>9 DEF ModelInv, SeatsInv
  <2>13. /\ n.course[c].subscribers = Cardinality(SeatsOf(n, c)) /\ Cardinality(SeatsOf(n, c)) <= n.course[c].capacity
    BY <2>3, <2>7 DEF ModelInv, SeatsInv
  <2>14. /\ ~ n.course[c].cancelled /\ n.readiness[c].status # "cancelled"
         /\ ~ n.course[c].exists => n.course[c].capacity = 0
    BY <2>7, <2>8, <2>10 DEF ModelInv, SeatsInv
  <2> QED
    BY <2>3, <2>6, <2>11, <2>12, <2>13, <2>14 DEF SeatsInv
<1>5. BillingInv(n)
  <2>1. \A x \in Seats, b \in Billings : BilledBy(n.subscription[x], b) => BilledBy(m.subscription[x], b)
    BY <1>2 DEF BilledBy
  <2> QED
    BY <2>1, BillingsStand, KnownIsKey DEF ModelInv, AfterReleased
<1> QED
  BY <1>1, <1>4, <1>5, InvoicesStand DEF ModelInv, AfterReleased

LEMMA KeepCancelled ==
  ASSUME NEW m, NEW n, NEW c \in Courses, ModelInv(m), AfterCancelled(m, n, c, m.readiness[c].students),
         m.readiness[c].status = "waiting"
  PROVE  ModelInv(n)
<1> DEFINE gone == m.readiness[c].students
<1>0. gone \in SUBSET Students /\ \A t \in Students : t \in gone <=> <<t, c>> \in Held(m)
  BY DEF ModelInv, ModelsType, ReadinessState, SeatsInv
<1>a. AfterCancelled(m, n, c, gone)
  OBVIOUS
<1> HIDE DEF gone
<1>1. ModelsType(n)
  <2>1. n.course \in CourseState
    <3> DEFINE R == [exists : BOOLEAN, cancelled : BOOLEAN, capacity : Nat, subscribers : Int]
               r == [m.course[c] EXCEPT !.cancelled = TRUE, !.subscribers = 0]
    <3>1. m.course \in [Courses -> R]
      BY DEF ModelInv, ModelsType, CourseState
    <3>2. r \in R
      <4> DEFINE v == [m.course[c] EXCEPT !.cancelled = TRUE]
      <4>1. m.course[c] \in R
        BY <3>1
      <4>2. v \in R
        BY <4>1
      <4> HIDE DEF v
      <4>3. [v EXCEPT !.subscribers = 0] \in R
        BY <4>2
      <4> QED
        BY <4>3, Zenon DEF v
    <3>3. n.course = [m.course EXCEPT ![c] = r]
      BY <1>a, <3>1 DEF AfterCancelled
    <3> HIDE DEF R, r
    <3> QED
      BY <1>a, <3>1, <3>2, <3>3 DEF CourseState, R
  <2>2. \A k \in Courses : n.course[k].capacity = m.course[k].capacity
    BY <1>a DEF ModelInv, ModelsType, AfterCancelled, CourseState
  <2>3. n.student \in [Students -> SUBSET Courses]
    BY <1>a DEF ModelInv, ModelsType, AfterCancelled
  <2>4. n.subscription \in SubscriptionState
    <3> DEFINE R == [status : {"none", "subscribed", "billed", "paid", "released"},
                        windowClosesAt : Nat, billingId : Billings \cup {None}]
    <3>1. m.subscription \in [Seats -> R]
      BY DEF ModelInv, ModelsType, SubscriptionState
    <3>2. \A x \in Seats : [m.subscription[x] EXCEPT !.status = "released"] \in R
      BY <3>1
    <3> HIDE DEF R
    <3> QED
      BY <1>a, <3>1, <3>2 DEF AfterCancelled, SubscriptionState, R
  <2>5. n.readiness \in ReadinessState
    BY <1>a DEF ModelInv, ModelsType, AfterCancelled, ReadinessState
  <2> QED
    BY <1>a, <2>1, <2>2, <2>3, <2>4, <2>5 DEF ModelInv, ModelsType, AfterCancelled
<1>2. \A x \in Seats : /\ x[1] \in gone /\ x[2] = c => n.subscription[x].status = "released"
                       /\ ~ (x[1] \in gone /\ x[2] = c) => n.subscription[x] = m.subscription[x]
  BY <1>a DEF ModelInv, ModelsType, SubscriptionState, AfterCancelled
<1>3. Held(n) = {x \in Held(m) : x[2] # c}
  <2>1. \A x \in Seats : x[2] = c => (x \in Held(m) <=> x[1] \in gone)
    BY <1>0, SeatIsPair
  <2>2. Held(n) \subseteq Seats /\ Held(m) \subseteq Seats
    BY DEF Held
  <2>3. \A x \in Seats : x[1] \in gone /\ x[2] = c => x \notin Held(n)
    BY <1>2 DEF Held
  <2>4. \A x \in Seats : ~ (x[1] \in gone /\ x[2] = c) => (x \in Held(n) <=> x \in Held(m))
    BY <1>2 DEF Held
  <2> QED
    BY <2>1, <2>2, <2>3, <2>4
<1>4. SeatsInv(n)
  <2>1. SeatsOf(n, c) = {}
    BY <1>3 DEF SeatsOf
  <2>2. \A k \in Courses \ {c} : SeatsOf(n, k) = SeatsOf(m, k)
    BY <1>3 DEF SeatsOf
  <2>3. IsFiniteSet(SeatsOf(n, c)) /\ Cardinality(SeatsOf(n, c)) = 0
    BY <2>1, FS_EmptySet
  <2>4. \A k \in Courses \ {c} : n.course[k] = m.course[k]
    BY <1>a DEF AfterCancelled, ModelInv, ModelsType, CourseState
  <2>5. /\ n.course[c].subscribers = 0 /\ n.course[c].capacity = m.course[c].capacity /\ n.course[c].cancelled
        /\ n.course[c].exists = m.course[c].exists /\ m.course[c].capacity \in Nat
    BY <1>a DEF AfterCancelled, ModelInv, ModelsType, CourseState
  <2>6. n.readiness[c].status = "cancelled" /\ \A k \in Courses \ {c} : n.readiness[k] = m.readiness[k]
    BY <1>a DEF AfterCancelled, ModelInv, ModelsType, ReadinessState
  <2>7. \A t \in Students, k \in Courses : k \in n.student[t] <=> <<t, k>> \in Held(n)
    <3>1. \A t \in Students : n.student[t] = IF t \in gone THEN m.student[t] \ {c} ELSE m.student[t]
      BY <1>a DEF AfterCancelled, ModelInv, ModelsType
    <3>2. \A t \in Students, k \in Courses : k \in m.student[t] <=> <<t, k>> \in Held(m)
      BY DEF ModelInv, SeatsInv
    <3> HIDE DEF Held
    <3>3. \A t \in Students, k \in Courses : <<t, k>> \in Held(n) <=> (<<t, k>> \in Held(m) /\ k # c)
      BY <1>3
    <3> QED
      BY <3>1, <3>2, <3>3, <1>0
  <2>8. \A k \in Courses \ {c} : \A t \in Students : <<t, k>> \in Held(n) <=> <<t, k>> \in Held(m)
    BY <1>3
  <2>9. ASSUME NEW k \in Courses \ {c}
        PROVE  /\ n.course[k].cancelled <=> n.readiness[k].status = "cancelled"
               /\ ~ n.course[k].cancelled => \A t \in Students : t \in n.readiness[k].students <=> <<t, k>> \in Held(n)
               /\ n.course[k].cancelled => SeatsOf(n, k) = {}
               /\ ~ n.course[k].exists => n.course[k].capacity = 0
               /\ IsFiniteSet(SeatsOf(n, k))
               /\ n.course[k].subscribers = Cardinality(SeatsOf(n, k)) /\ Cardinality(SeatsOf(n, k)) <= n.course[k].capacity
    BY <2>2, <2>4, <2>6, <2>8 DEF ModelInv, SeatsInv
  <2>10. ~ n.course[c].exists => n.course[c].capacity = 0
    BY <2>5 DEF ModelInv, SeatsInv
  <2> QED
    BY <2>1, <2>3, <2>5, <2>6, <2>7, <2>9, <2>10 DEF SeatsInv
<1>5. BillingInv(n)
  <2>1. \A x \in Seats, b \in Billings : BilledBy(n.subscription[x], b) => BilledBy(m.subscription[x], b)
    BY <1>2 DEF BilledBy
  <2> QED
    BY <1>a, <2>1, BillingsStand, KnownIsKey DEF ModelInv, AfterCancelled
<1> QED
  BY <1>1, <1>4, <1>5, <1>a, InvoicesStand DEF ModelInv, AfterCancelled

LEMMA KeepPriced ==
  ASSUME NEW m, NEW n, NEW c \in Courses, NEW price \in Prices, ModelInv(m), AfterPriced(m, n, c, price)
  PROVE  ModelInv(n)
<1>1. ModelsType(n)
  <2>1. n.pricing \in [Courses -> Prices \cup {None}]
    BY DEF ModelInv, ModelsType, AfterPriced
  <2> QED
    BY <2>1 DEF ModelInv, ModelsType, AfterPriced
<1>2. SeatsInv(n)
  BY SeatsStand DEF ModelInv, AfterPriced, Held
<1>3. BillingInv(n)
  BY BillingsStand, KnownIsKey DEF ModelInv, AfterPriced
<1> QED
  BY <1>1, <1>2, <1>3, InvoicesStand DEF ModelInv, AfterPriced

LEMMA KeepPaid ==
  ASSUME NEW m, NEW n, NEW s \in Students, NEW c \in Courses, NEW p, NEW amount,
         ModelInv(m), AfterPaid(m, n, s, c, p, amount), m.subscription[<<s, c>>].status = "subscribed"
  PROVE  ModelInv(n)
<1>0. <<s, c>> \in Seats
  BY DEF Seats
<1>1. ModelsType(n)
  <2>1. n.subscription \in SubscriptionState
    BY <1>0 DEF ModelInv, ModelsType, AfterPaid, SubscriptionState
  <2> QED
    BY <2>1 DEF ModelInv, ModelsType, AfterPaid
<1>2. /\ n.subscription[<<s, c>>].status = "paid"
      /\ \A x \in Seats : x # <<s, c>> => n.subscription[x] = m.subscription[x]
  BY <1>0 DEF ModelInv, ModelsType, SubscriptionState, AfterPaid
<1>3. SeatsInv(n)
  <2>1. Held(n) = Held(m)
    BY <1>0, <1>2 DEF Held
  <2> QED
    BY <2>1, SeatsStand DEF ModelInv, AfterPaid
<1>4. BillingInv(n)
  <2>1. \A x \in Seats, b \in Billings : BilledBy(n.subscription[x], b) => BilledBy(m.subscription[x], b)
    BY <1>2 DEF BilledBy
  <2>2. \A b \in Billings : Known(n, "BillingStarted", b) <=> Known(m, "BillingStarted", b)
    BY KnownIsKey DEF AfterPaid
  <2> QED
    BY <2>1, <2>2, BillingsStand DEF ModelInv, AfterPaid
<1> QED
  BY <1>1, <1>3, <1>4, InvoicesStand DEF ModelInv, AfterPaid

LEMMA KeepReceipt ==
  ASSUME NEW m, NEW n, NEW p, ModelInv(m), AfterReceipt(m, n, p)
  PROVE  ModelInv(n)
<1>1. ModelsType(n)
  BY DEF ModelInv, ModelsType, AfterReceipt
<1>2. SeatsInv(n)
  BY SeatsStand DEF ModelInv, AfterReceipt, Held
<1>3. BillingInv(n)
  <2>1. \A b \in Billings : Known(n, "BillingStarted", b) <=> Known(m, "BillingStarted", b)
    BY KnownIsKey DEF AfterReceipt
  <2> QED
    BY <2>1, BillingsStand DEF ModelInv, AfterReceipt
<1> QED
  BY <1>1, <1>2, <1>3, InvoicesStand DEF ModelInv, AfterReceipt

(* A course's readiness, of which only the end concerns its seats. *)
LEMMA KeepReadiness ==
  ASSUME NEW m, NEW n, NEW c \in Courses, ModelInv(m),
         \/ AfterTeacher(m, n, c) \/ AfterRoom(m, n, c)
         \/ \E count : AfterConfirmed(m, n, c, count) /\ m.readiness[c].status = "waiting"
  PROVE  ModelInv(n)
<1>1. /\ n.course = m.course /\ n.student = m.student /\ n.pricing = m.pricing /\ n.subscription = m.subscription
      /\ n.billing = m.billing /\ n.invoice = m.invoice /\ n.keys = m.keys
  BY DEF AfterTeacher, AfterRoom, AfterConfirmed
<1>2. n.readiness \in ReadinessState
  <2>1. CASE AfterTeacher(m, n, c)
    <3> DEFINE R == [teacher : BOOLEAN, room : BOOLEAN, students : SUBSET Students, status : {"waiting", "confirmed", "cancelled"}]
               r == [m.readiness[c] EXCEPT !.teacher = TRUE]
    <3>1. m.readiness \in [Courses -> R]
      BY DEF ModelInv, ModelsType, ReadinessState
    <3>2. r \in R
      <4>1. m.readiness[c] \in R
        BY <2>1, <3>1
      <4> QED
        BY <4>1, <2>1
    <3>3. n.readiness = [m.readiness EXCEPT ![c] = r]
      BY <2>1, <3>1 DEF AfterTeacher
    <3> HIDE DEF R, r
    <3> QED
      BY <2>1, <3>1, <3>2, <3>3 DEF ReadinessState, R
  <2>2. CASE AfterRoom(m, n, c)
    <3> DEFINE R == [teacher : BOOLEAN, room : BOOLEAN, students : SUBSET Students, status : {"waiting", "confirmed", "cancelled"}]
               r == [m.readiness[c] EXCEPT !.room = TRUE]
    <3>1. m.readiness \in [Courses -> R]
      BY DEF ModelInv, ModelsType, ReadinessState
    <3>2. r \in R
      <4>1. m.readiness[c] \in R
        BY <2>2, <3>1
      <4> QED
        BY <4>1, <2>2
    <3>3. n.readiness = [m.readiness EXCEPT ![c] = r]
      BY <2>2, <3>1 DEF AfterRoom
    <3> HIDE DEF R, r
    <3> QED
      BY <2>2, <3>1, <3>2, <3>3 DEF ReadinessState, R
  <2>3. CASE \E count : AfterConfirmed(m, n, c, count)
    BY <2>3 DEF ModelInv, ModelsType, AfterConfirmed, ReadinessState
  <2> QED
    BY <2>1, <2>2, <2>3
<1>3. \A k \in Courses : /\ n.readiness[k].status = "cancelled" <=> m.readiness[k].status = "cancelled"
                         /\ n.readiness[k].students = m.readiness[k].students
  BY DEF ModelInv, ModelsType, AfterTeacher, AfterRoom, AfterConfirmed, ReadinessState
<1>4. SeatsInv(n)
  BY <1>1, <1>3, SeatsStand DEF ModelInv, Held
<1>5. BillingInv(n)
  BY <1>1, BillingsStand, KnownIsKey DEF ModelInv
<1> QED
  BY <1>1, <1>2, <1>4, <1>5, InvoicesStand DEF ModelInv, ModelsType

LEMMA KeepBilled ==
  ASSUME NEW m, NEW n, NEW b \in Billings, NEW s \in Students, NEW c \in Courses, NEW amount \in Prices, NEW at \in Nat,
         ModelInv(m), AfterBilled(m, n, b, s, c, amount, at),
         ~ Known(m, "BillingStarted", b), m.subscription[<<s, c>>].status = "subscribed"
  PROVE  ModelInv(n)
<1>0. <<s, c>> \in Seats /\ at # None
  BY EnrolmentAssumption DEF Seats
<1>1. ModelsType(n)
  <2>1. n.subscription \in SubscriptionState
    <3> DEFINE R == [status : {"none", "subscribed", "billed", "paid", "released"},
                          windowClosesAt : Nat, billingId : Billings \cup {None}]
               r == [m.subscription[<<s, c>>] EXCEPT !.status = "billed", !.billingId = b]
    <3>1. m.subscription \in [Seats -> R]
      BY DEF ModelInv, ModelsType, SubscriptionState
    <3>2. r \in R
      <4>1. m.subscription[<<s, c>>] \in R
        BY <1>0, <3>1
      <4> QED
        BY <4>1, <1>0
    <3>3. n.subscription = [m.subscription EXCEPT ![<<s, c>>] = r]
      BY <1>0, <3>1 DEF AfterBilled
    <3> HIDE DEF R, r
    <3> QED
      BY <1>0, <3>1, <3>2, <3>3 DEF SubscriptionState, R
  <2>2. n.billing \in BillingState
    BY DEF ModelInv, ModelsType, AfterBilled, BillingState
  <2> QED
    BY <2>1, <2>2 DEF ModelInv, ModelsType, AfterBilled
<1>2. /\ n.subscription[<<s, c>>].status = "billed" /\ n.subscription[<<s, c>>].billingId = b
      /\ \A x \in Seats : x # <<s, c>> => n.subscription[x] = m.subscription[x]
  BY <1>0 DEF ModelInv, ModelsType, SubscriptionState, AfterBilled
<1>3. SeatsInv(n)
  <2>1. Held(n) = Held(m)
    BY <1>0, <1>2 DEF Held
  <2> QED
    BY <2>1, SeatsStand DEF ModelInv, AfterBilled
<1>4. BillingInv(n)
  <2>1. \A k \in Billings : Known(n, "BillingStarted", k) <=> Known(m, "BillingStarted", k) \/ k = b
    BY KnownIsKey DEF AfterBilled
  <2>2. n.billing[b].startsAt = at /\ \A k \in Billings \ {b} : n.billing[k] = m.billing[k]
    BY DEF AfterBilled, ModelInv, ModelsType, BillingState
  <2>3. \A x \in Seats : ~ BilledBy(m.subscription[x], b)
    BY DEF ModelInv, BillingInv
  <2>4. \A x \in Seats, k \in Billings :
          BilledBy(n.subscription[x], k) => (x = <<s, c>> /\ k = b) \/ (x # <<s, c>> /\ k # b /\ BilledBy(m.subscription[x], k))
    BY <1>2, <2>3 DEF BilledBy
  <2> QED
    BY <1>0, <2>1, <2>2, <2>4 DEF ModelInv, BillingInv
<1> QED
  BY <1>1, <1>3, <1>4, InvoicesStand DEF ModelInv, AfterBilled

LEMMA KeepIssued ==
  ASSUME NEW m, NEW n, NEW b \in Billings, NEW i \in Nat, <<b, i>> \in Invoices, NEW amount \in Prices \cup {0}, NEW dueAt \in Nat,
         ModelInv(m), AfterIssued(m, n, b, i, amount, dueAt), m.billing[b].startsAt # None
  PROVE  ModelInv(n)
<1>1. ModelsType(n)
  <2>1. n.billing \in BillingState
    BY DEF ModelInv, ModelsType, AfterIssued, BillingState
  <2>2. n.invoice \in InvoiceState
    <3> DEFINE R == [issued : BOOLEAN, amount : Prices \cup {0}, dueAt : Nat, paid : BOOLEAN, overdue : BOOLEAN]
               r == [m.invoice[<<b, i>>] EXCEPT !.issued = TRUE, !.amount = amount, !.dueAt = dueAt]
    <3>1. m.invoice \in [Invoices -> R]
      BY DEF ModelInv, ModelsType, InvoiceState
    <3>2. r \in R
      <4>1. m.invoice[<<b, i>>] \in R
        BY <3>1
      <4> QED
        BY <4>1
    <3>3. n.invoice = [m.invoice EXCEPT ![<<b, i>>] = r]
      BY <3>1 DEF AfterIssued
    <3> HIDE DEF R, r
    <3> QED
      BY <3>1, <3>2, <3>3 DEF InvoiceState, R
  <2> QED
    BY <2>1, <2>2 DEF ModelInv, ModelsType, AfterIssued
<1>2. SeatsInv(n)
  BY SeatsStand DEF ModelInv, AfterIssued, Held
<1>3. BillingInv(n)
  <2>1. \A k \in Billings : /\ n.billing[k].startsAt = m.billing[k].startsAt
                            /\ k # b => n.billing[k] = m.billing[k]
    BY DEF ModelInv, ModelsType, AfterIssued, BillingState
  <2>2. n.subscription = m.subscription /\ n.keys = m.keys
    BY DEF AfterIssued
  <2>3. \A k \in Billings : Known(n, "BillingStarted", k) <=> Known(m, "BillingStarted", k)
    BY <2>2, KnownIsKey
  <2> QED
    BY <2>1, <2>2, <2>3, BillingsStand DEF ModelInv
<1>4. InvoiceInv(n)
  BY DEF ModelInv, ModelsType, AfterIssued, InvoiceState, InvoiceInv
<1> QED
  BY <1>1, <1>2, <1>3, <1>4 DEF ModelInv

(* An invoice is paid, or it is overdue. *)
LEMMA KeepInvoice ==
  ASSUME NEW m, NEW n, NEW b \in Billings, NEW i, <<b, i>> \in Invoices, ModelInv(m),
         \/ \E p : AfterInvoicePaid(m, n, b, i, p) /\ ~ m.invoice[<<b, i>>].overdue
         \/ AfterOverdue(m, n, b, i) /\ ~ m.invoice[<<b, i>>].paid
  PROVE  ModelInv(n)
<1>1. /\ n.course = m.course /\ n.student = m.student /\ n.pricing = m.pricing /\ n.subscription = m.subscription
      /\ n.readiness = m.readiness /\ n.billing = m.billing /\ n.keys \in [DOMAIN n.keys -> {1}]
  BY DEF AfterInvoicePaid, AfterOverdue, ModelInv, ModelsType
<1>2. n.invoice \in InvoiceState
  <2>1. CASE \E p : AfterInvoicePaid(m, n, b, i, p)
    <3> DEFINE R == [issued : BOOLEAN, amount : Prices \cup {0}, dueAt : Nat, paid : BOOLEAN, overdue : BOOLEAN]
               r == [m.invoice[<<b, i>>] EXCEPT !.paid = TRUE]
    <3>1. m.invoice \in [Invoices -> R]
      BY DEF ModelInv, ModelsType, InvoiceState
    <3>2. r \in R
      <4>1. m.invoice[<<b, i>>] \in R
        BY <2>1, <3>1
      <4> QED
        BY <4>1, <2>1
    <3>3. n.invoice = [m.invoice EXCEPT ![<<b, i>>] = r]
      BY <2>1, <3>1 DEF AfterInvoicePaid
    <3> HIDE DEF R, r
    <3> QED
      BY <2>1, <3>1, <3>2, <3>3 DEF InvoiceState, R
  <2>2. CASE AfterOverdue(m, n, b, i)
    <3> DEFINE R == [issued : BOOLEAN, amount : Prices \cup {0}, dueAt : Nat, paid : BOOLEAN, overdue : BOOLEAN]
               r == [m.invoice[<<b, i>>] EXCEPT !.overdue = TRUE]
    <3>1. m.invoice \in [Invoices -> R]
      BY DEF ModelInv, ModelsType, InvoiceState
    <3>2. r \in R
      <4>1. m.invoice[<<b, i>>] \in R
        BY <2>2, <3>1
      <4> QED
        BY <4>1, <2>2
    <3>3. n.invoice = [m.invoice EXCEPT ![<<b, i>>] = r]
      BY <2>2, <3>1 DEF AfterOverdue
    <3> HIDE DEF R, r
    <3> QED
      BY <2>2, <3>1, <3>2, <3>3 DEF InvoiceState, R
  <2> QED
    BY <2>1, <2>2
<1>3. InvoiceInv(n)
  <2>1. CASE \E p : AfterInvoicePaid(m, n, b, i, p) /\ ~ m.invoice[<<b, i>>].overdue
    BY <2>1 DEF ModelInv, ModelsType, AfterInvoicePaid, InvoiceState, InvoiceInv
  <2>2. CASE AfterOverdue(m, n, b, i) /\ ~ m.invoice[<<b, i>>].paid
    BY <2>2 DEF ModelInv, ModelsType, AfterOverdue, InvoiceState, InvoiceInv
  <2> QED
    BY <2>1, <2>2
<1>4. SeatsInv(n)
  BY <1>1, SeatsStand DEF ModelInv, Held
<1>5. BillingInv(n)
  <2>1. \A k \in Billings : Known(n, "BillingStarted", k) <=> Known(m, "BillingStarted", k)
    <3>1. CASE \E p : AfterInvoicePaid(m, n, b, i, p)
      BY <3>1, KnownIsKey DEF AfterInvoicePaid
    <3>2. CASE AfterOverdue(m, n, b, i)
      BY <3>2, KnownIsKey DEF AfterOverdue
    <3> QED
      BY <3>1, <3>2
  <2> QED
    BY <1>1, <2>1, BillingsStand DEF ModelInv
<1> QED
  BY <1>1, <1>2, <1>3, <1>4, <1>5 DEF ModelInv, ModelsType

LEMMA KeepStopped ==
  ASSUME NEW m, NEW n, NEW b \in Billings, ModelInv(m), AfterStopped(m, n, b)
  PROVE  ModelInv(n)
<1>1. ModelsType(n)
  BY DEF ModelInv, ModelsType, AfterStopped
<1>2. SeatsInv(n)
  BY SeatsStand DEF ModelInv, AfterStopped, Held
<1>3. BillingInv(n)
  <2>1. \A k \in Billings : Known(n, "BillingStarted", k) <=> Known(m, "BillingStarted", k)
    BY KnownIsKey DEF AfterStopped
  <2> QED
    BY <2>1, BillingsStand DEF ModelInv, AfterStopped
<1> QED
  BY <1>1, <1>2, <1>3, InvoicesStand DEF ModelInv, AfterStopped

-----------------------------------------------------------------------------
(* What an event leaves waiting.  Most events make nothing wait that did   *)
(* not before.                                                             *)
Bounded(m) == \A b \in Billings : m.billing[b].lastIssued < MaxInvoices

Stands(m, n) ==
  /\ \A c \in Courses : n.course[c].exists /\ n.readiness[c].status = "waiting" =>
                          m.course[c].exists /\ m.readiness[c].status = "waiting"
  /\ \A x \in Seats :
       /\ n.subscription[x].status = "subscribed" =>
            m.subscription[x].status = "subscribed" /\ n.subscription[x].windowClosesAt = m.subscription[x].windowClosesAt
       /\ \A b \in Billings : BilledBy(n.subscription[x], b) => BilledBy(m.subscription[x], b)
  /\ \A b \in Billings : n.billing[b] = m.billing[b]
  /\ \A i \in Invoices : (m.invoice[i].paid => n.invoice[i].paid) /\ n.invoice[i].dueAt = m.invoice[i].dueAt

LEMMA StandsStill == ASSUME NEW m PROVE Stands(m, m)
BY DEF Stands

LEMMA StandsOn == ASSUME NEW m, NEW n, NEW o, Stands(m, n), Stands(n, o) PROVE Stands(m, o)
BY DEF Stands

LEMMA InvoiceIn ==
  ASSUME NEW m, ModelsType(m), Bounded(m), NEW b \in Billings, NEW i \in 1 .. m.billing[b].lastIssued
  PROVE  <<b, i>> \in Invoices /\ i \in Nat
<1>1. m.billing[b].lastIssued \in Nat /\ m.billing[b].lastIssued < MaxInvoices /\ MaxInvoices \in Nat
  BY EnrolmentAssumption DEF ModelsType, BillingState, Bounded
<1> QED
  BY <1>1 DEF Invoices

LEMMA WaitsWider == ASSUME NEW m, NEW D, NEW E, WaitsIn(m, D), D \subseteq E PROVE WaitsIn(m, E)
<1>1. \A command, input : Has(D, command, input) => Has(E, command, input)
  BY DEF Has
<1>2. \A command, input, at : HasDue(D, command, input, at) => HasDue(E, command, input, at)
  BY DEF HasDue
<1> QED
  BY <1>1, <1>2 DEF WaitsIn, CoursesWait, SeatsWait, InvoicesWait

LEMMA WaitsStand ==
  ASSUME NEW m, NEW n, NEW D, ModelsType(m), Bounded(m), Stands(m, n), WaitsIn(m, D) PROVE WaitsIn(n, D)
<1>1. CoursesWait(n, D) /\ SeatsWait(n, D)
  BY DEF WaitsIn, CoursesWait, SeatsWait, Stands
<1>2. ASSUME NEW x \in Seats, NEW b \in Billings, BilledBy(n.subscription[x], b)
      PROVE  /\ HasDue(D, "issue_invoice", <<b, x[1], x[2], n.billing[b].lastIssued + 1>>,
                       IssueDateOf(n.billing[b].startsAt, n.billing[b].lastIssued + 1))
             /\ \A i \in 1 .. n.billing[b].lastIssued :
                  \/ n.invoice[<<b, i>>].paid
                  \/ HasDue(D, "release_overdue_invoice", <<b, x[1], x[2], i>>, n.invoice[<<b, i>>].dueAt)
  <2>1. BilledBy(m.subscription[x], b) /\ n.billing[b] = m.billing[b]
    BY <1>2 DEF Stands
  <2>2. \A i \in 1 .. m.billing[b].lastIssued :
          (m.invoice[<<b, i>>].paid => n.invoice[<<b, i>>].paid) /\ n.invoice[<<b, i>>].dueAt = m.invoice[<<b, i>>].dueAt
    BY InvoiceIn DEF Stands
  <2> QED
    BY <2>1, <2>2 DEF WaitsIn, InvoicesWait
<1> QED
  BY <1>1, <1>2 DEF WaitsIn, InvoicesWait

LEMMA StandsDefinitely ==
  ASSUME NEW m, NEW n, NEW d, IsDeadline(m, d), ModelsType(m), Bounded(m), Stands(m, n)
  PROVE  IsDeadline(n, d)
<1>1. ASSUME d.input \in Billings \X Students \X Courses \X (Nat \ {0}), d.input[4] <= m.billing[d.input[1]].lastIssued
      PROVE  n.invoice[<<d.input[1], d.input[4]>>].dueAt = m.invoice[<<d.input[1], d.input[4]>>].dueAt
  <2>1. m.billing[d.input[1]].lastIssued \in Nat
    BY <1>1 DEF ModelsType, BillingState
  <2>2. d.input[4] \in 1 .. m.billing[d.input[1]].lastIssued
    BY <1>1, <2>1
  <2> QED
    BY <1>1, <2>2, InvoiceIn DEF Stands
<1>2. \A b \in Billings : n.billing[b] = m.billing[b]
  BY DEF Stands
<1> QED
  BY <1>1, <1>2 DEF IsDeadline

LEMMA StandsReleased ==
  ASSUME NEW m, NEW n, NEW s \in Students, NEW c \in Courses, ModelsType(m), AfterReleased(m, n, s, c)
  PROVE  Stands(m, n)
<1>1. /\ n.subscription[<<s, c>>].status = "released"
      /\ \A x \in Seats : x # <<s, c>> => n.subscription[x] = m.subscription[x]
  BY DEF AfterReleased, ModelsType, SubscriptionState, Seats
<1>2. n.billing = m.billing /\ n.invoice = m.invoice
  BY DEF AfterReleased
<1>3. \A k \in Courses : n.course[k].exists = m.course[k].exists /\ n.readiness[k].status = m.readiness[k].status
  BY DEF AfterReleased, ModelsType, CourseState, ReadinessState
<1> QED
  BY <1>1, <1>2, <1>3 DEF Stands, BilledBy


LEMMA StandsPaid ==
  ASSUME NEW m, NEW n, NEW s \in Students, NEW c \in Courses, NEW p, NEW amount, ModelsType(m), AfterPaid(m, n, s, c, p, amount)
  PROVE  Stands(m, n)
<1>1. /\ n.subscription[<<s, c>>].status = "paid"
      /\ \A x \in Seats : x # <<s, c>> => n.subscription[x] = m.subscription[x]
  BY DEF AfterPaid, ModelsType, SubscriptionState, Seats
<1>2. n.billing = m.billing /\ n.invoice = m.invoice
  BY DEF AfterPaid
<1>3. \A k \in Courses : n.course[k].exists = m.course[k].exists /\ n.readiness[k].status = m.readiness[k].status
  BY DEF AfterPaid, ModelsType, CourseState, ReadinessState
<1> QED
  BY <1>1, <1>2, <1>3 DEF Stands, BilledBy


LEMMA StandsCancelled ==
  ASSUME NEW m, NEW n, NEW c \in Courses, NEW students, ModelsType(m), AfterCancelled(m, n, c, students)
  PROVE  Stands(m, n)
<1>1. \A x \in Seats : n.subscription[x].status = "released" \/ n.subscription[x] = m.subscription[x]
  BY DEF AfterCancelled, ModelsType, SubscriptionState
<1>2. n.billing = m.billing /\ n.invoice = m.invoice
  BY DEF AfterCancelled
<1>3. \A k \in Courses : /\ n.course[k].exists = m.course[k].exists
                         /\ n.readiness[k].status = "waiting" => m.readiness[k].status = "waiting"
  BY DEF AfterCancelled, ModelsType, CourseState, ReadinessState
<1> QED
  BY <1>1, <1>2, <1>3 DEF Stands, BilledBy


LEMMA StandsPriced ==
  ASSUME NEW m, NEW n, NEW c, NEW price, ModelsType(m), AfterPriced(m, n, c, price)
  PROVE  Stands(m, n)
BY DEF AfterPriced, Stands


LEMMA StandsReceipt ==
  ASSUME NEW m, NEW n, NEW p, ModelsType(m), AfterReceipt(m, n, p)
  PROVE  Stands(m, n)
BY DEF AfterReceipt, Stands


LEMMA StandsStopped ==
  ASSUME NEW m, NEW n, NEW b, ModelsType(m), AfterStopped(m, n, b)
  PROVE  Stands(m, n)
BY DEF AfterStopped, Stands


LEMMA StandsTeacher ==
  ASSUME NEW m, NEW n, NEW c, ModelsType(m), AfterTeacher(m, n, c)
  PROVE  Stands(m, n)
<1>1. \A k \in Courses : n.readiness[k].status = "waiting" => m.readiness[k].status = "waiting"
  BY DEF AfterTeacher, ModelsType, ReadinessState
<1> QED
  BY <1>1 DEF AfterTeacher, Stands


LEMMA StandsRoom ==
  ASSUME NEW m, NEW n, NEW c, ModelsType(m), AfterRoom(m, n, c)
  PROVE  Stands(m, n)
<1>1. \A k \in Courses : n.readiness[k].status = "waiting" => m.readiness[k].status = "waiting"
  BY DEF AfterRoom, ModelsType, ReadinessState
<1> QED
  BY <1>1 DEF AfterRoom, Stands


LEMMA StandsConfirmed ==
  ASSUME NEW m, NEW n, NEW c, NEW count, ModelsType(m), AfterConfirmed(m, n, c, count)
  PROVE  Stands(m, n)
<1>1. \A k \in Courses : n.readiness[k].status = "waiting" => m.readiness[k].status = "waiting"
  BY DEF AfterConfirmed, ModelsType, ReadinessState
<1> QED
  BY <1>1 DEF AfterConfirmed, Stands


LEMMA StandsInvoicePaid ==
  ASSUME NEW m, NEW n, NEW b, NEW i, NEW p, ModelsType(m), AfterInvoicePaid(m, n, b, i, p)
  PROVE  Stands(m, n)
<1>1. \A j \in Invoices : (m.invoice[j].paid => n.invoice[j].paid) /\ n.invoice[j].dueAt = m.invoice[j].dueAt
  BY DEF AfterInvoicePaid, ModelsType, InvoiceState
<1> QED
  BY <1>1 DEF AfterInvoicePaid, Stands


LEMMA StandsOverdue ==
  ASSUME NEW m, NEW n, NEW b, NEW i, ModelsType(m), AfterOverdue(m, n, b, i)
  PROVE  Stands(m, n)
<1>1. ASSUME NEW j \in Invoices PROVE n.invoice[j].paid = m.invoice[j].paid /\ n.invoice[j].dueAt = m.invoice[j].dueAt
  <2>1. \A k \in DOMAIN m.invoice : k # <<b, i>> => n.invoice[k] = m.invoice[k]
    BY DEF AfterOverdue
  <2>2. j \in DOMAIN m.invoice /\ (j = <<b, i>> => n.invoice[j] = [m.invoice[j] EXCEPT !.overdue = TRUE])
    BY DEF AfterOverdue, ModelsType, InvoiceState
  <2>3. [m.invoice[j] EXCEPT !.overdue = TRUE].paid = m.invoice[j].paid /\ [m.invoice[j] EXCEPT !.overdue = TRUE].dueAt = m.invoice[j].dueAt
    OBVIOUS
  <2> QED
    BY <2>1, <2>2, <2>3
<1> QED
  BY <1>1 DEF AfterOverdue, Stands


-----------------------------------------------------------------------------
(* What a decision's append does: from models m, in which what waits has a *)
(* deadline in D, to n.                                                    *)
LostForAReason(m, n) ==
  /\ \A c \in Courses : m.readiness[c].status # "waiting" => n.readiness[c].status = m.readiness[c].status
  /\ \A x \in Held(m) \ Held(n) :
       \/ n.course[x[2]].cancelled
       \/ m.subscription[x].status = "subscribed" /\ \E p \in Pods : WindowClosed(m.subscription[x], Clock(p))
       \/ \E b \in Billings : /\ BilledBy(m.subscription[x], b)
                              /\ \/ Known(n, "BillingStopped", b)
                                 \/ \E i \in 1 .. MaxInvoices :
                                      /\ n.invoice[<<b, i>>].overdue /\ ~ m.invoice[<<b, i>>].paid
                                      /\ \E p \in Pods : Clock(p) >= m.invoice[<<b, i>>].dueAt

HasAll(D, set) == \A i \in DOMAIN set : HasDue(D, set[i].command, set[i].input, set[i].dueAt)

Goes(m, n, D, set) ==
  /\ ModelInv(n) /\ LostForAReason(m, n)
  /\ \A E : D \subseteq E /\ HasAll(E, set) => WaitsIn(n, E)
  /\ \A d : IsDeadline(m, d) => IsDeadline(n, d)
  /\ Len(set) \in Nat /\ DOMAIN set = 1 .. Len(set)
  /\ \A i \in DOMAIN set : IsDeadline(n, set[i]) /\ set[i].dueAt \in Nat
  /\ \A b \in Billings : 2 * n.billing[b].lastIssued <= 2 * m.billing[b].lastIssued + Len(set)

Ready(m, D) == ModelInv(m) /\ Bounded(m) /\ WaitsIn(m, D)

(* Seats are kept, and the course's end stands. *)
LEMMA NothingLost ==
  ASSUME NEW m, NEW n,
         \A x \in Seats : m.subscription[x].status \in {"subscribed", "paid", "billed"} =>
                            n.subscription[x].status \in {"subscribed", "paid", "billed"},
         \A c \in Courses : m.readiness[c].status # "waiting" => n.readiness[c].status = m.readiness[c].status
  PROVE  LostForAReason(m, n)
<1>1. Held(m) \ Held(n) = {}
  BY DEF Held
<1> QED
  BY <1>1 DEF LostForAReason

LEMMA SetNothing == Len(<<>>) = 0 /\ DOMAIN <<>> = 1 .. Len(<<>>) /\ DOMAIN <<>> = {}
OBVIOUS

(* One that sets no deadline. *)
LEMMA GoesStanding ==
  ASSUME NEW m, NEW n, NEW D, Ready(m, D), ModelInv(n), Stands(m, n), LostForAReason(m, n)
  PROVE  Goes(m, n, D, <<>>)
<1>1. ASSUME NEW E, D \subseteq E PROVE WaitsIn(n, E)
  BY <1>1, WaitsStand, WaitsWider DEF Ready, ModelInv
<1>2. \A d : IsDeadline(m, d) => IsDeadline(n, d)
  BY StandsDefinitely DEF Ready, ModelInv
<1>3. ASSUME NEW b \in Billings PROVE 2 * n.billing[b].lastIssued <= 2 * m.billing[b].lastIssued + 0
  <2>1. n.billing[b].lastIssued = m.billing[b].lastIssued /\ m.billing[b].lastIssued \in Nat
    BY DEF Stands, Ready, ModelInv, ModelsType, BillingState
  <2> QED
    BY <2>1
<1> QED
  BY <1>1, <1>2, <1>3, SetNothing DEF Goes

LEMMA GoesNowhere ==
  ASSUME NEW m, NEW D, Ready(m, D)
  PROVE  Goes(m, FoldOf(m, Noop.events), D, Noop.asked) /\ Goes(m, FoldOf(m, Fail.events), D, Fail.asked)
<1>1. LostForAReason(m, m)
  BY NothingLost
<1> QED
  BY <1>1, StandsStill, GoesStanding, FoldNone DEF Noop, Fail, Ready

Does(m, D, decision) == Goes(m, FoldOf(m, decision.events), D, decision.asked)

LEMMA DoesNothing == ASSUME NEW m, NEW D, Ready(m, D) PROVE Does(m, D, Noop) /\ Does(m, D, Fail)
BY GoesNowhere DEF Does

LEMMA DoesOne ==
  ASSUME NEW m, NEW D, NEW e, Ready(m, D),
         ModelInv(Folded(m, e)), Stands(m, Folded(m, e)), LostForAReason(m, Folded(m, e))
  PROVE  Does(m, D, Emit(<<e>>, <<>>))
<1>1. Emit(<<e>>, <<>>).events = <<e>> /\ Emit(<<e>>, <<>>).asked = <<>>
  BY DEF Emit
<1> QED
  BY <1>1, FoldOne, GoesStanding DEF Does

LEMMA DoesTwo ==
  ASSUME NEW m, NEW D, NEW e, NEW f, NEW n, n = Folded(Folded(m, e), f), Ready(m, D),
         ModelInv(n), Stands(m, n), LostForAReason(m, n)
  PROVE  Does(m, D, Emit(<<e, f>>, <<>>))
<1>1. Emit(<<e, f>>, <<>>).events = <<e, f>> /\ Emit(<<e, f>>, <<>>).asked = <<>>
  BY DEF Emit
<1>2. FoldOf(m, <<e, f>>) = n
  BY FoldTwo
<1>3. Goes(m, n, D, <<>>)
  BY GoesStanding
<1> QED
  BY <1>1, <1>2, <1>3 DEF Does

LEMMA PriceDoes ==
  ASSUME NEW m, NEW D, Ready(m, D), NEW c \in Courses, NEW price \in Prices
  PROVE  Does(m, D, PriceCourse(m, c, price))
<1> DEFINE n == Folded(m, CoursePriced(c, price))
<1>1. AfterPriced(m, n, c, price)
  BY OnPriced DEF Ready, ModelInv
<1>2. ModelInv(n) /\ Stands(m, n)
  BY <1>1, KeepPriced, StandsPriced DEF Ready, ModelInv
<1>3. LostForAReason(m, n)
  BY <1>1, NothingLost DEF AfterPriced
<1>4. Does(m, D, Emit(<<CoursePriced(c, price)>>, <<>>))
  BY <1>2, <1>3, DoesOne
<1> QED
  BY <1>4, DoesNothing DEF PriceCourse

LEMMA PayDoes ==
  ASSUME NEW m, NEW D, Ready(m, D), NEW s \in Students, NEW c \in Courses, NEW p, NEW amount, NEW at
  PROVE  Does(m, D, PaySubscription(m, s, c, p, amount, at))
<1> DEFINE n == Folded(m, SubscriptionPaid(s, c, p, amount))
<1>1. ASSUME ~ Known(m, "SubscriptionPaid", p), m.subscription[<<s, c>>].status = "subscribed"
      PROVE  Does(m, D, Emit(<<SubscriptionPaid(s, c, p, amount)>>, <<>>))
  <2>1. AfterPaid(m, n, s, c, p, amount)
    BY <1>1, OnPaid DEF Ready, ModelInv
  <2>2. ModelInv(n) /\ Stands(m, n)
    BY <1>1, <2>1, KeepPaid, StandsPaid DEF Ready, ModelInv
  <2>3. \A x \in Seats : n.subscription[x].status = IF x = <<s, c>> THEN "paid" ELSE m.subscription[x].status
    BY <2>1 DEF AfterPaid, Ready, ModelInv, ModelsType, SubscriptionState
  <2>4. LostForAReason(m, n)
    <3>1. n.readiness = m.readiness
      BY <2>1 DEF AfterPaid
    <3> HIDE DEF n
    <3> QED
      BY <2>3, <3>1, NothingLost
  <2> QED
    BY <2>2, <2>4, DoesOne
<1> QED
  BY <1>1, DoesNothing DEF PaySubscription

LEMMA ReceiptDoes ==
  ASSUME NEW m, NEW D, Ready(m, D), NEW p
  PROVE  Does(m, D, SendReceipt(m, p))
<1> DEFINE n == Folded(m, ReceiptSent(p))
<1>1. ASSUME ~ Known(m, "ReceiptSent", p) PROVE Does(m, D, Emit(<<ReceiptSent(p)>>, <<>>))
  <2>1. AfterReceipt(m, n, p)
    BY <1>1, OnReceipt DEF Ready, ModelInv
  <2>2. ModelInv(n) /\ Stands(m, n)
    BY <2>1, KeepReceipt, StandsReceipt DEF Ready, ModelInv
  <2>3. LostForAReason(m, n)
    BY <2>1, NothingLost DEF AfterReceipt
  <2> QED
    BY <2>2, <2>3, DoesOne
<1> QED
  BY <1>1, DoesNothing DEF SendReceipt

LEMMA ConfirmDoes ==
  ASSUME NEW m, NEW D, Ready(m, D), NEW c \in Courses
  PROVE  Does(m, D, ConfirmCourse(m, c))
<1> DEFINE count == Cardinality(m.readiness[c].students)
           n == Folded(m, CourseConfirmed(c, count))
<1>1. ASSUME m.readiness[c].status = "waiting" PROVE Does(m, D, Emit(<<CourseConfirmed(c, count)>>, <<>>))
  <2>1. AfterConfirmed(m, n, c, count)
    BY OnConfirmed DEF Ready, ModelInv
  <2>2. ModelInv(n) /\ Stands(m, n)
    BY <1>1, <2>1, KeepReadiness, StandsConfirmed DEF Ready, ModelInv
  <2>3. \A k \in Courses : k # c => n.readiness[k] = m.readiness[k]
    BY <2>1 DEF AfterConfirmed, Ready, ModelInv, ModelsType, ReadinessState
  <2>4. LostForAReason(m, n)
    <3>1. n.subscription = m.subscription
      BY <2>1 DEF AfterConfirmed
    <3> HIDE DEF n
    <3> QED
      BY <1>1, <2>3, <3>1, NothingLost
  <2> QED
    BY <2>2, <2>4, DoesOne
<1> QED
  BY <1>1, DoesNothing DEF ConfirmCourse

LEMMA PrepareDoes ==
  ASSUME NEW m, NEW D, Ready(m, D), NEW c \in Courses, NEW e \in {TeacherAssigned(c), RoomBooked(c)}
  PROVE  Does(m, D, Emit(<<e>>, <<>>))
<1> DEFINE n == Folded(m, e)
<1>1. AfterTeacher(m, n, c) \/ AfterRoom(m, n, c)
  BY OnTeacher, OnRoom DEF Ready, ModelInv
<1>2. ModelInv(n) /\ Stands(m, n)
  BY <1>1, KeepReadiness, StandsTeacher, StandsRoom DEF Ready, ModelInv
<1>3. n.subscription = m.subscription
  BY <1>1 DEF AfterTeacher, AfterRoom
<1>4. \A k \in Courses : n.readiness[k].status = m.readiness[k].status
  BY <1>1 DEF AfterTeacher, AfterRoom, Ready, ModelInv, ModelsType, ReadinessState
<1>5. LostForAReason(m, n)
  BY <1>3, <1>4, NothingLost
<1> QED
  BY <1>2, <1>5, DoesOne

LEMMA CancelDoes ==
  ASSUME NEW m, NEW D, Ready(m, D), NEW c \in Courses
  PROVE  /\ Does(m, D, CancelUnreadyCourse(m, c))
         /\ FoldOf(m, CancelUnreadyCourse(m, c).events).readiness[c].status # "waiting"
<1> DEFINE gone == m.readiness[c].students
           n == Folded(m, CourseCancelled(c, gone))
<1>1. ASSUME m.readiness[c].status = "waiting"
      PROVE  Does(m, D, Emit(<<CourseCancelled(c, gone)>>, <<>>)) /\ n.readiness[c].status # "waiting"
  <2>1. gone \in SUBSET Students
    BY DEF Ready, ModelInv, ModelsType, ReadinessState
  <2>2. AfterCancelled(m, n, c, gone)
    BY <2>1, OnCancelled DEF Ready, ModelInv
  <2>3. ModelInv(n) /\ Stands(m, n)
    BY <1>1, <2>2, KeepCancelled, StandsCancelled DEF Ready, ModelInv
  <2>4. /\ n.course[c].cancelled /\ n.readiness[c].status = "cancelled"
        /\ \A k \in Courses : k # c => n.readiness[k] = m.readiness[k]
    BY <2>2 DEF AfterCancelled, Ready, ModelInv, ModelsType, CourseState, ReadinessState
  <2>5. \A x \in Seats : x[2] # c => n.subscription[x] = m.subscription[x]
    BY <2>2 DEF AfterCancelled
  <2>6. \A x \in Held(m) \ Held(n) : n.course[x[2]].cancelled
    BY <2>4, <2>5 DEF Held
  <2>7. LostForAReason(m, n)
    BY <1>1, <2>4, <2>6 DEF LostForAReason
  <2> QED
    BY <2>3, <2>4, <2>7, DoesOne
<1>2. /\ FoldOf(m, Emit(<<CourseCancelled(c, gone)>>, <<>>).events) = n
      /\ FoldOf(m, Noop.events) = m
  BY FoldOne, FoldNone DEF Emit, Noop
<1> QED
  BY <1>1, <1>2, DoesNothing DEF CancelUnreadyCourse

(* A release takes the one seat. *)
LEMMA ReleasedOne ==
  ASSUME NEW m, NEW n, NEW s \in Students, NEW c \in Courses, ModelsType(m), AfterReleased(m, n, s, c)
  PROVE  /\ Held(m) \ Held(n) \subseteq {<<s, c>>}
         /\ \A k \in Courses : n.readiness[k].status = m.readiness[k].status
         /\ n.subscription[<<s, c>>].status = "released"
<1>1. \A x \in Seats : x # <<s, c>> => n.subscription[x] = m.subscription[x]
  BY DEF AfterReleased, ModelsType, SubscriptionState
<1>2. \A k \in Courses : n.readiness[k].status = m.readiness[k].status
  BY DEF AfterReleased, ModelsType, ReadinessState
<1>3. n.subscription[<<s, c>>].status = "released"
  BY DEF AfterReleased, ModelsType, SubscriptionState, Seats
<1> QED
  BY <1>1, <1>2, <1>3 DEF Held

LEMMA ReleaseDoes ==
  ASSUME NEW m, NEW D, Ready(m, D), NEW s \in Students, NEW c \in Courses, NEW q \in Pods, Clock(q) \in Nat
  PROVE  LET o == FoldOf(m, ReleaseUnpaidSubscription(m, s, c, Clock(q)).events)
         IN  /\ Does(m, D, ReleaseUnpaidSubscription(m, s, c, Clock(q)))
             /\ o.subscription[<<s, c>>].status = "subscribed" => Clock(q) < o.subscription[<<s, c>>].windowClosesAt
<1> DEFINE n == Folded(m, SubscriptionReleased(s, c))
<1>1. ASSUME m.subscription[<<s, c>>].status = "subscribed", WindowClosed(m.subscription[<<s, c>>], Clock(q))
      PROVE  Does(m, D, Emit(<<SubscriptionReleased(s, c)>>, <<>>)) /\ n.subscription[<<s, c>>].status = "released"
  <2>1. AfterReleased(m, n, s, c)
    BY OnReleased DEF Ready, ModelInv
  <2>2. ModelInv(n) /\ Stands(m, n)
    BY <1>1, <2>1, KeepReleased, StandsReleased DEF Ready, ModelInv
  <2>3. /\ Held(m) \ Held(n) \subseteq {<<s, c>>}
        /\ \A k \in Courses : n.readiness[k].status = m.readiness[k].status
        /\ n.subscription[<<s, c>>].status = "released"
    BY <2>1, ReleasedOne DEF Ready, ModelInv
  <2>4. LostForAReason(m, n)
    BY <1>1, <2>3 DEF LostForAReason
  <2> QED
    BY <2>2, <2>3, <2>4, DoesOne
<1>2. /\ FoldOf(m, Emit(<<SubscriptionReleased(s, c)>>, <<>>).events) = n
      /\ FoldOf(m, Noop.events) = m
  BY FoldOne, FoldNone DEF Emit, Noop
<1>3. m.subscription[<<s, c>>].windowClosesAt \in Nat
  BY DEF Ready, ModelInv, ModelsType, SubscriptionState, Seats
<1>4. CASE m.subscription[<<s, c>>].status = "subscribed" /\ WindowClosed(m.subscription[<<s, c>>], Clock(q))
  BY <1>1, <1>2, <1>4 DEF ReleaseUnpaidSubscription
<1>5. CASE ~ (m.subscription[<<s, c>>].status = "subscribed" /\ WindowClosed(m.subscription[<<s, c>>], Clock(q)))
  <2>1. ReleaseUnpaidSubscription(m, s, c, Clock(q)) = Noop
    BY <1>5 DEF ReleaseUnpaidSubscription
  <2>2. m.subscription[<<s, c>>].status = "subscribed" => Clock(q) < m.subscription[<<s, c>>].windowClosesAt
    BY <1>3, <1>5 DEF WindowClosed
  <2> QED
    BY <1>2, <2>1, <2>2, DoesNothing
<1> QED
  BY <1>4, <1>5

LEMMA PayInvoiceDoes ==
  ASSUME NEW m, NEW D, Ready(m, D), NEW b \in Billings, NEW i \in 1 .. MaxInvoices, NEW p, NEW amount, NEW at
  PROVE  Does(m, D, PayInvoice(m, b, i, p, amount, at))
<1> DEFINE n == Folded(m, InvoicePaid(b, i, p))
<1>1. ASSUME ~ Known(m, "InvoicePaid", p), ~ m.invoice[<<b, i>>].overdue
      PROVE  Does(m, D, Emit(<<InvoicePaid(b, i, p)>>, <<>>))
  <2>0. <<b, i>> \in Invoices
    BY DEF Invoices
  <2>1. AfterInvoicePaid(m, n, b, i, p)
    BY <1>1, <2>0, OnInvoicePaid DEF Ready, ModelInv
  <2>2. ModelInv(n) /\ Stands(m, n)
    BY <1>1, <2>0, <2>1, KeepInvoice, StandsInvoicePaid DEF Ready, ModelInv
  <2>3. n.subscription = m.subscription /\ n.readiness = m.readiness
    BY <2>1 DEF AfterInvoicePaid
  <2>4. LostForAReason(m, n)
    BY <2>3, NothingLost
  <2> QED
    BY <2>2, <2>4, DoesOne
<1> QED
  BY <1>1, DoesNothing DEF PayInvoice

LEMMA ReleaseOverdueDoes ==
  ASSUME NEW m, NEW D, Ready(m, D), NEW b \in Billings, NEW s \in Students, NEW c \in Courses,
         NEW i \in 1 .. m.billing[b].lastIssued, NEW q \in Pods, m.invoice[<<b, i>>].dueAt <= Clock(q), Clock(q) \in Nat
  PROVE  LET o == FoldOf(m, ReleaseOverdueInvoice(m, b, s, c, i).events)
         IN  /\ Does(m, D, ReleaseOverdueInvoice(m, b, s, c, i))
             /\ BilledBy(o.subscription[<<s, c>>], b) => o.invoice[<<b, i>>].paid
<1> DEFINE k == Folded(m, InvoiceOverdue(b, i))
           n == Folded(k, SubscriptionReleased(s, c))
<1>0. <<b, i>> \in Invoices /\ i \in 1 .. MaxInvoices /\ <<s, c>> \in Seats
  BY InvoiceIn DEF Ready, ModelInv, Invoices, Seats
<1>1. ASSUME ~ m.invoice[<<b, i>>].paid, BilledBy(m.subscription[<<s, c>>], b)
      PROVE  /\ Does(m, D, Emit(<<InvoiceOverdue(b, i), SubscriptionReleased(s, c)>>, <<>>))
             /\ n.subscription[<<s, c>>].status = "released"
  <2>1. AfterOverdue(m, k, b, i)
    BY <1>0, OnOverdue DEF Ready, ModelInv
  <2>2. ModelInv(k) /\ Stands(m, k)
    BY <1>0, <1>1, <2>1, KeepInvoice, StandsOverdue DEF Ready, ModelInv
  <2>3. AfterReleased(k, n, s, c)
    BY <2>2, OnReleased DEF ModelInv
  <2>4. k.subscription = m.subscription /\ k.readiness = m.readiness
    BY <2>1 DEF AfterOverdue
  <2>5. ModelInv(n) /\ Stands(k, n)
    BY <1>1, <2>2, <2>3, <2>4, KeepReleased, StandsReleased DEF ModelInv, BilledBy
  <2>6. Stands(m, n)
    BY <2>2, <2>5, StandsOn
  <2>7. /\ Held(k) \ Held(n) \subseteq {<<s, c>>}
        /\ \A j \in Courses : n.readiness[j].status = k.readiness[j].status
        /\ n.subscription[<<s, c>>].status = "released"
    <3>1. ModelsType(k)
      BY <2>2 DEF ModelInv
    <3> HIDE DEF k, n
    <3>2. Held(k) \ Held(n) \subseteq {<<s, c>>}
      BY <2>3, <3>1, ReleasedOne
    <3>3. \A j \in Courses : n.readiness[j].status = k.readiness[j].status
      BY <2>3, <3>1, ReleasedOne
    <3>4. n.subscription[<<s, c>>].status = "released"
      BY <1>0, <2>3, <3>1 DEF AfterReleased, ModelsType, SubscriptionState
    <3> QED
      BY <3>2, <3>3, <3>4
  <2>8. n.invoice[<<b, i>>].overdue
    BY <1>0, <2>1, <2>3 DEF AfterOverdue, AfterReleased, Ready, ModelInv, ModelsType, InvoiceState
  <2>9. Held(k) = Held(m)
    BY <2>4 DEF Held
  <2>10. Clock(q) >= m.invoice[<<b, i>>].dueAt
    <3>1. m.invoice[<<b, i>>].dueAt \in Nat
      BY <1>0 DEF Ready, ModelInv, ModelsType, InvoiceState
    <3> QED
      BY <3>1
  <2>11. LostForAReason(m, n)
    BY <1>0, <1>1, <2>4, <2>7, <2>8, <2>9, <2>10 DEF LostForAReason
  <2> QED
    BY <2>5, <2>6, <2>7, <2>11, DoesTwo
<1>2. /\ FoldOf(m, Emit(<<InvoiceOverdue(b, i), SubscriptionReleased(s, c)>>, <<>>).events) = n
      /\ FoldOf(m, Noop.events) = m
  BY FoldTwo, FoldNone DEF Emit, Noop
<1>3. CASE ~ m.invoice[<<b, i>>].paid /\ BilledBy(m.subscription[<<s, c>>], b)
  BY <1>1, <1>2, <1>3 DEF ReleaseOverdueInvoice, BilledBy
<1>4. CASE ~ (~ m.invoice[<<b, i>>].paid /\ BilledBy(m.subscription[<<s, c>>], b))
  <2>1. ReleaseOverdueInvoice(m, b, s, c, i) = Noop
    BY <1>4 DEF ReleaseOverdueInvoice
  <2> QED
    BY <1>2, <1>4, <2>1, DoesNothing
<1> QED
  BY <1>3, <1>4

LEMMA StopDoes ==
  ASSUME NEW m, NEW D, Ready(m, D), NEW b \in Billings, NEW s \in Students, NEW c \in Courses
  PROVE  Does(m, D, StopMonthlyFee(m, b, s, c))
<1> DEFINE k == Folded(m, BillingStopped(b))
           n == Folded(k, SubscriptionReleased(s, c))
<1>1. ASSUME ~ Known(m, "BillingStopped", b), BilledBy(m.subscription[<<s, c>>], b)
      PROVE  Does(m, D, Emit(<<BillingStopped(b), SubscriptionReleased(s, c)>>, <<>>))
  <2>1. AfterStopped(m, k, b)
    BY <1>1, OnStopped DEF Ready, ModelInv
  <2>2. ModelInv(k) /\ Stands(m, k)
    BY <2>1, KeepStopped, StandsStopped DEF Ready, ModelInv
  <2>3. AfterReleased(k, n, s, c)
    BY <2>2, OnReleased DEF ModelInv
  <2>4. k.subscription = m.subscription /\ k.readiness = m.readiness
    BY <2>1 DEF AfterStopped
  <2>5. ModelInv(n) /\ Stands(k, n)
    BY <1>1, <2>2, <2>3, <2>4, KeepReleased, StandsReleased DEF ModelInv, BilledBy
  <2>6. Stands(m, n)
    BY <2>2, <2>5, StandsOn
  <2>7. /\ Held(k) \ Held(n) \subseteq {<<s, c>>}
        /\ \A j \in Courses : n.readiness[j].status = k.readiness[j].status
    <3>1. ModelsType(k)
      BY <2>2 DEF ModelInv
    <3> HIDE DEF k, n
    <3> QED
      BY <2>3, <3>1, ReleasedOne
  <2>8. Known(n, "BillingStopped", b)
    BY <2>1, <2>3, KnownIsKey DEF AfterStopped, AfterReleased
  <2>9. Held(k) = Held(m)
    BY <2>4 DEF Held
  <2>10. LostForAReason(m, n)
    BY <1>1, <2>4, <2>7, <2>8, <2>9 DEF LostForAReason
  <2> QED
    BY <2>5, <2>6, <2>10, DoesTwo
<1> QED
  BY <1>1, DoesNothing DEF StopMonthlyFee

(* The decisions that set deadlines. *)
LEMMA DefineDoes ==
  ASSUME NEW m, NEW D, Ready(m, D), NEW c \in Courses, NEW capacity \in Capacities, NEW at \in Nat
  PROVE  Does(m, D, DefineCourse(m, c, capacity, at))
<1> DEFINE n == Folded(m, CourseDefined(c, capacity))
           set == <<Ask("cancel_unready_course", c, at + READINESS_DAYS)>>
<1>1. ASSUME ~ m.course[c].exists PROVE Does(m, D, Emit(<<CourseDefined(c, capacity)>>, set))
  <2>1. AfterDefined(m, n, c, capacity)
    BY OnDefined DEF Ready, ModelInv
  <2>2. ModelInv(n)
    BY <1>1, <2>1, KeepDefined DEF Ready, ModelInv
  <2>3. /\ n.subscription = m.subscription /\ n.readiness = m.readiness /\ n.billing = m.billing /\ n.invoice = m.invoice
        /\ \A k \in Courses : k # c => n.course[k] = m.course[k]
    BY <2>1 DEF AfterDefined, Ready, ModelInv, ModelsType, CourseState
  <2>4. /\ Len(set) = 1 /\ DOMAIN set = 1 .. 1 /\ set[1].dueAt = at + READINESS_DAYS
        /\ set[1].command = "cancel_unready_course" /\ set[1].input = c
    BY DEF Ask
  <2>5. Emit(<<CourseDefined(c, capacity)>>, set).events = <<CourseDefined(c, capacity)>> /\ Emit(<<CourseDefined(c, capacity)>>, set).asked = set
    BY DEF Emit
  <2>6. FoldOf(m, Emit(<<CourseDefined(c, capacity)>>, set).events) = n
    BY <2>5, FoldOne
  <2> HIDE DEF n, set
  <2>7. LostForAReason(m, n)
    BY <2>3, NothingLost
  <2>8. ASSUME NEW E, D \subseteq E, HasAll(E, set) PROVE WaitsIn(n, E)
    <3>1. WaitsIn(m, E)
      BY <2>8, WaitsWider DEF Ready
    <3>2. Has(E, "cancel_unready_course", c)
      BY <2>4, <2>8 DEF HasAll, HasDue, Has
    <3> QED
      BY <2>3, <3>1, <3>2 DEF WaitsIn, CoursesWait, SeatsWait, InvoicesWait
  <2>9. \A d : IsDeadline(m, d) => IsDeadline(n, d)
    BY <2>3 DEF IsDeadline
  <2>10. \A i \in DOMAIN set : IsDeadline(n, set[i]) /\ set[i].dueAt \in Nat
    BY <2>4, EnrolmentAssumption DEF IsDeadline
  <2>11. \A b \in Billings : 2 * n.billing[b].lastIssued <= 2 * m.billing[b].lastIssued + 1
    BY <2>3 DEF Ready, ModelInv, ModelsType, BillingState
  <2>12. Goes(m, n, D, set)
    BY <2>2, <2>4, <2>7, <2>8, <2>9, <2>10, <2>11 DEF Goes
  <2> QED
    BY <2>5, <2>6, <2>12 DEF Does
<1> QED
  BY <1>1, DoesNothing DEF DefineCourse

LEMMA SubscribeDoes ==
  ASSUME NEW m, NEW D, Ready(m, D), NEW s \in Students, NEW c \in Courses, NEW at \in Nat
  PROVE  Does(m, D, Subscribe(m, s, c, at))
<1> DEFINE e == StudentSubscribed(s, c, at)
           n == Folded(m, e)
           set == <<Ask("release_unpaid_subscription", <<s, c>>, at + PAYMENT_WINDOW_DAYS)>>
<1>1. ASSUME m.course[c].exists, ~ m.course[c].cancelled, c \notin m.student[s], ~ (m.course[c].subscribers >= m.course[c].capacity)
      PROVE  Does(m, D, Emit(<<e>>, set))
  <2>0. <<s, c>> \in Seats /\ at + PAYMENT_WINDOW_DAYS \in Nat
    BY EnrolmentAssumption DEF Seats
  <2>1. AfterSubscribed(m, n, s, c, at)
    BY OnSubscribed DEF Ready, ModelInv
  <2>2. ModelInv(n)
    <3>1. m.course[c].subscribers < m.course[c].capacity
      BY <1>1 DEF Ready, ModelInv, ModelsType, CourseState
    <3> QED
      BY <1>1, <2>1, <3>1, KeepSubscribed DEF Ready
  <2>3. /\ n.subscription[<<s, c>>] = [status |-> "subscribed", windowClosesAt |-> at + PAYMENT_WINDOW_DAYS, billingId |-> None]
        /\ \A x \in Seats : x # <<s, c>> => n.subscription[x] = m.subscription[x]
    BY <2>0, <2>1 DEF AfterSubscribed, Ready, ModelInv, ModelsType, SubscriptionState
  <2>4. \A k \in Courses : n.course[k].exists = m.course[k].exists /\ n.readiness[k].status = m.readiness[k].status
    BY <2>1 DEF AfterSubscribed, Ready, ModelInv, ModelsType, CourseState, ReadinessState
  <2>5. n.billing = m.billing /\ n.invoice = m.invoice
    BY <2>1 DEF AfterSubscribed
  <2>6. /\ Len(set) = 1 /\ DOMAIN set = 1 .. 1 /\ set[1].dueAt = at + PAYMENT_WINDOW_DAYS
        /\ set[1].command = "release_unpaid_subscription" /\ set[1].input = <<s, c>>
    BY DEF Ask
  <2>7. Emit(<<e>>, set).events = <<e>> /\ Emit(<<e>>, set).asked = set
    BY DEF Emit
  <2>8. FoldOf(m, Emit(<<e>>, set).events) = n
    BY <2>7, FoldOne
  <2> HIDE DEF n, set, e
  <2>9. LostForAReason(m, n)
    <3>1. \A x \in Seats : m.subscription[x].status \in {"subscribed", "paid", "billed"} =>
                             n.subscription[x].status \in {"subscribed", "paid", "billed"}
      BY <2>3
    <3> QED
      BY <2>4, <3>1, NothingLost
  <2>10. ASSUME NEW E, D \subseteq E, HasAll(E, set) PROVE WaitsIn(n, E)
    <3>1. WaitsIn(m, E)
      BY <2>10, WaitsWider DEF Ready
    <3>2. HasDue(E, "release_unpaid_subscription", <<s, c>>, at + PAYMENT_WINDOW_DAYS)
      BY <2>6, <2>10 DEF HasAll
    <3>3. CoursesWait(n, E)
      BY <2>4, <3>1 DEF WaitsIn, CoursesWait
    <3>4. SeatsWait(n, E)
      BY <2>3, <3>1, <3>2 DEF WaitsIn, SeatsWait
    <3>5. \A x \in Seats, b \in Billings : BilledBy(n.subscription[x], b) => BilledBy(m.subscription[x], b)
      BY <2>3 DEF BilledBy
    <3> QED
      BY <2>5, <3>1, <3>3, <3>4, <3>5 DEF WaitsIn, InvoicesWait
  <2>11. \A d : IsDeadline(m, d) => IsDeadline(n, d)
    BY <2>5 DEF IsDeadline
  <2>12. \A i \in DOMAIN set : IsDeadline(n, set[i]) /\ set[i].dueAt \in Nat
    BY <2>0, <2>6 DEF IsDeadline
  <2>13. \A b \in Billings : 2 * n.billing[b].lastIssued <= 2 * m.billing[b].lastIssued + 1
    BY <2>5 DEF Ready, ModelInv, ModelsType, BillingState
  <2>14. Goes(m, n, D, set)
    BY <2>2, <2>6, <2>9, <2>10, <2>11, <2>12, <2>13 DEF Goes
  <2> QED
    BY <2>7, <2>8, <2>14 DEF Does
<1> QED
  BY <1>1, DoesNothing DEF Subscribe

LEMMA StartDoes ==
  ASSUME NEW m, NEW D, Ready(m, D), NEW b \in Billings, NEW s \in Students, NEW c \in Courses, NEW at \in Nat
  PROVE  Does(m, D, StartMonthlyFee(m, b, s, c, at))
<1> DEFINE e == BillingStarted(b, s, c, m.pricing[c], at)
           n == Folded(m, e)
           set == <<Ask("issue_invoice", <<b, s, c, 1>>, at)>>
<1>1. ASSUME ~ Known(m, "BillingStarted", b), m.subscription[<<s, c>>].status = "subscribed", m.pricing[c] # None
      PROVE  Does(m, D, Emit(<<e>>, set))
  <2>0. <<s, c>> \in Seats /\ m.pricing[c] \in Prices
    BY <1>1 DEF Seats, Ready, ModelInv, ModelsType
  <2>1. AfterBilled(m, n, b, s, c, m.pricing[c], at)
    BY <1>1, OnBilled DEF Ready, ModelInv
  <2>2. ModelInv(n)
    BY <1>1, <2>0, <2>1, KeepBilled DEF Ready
  <2>3. /\ n.subscription[<<s, c>>].status = "billed" /\ n.subscription[<<s, c>>].billingId = b
        /\ \A x \in Seats : x # <<s, c>> => n.subscription[x] = m.subscription[x]
    BY <2>0, <2>1 DEF AfterBilled, Ready, ModelInv, ModelsType, SubscriptionState
  <2>4. n.course = m.course /\ n.readiness = m.readiness /\ n.invoice = m.invoice
    BY <2>1 DEF AfterBilled
  <2>5. /\ n.billing[b].startsAt = at /\ \A k \in Billings : n.billing[k].lastIssued = m.billing[k].lastIssued
        /\ \A k \in Billings : k # b => n.billing[k] = m.billing[k]
    BY <2>1 DEF AfterBilled, Ready, ModelInv, ModelsType, BillingState
  <2>6. m.billing[b].lastIssued = 0 /\ \A x \in Seats : ~ BilledBy(m.subscription[x], b)
    BY <1>1 DEF Ready, ModelInv, BillingInv
  <2>7. /\ Len(set) = 1 /\ DOMAIN set = 1 .. 1 /\ set[1].dueAt = at
        /\ set[1].command = "issue_invoice" /\ set[1].input = <<b, s, c, 1>>
    BY DEF Ask
  <2>8. Emit(<<e>>, set).events = <<e>> /\ Emit(<<e>>, set).asked = set
    BY DEF Emit
  <2>9. FoldOf(m, Emit(<<e>>, set).events) = n
    BY <2>8, FoldOne
  <2> HIDE DEF n, set, e
  <2>10. LostForAReason(m, n)
    <3>1. \A x \in Seats : m.subscription[x].status \in {"subscribed", "paid", "billed"} =>
                             n.subscription[x].status \in {"subscribed", "paid", "billed"}
      BY <2>3
    <3> QED
      BY <2>4, <3>1, NothingLost
  <2>11. IssueDateOf(at, 1) = at
    BY EnrolmentAssumption DEF IssueDateOf
  <2>12. ASSUME NEW E, D \subseteq E, HasAll(E, set) PROVE WaitsIn(n, E)
    <3>1. WaitsIn(m, E)
      BY <2>12, WaitsWider DEF Ready
    <3>2. HasDue(E, "issue_invoice", <<b, s, c, 1>>, at)
      BY <2>7, <2>12 DEF HasAll
    <3>3. CoursesWait(n, E)
      BY <2>4, <3>1 DEF WaitsIn, CoursesWait
    <3>4. SeatsWait(n, E)
      <4>1. ASSUME NEW x \in Seats, n.subscription[x].status = "subscribed" PROVE n.subscription[x] = m.subscription[x]
        BY <2>3, <4>1
      <4> QED
        BY <3>1, <4>1 DEF WaitsIn, SeatsWait
    <3>5. \A x \in Seats, k \in Billings : BilledBy(n.subscription[x], k) =>
            (x = <<s, c>> /\ k = b) \/ (k # b /\ BilledBy(m.subscription[x], k))
      BY <2>3, <2>6 DEF BilledBy
    <3>6. n.billing[b].lastIssued + 1 = 1 /\ 1 .. n.billing[b].lastIssued = {}
      BY <2>5, <2>6
    <3>7. <<s, c>>[1] = s /\ <<s, c>>[2] = c
      OBVIOUS
    <3>8. HasDue(E, "issue_invoice", <<b, <<s, c>>[1], <<s, c>>[2], n.billing[b].lastIssued + 1>>,
                 IssueDateOf(n.billing[b].startsAt, n.billing[b].lastIssued + 1))
      BY <2>5, <2>11, <3>2, <3>6, <3>7
    <3>9. InvoicesWait(n, E)
      <4> SUFFICES ASSUME NEW x \in Seats, NEW k \in Billings, BilledBy(n.subscription[x], k)
                   PROVE  /\ HasDue(E, "issue_invoice", <<k, x[1], x[2], n.billing[k].lastIssued + 1>>,
                                    IssueDateOf(n.billing[k].startsAt, n.billing[k].lastIssued + 1))
                          /\ \A i \in 1 .. n.billing[k].lastIssued :
                               \/ n.invoice[<<k, i>>].paid
                               \/ HasDue(E, "release_overdue_invoice", <<k, x[1], x[2], i>>, n.invoice[<<k, i>>].dueAt)
        BY DEF InvoicesWait
      <4>1. CASE x = <<s, c>> /\ k = b
        BY <3>6, <3>8, <4>1
      <4>2. CASE k # b /\ BilledBy(m.subscription[x], k)
        BY <2>4, <2>5, <3>1, <4>2 DEF WaitsIn, InvoicesWait
      <4> QED
        BY <3>5, <4>1, <4>2
    <3> QED
      BY <3>3, <3>4, <3>9 DEF WaitsIn
  <2>13. \A d : IsDeadline(m, d) => IsDeadline(n, d)
    BY <2>4, <2>5 DEF IsDeadline
  <2>14. \A i \in DOMAIN set : IsDeadline(n, set[i]) /\ set[i].dueAt \in Nat
    <3>1. n.billing[b].lastIssued = 0
      BY <2>5, <2>6
    <3>2. IsDeadline(n, set[1])
      BY <2>7, <3>1 DEF IsDeadline
    <3> QED
      BY <2>7, <3>2
  <2>15. \A k \in Billings : 2 * n.billing[k].lastIssued <= 2 * m.billing[k].lastIssued + 1
    BY <2>5 DEF Ready, ModelInv, ModelsType, BillingState
  <2>16. Goes(m, n, D, set)
    BY <2>2, <2>7, <2>10, <2>12, <2>13, <2>14, <2>15 DEF Goes
  <2> QED
    BY <2>8, <2>9, <2>16 DEF Does
<1> QED
  BY <1>1, DoesNothing DEF StartMonthlyFee

(* The next invoice of a billing: one more than the last one issued.       *)
LEMMA IssueDoes ==
  ASSUME NEW m, NEW D, Ready(m, D), NEW b \in Billings, NEW s \in Students, NEW c \in Courses, NEW i \in Nat \ {0}, NEW at \in Nat,
         i <= m.billing[b].lastIssued + 1,
         IssueInvoice(m, b, s, c, i, at) # Noop => i < MaxInvoices
  PROVE  LET o == FoldOf(m, IssueInvoice(m, b, s, c, i, at).events)
         IN  /\ Does(m, D, IssueInvoice(m, b, s, c, i, at))
             /\ BilledBy(o.subscription[<<s, c>>], b) => o.billing[b].lastIssued + 1 # i
<1> DEFINE starts == m.billing[b].startsAt
           dueAt == DueDateOf(IssueDateOf(starts, i), at)
           e == InvoiceIssued(b, i, m.billing[b].amount, dueAt)
           n == Folded(m, e)
           next == Ask("issue_invoice", <<b, s, c, i + 1>>, IssueDateOf(starts, i + 1))
           overdue == Ask("release_overdue_invoice", <<b, s, c, i>>, dueAt)
           set == <<next, overdue>>
<1>0. /\ m.billing[b].lastIssued \in Nat /\ m.billing[b].amount \in Prices \cup {0} /\ <<s, c>> \in Seats
      /\ starts # None => starts \in Nat
  BY DEF Ready, ModelInv, ModelsType, BillingState, Seats
<1>1. ASSUME BilledBy(m.subscription[<<s, c>>], b), starts # None, ~ (m.billing[b].lastIssued >= i), i < MaxInvoices
      PROVE  /\ Does(m, D, Emit(<<e>>, set))
             /\ n.billing[b].lastIssued = i
  <2>1. i = m.billing[b].lastIssued + 1 /\ <<b, i>> \in Invoices /\ 1 <= i
    BY <1>0, <1>1, EnrolmentAssumption DEF Invoices
  <2>2. IssueDateOf(starts, i) \in Nat /\ IssueDateOf(starts, i + 1) \in Nat /\ dueAt \in Nat
    <3>1. \A x, y \in Nat : x * y \in Nat
      OBVIOUS
    <3>2. i - 1 \in Nat /\ (i + 1) - 1 \in Nat /\ MONTHLY_FEE_PERIOD_DAYS \in Nat /\ INVOICE_DUE_DAYS \in Nat /\ starts \in Nat
      BY <1>0, <1>1, EnrolmentAssumption
    <3>3. (i - 1) * MONTHLY_FEE_PERIOD_DAYS \in Nat /\ ((i + 1) - 1) * MONTHLY_FEE_PERIOD_DAYS \in Nat
      BY <3>1, <3>2
    <3>4. IssueDateOf(starts, i) \in Nat /\ IssueDateOf(starts, i + 1) \in Nat
      BY <3>2, <3>3 DEF IssueDateOf
    <3> QED
      BY <3>2, <3>4 DEF DueDateOf
  <2> HIDE DEF dueAt, starts
  <2>3. AfterIssued(m, n, b, i, m.billing[b].amount, dueAt)
    BY <2>1, OnIssued DEF Ready, ModelInv
  <2>4. ModelInv(n)
    BY <1>0, <1>1, <2>1, <2>2, <2>3, KeepIssued DEF Ready, starts
  <2>5. n.course = m.course /\ n.readiness = m.readiness /\ n.subscription = m.subscription
    BY <2>3 DEF AfterIssued
  <2>6. n.billing[b].lastIssued = i /\ n.billing[b].startsAt = starts /\ \A k \in Billings : k # b => n.billing[k] = m.billing[k]
    <3>1. n.billing = [m.billing EXCEPT ![b].lastIssued = IF i > @ THEN i ELSE @]
      BY <2>3 DEF AfterIssued
    <3>2. b \in DOMAIN m.billing /\ DOMAIN m.billing = Billings
      BY DEF Ready, ModelInv, ModelsType, BillingState
    <3> HIDE DEF n
    <3>3. n.billing[b] = [m.billing[b] EXCEPT !.lastIssued = IF i > @ THEN i ELSE @]
      BY <3>1, <3>2
    <3>4. \A k \in Billings : k # b => n.billing[k] = m.billing[k]
      BY <3>1, <3>2
    <3>5. m.billing[b] \in [amount : Prices \cup {0}, startsAt : Nat \cup {None}, lastIssued : Nat]
      BY DEF Ready, ModelInv, ModelsType, BillingState
    <3>6. n.billing[b].lastIssued = i
      BY <1>0, <2>1, <3>3, <3>5
    <3>7. n.billing[b].startsAt = starts
      BY <3>3, <3>5 DEF starts
    <3> QED
      BY <3>4, <3>6, <3>7
  <2>7. n.invoice[<<b, i>>].dueAt = dueAt /\ \A k \in Invoices : k # <<b, i>> => n.invoice[k] = m.invoice[k]
    <3>1. n.invoice = [m.invoice EXCEPT ![<<b, i>>].issued = TRUE, ![<<b, i>>].amount = m.billing[b].amount, ![<<b, i>>].dueAt = dueAt]
      BY <2>3 DEF AfterIssued
    <3>2. DOMAIN m.invoice = Invoices
      BY DEF Ready, ModelInv, ModelsType, InvoiceState
    <3> HIDE DEF n
    <3>3. \A k \in Invoices : k # <<b, i>> => n.invoice[k] = m.invoice[k]
      BY <3>1, <3>2
    <3>4. n.invoice[<<b, i>>] = [m.invoice[<<b, i>>] EXCEPT !.issued = TRUE, !.amount = m.billing[b].amount, !.dueAt = dueAt]
      BY <2>1, <3>1, <3>2
    <3>5. m.invoice[<<b, i>>] \in [issued : BOOLEAN, amount : Prices \cup {0}, dueAt : Nat, paid : BOOLEAN, overdue : BOOLEAN]
      BY <2>1 DEF Ready, ModelInv, ModelsType, InvoiceState
    <3>6. n.invoice[<<b, i>>].dueAt = dueAt
      BY <3>4, <3>5
    <3> QED
      BY <3>3, <3>6
  <2>8. /\ Len(set) = 2 /\ DOMAIN set = 1 .. 2 /\ set[1] = next /\ set[2] = overdue
        /\ next.command = "issue_invoice" /\ next.input = <<b, s, c, i + 1>> /\ next.dueAt = IssueDateOf(starts, i + 1)
        /\ overdue.command = "release_overdue_invoice" /\ overdue.input = <<b, s, c, i>> /\ overdue.dueAt = dueAt
    BY DEF Ask
  <2>9. Emit(<<e>>, set).events = <<e>> /\ Emit(<<e>>, set).asked = set
    BY DEF Emit
  <2>10. FoldOf(m, Emit(<<e>>, set).events) = n
    BY <2>9, FoldOne
  <2> HIDE DEF n, set, e, next, overdue
  <2>11. LostForAReason(m, n)
    BY <2>5, NothingLost
  <2>12. \A k \in Billings, j \in Nat : j \in 1 .. m.billing[k].lastIssued =>
           n.invoice[<<k, j>>] = m.invoice[<<k, j>>]
    <3> SUFFICES ASSUME NEW k \in Billings, NEW j \in 1 .. m.billing[k].lastIssued PROVE n.invoice[<<k, j>>] = m.invoice[<<k, j>>]
      OBVIOUS
    <3>1. <<k, j>> \in Invoices /\ j \in Nat
      BY InvoiceIn DEF Ready, ModelInv
    <3>2. <<k, j>> # <<b, i>>
      BY <1>0, <2>1, <3>1
    <3> QED
      BY <2>7, <3>1, <3>2
  <2>13. \A k \in Billings : m.billing[k].lastIssued \in Nat /\ m.billing[k].lastIssued <= n.billing[k].lastIssued
    BY <1>0, <2>1, <2>6 DEF Ready, ModelInv, ModelsType, BillingState
  <2>14. \A x \in Seats : BilledBy(m.subscription[x], b) => x = <<s, c>>
    BY <1>0, <1>1 DEF Ready, ModelInv, BillingInv
  <2>15. ASSUME NEW E, D \subseteq E, HasAll(E, set) PROVE WaitsIn(n, E)
    <3>1. WaitsIn(m, E)
      BY <2>15, WaitsWider DEF Ready
    <3>2. /\ HasDue(E, "issue_invoice", <<b, s, c, i + 1>>, IssueDateOf(starts, i + 1))
          /\ HasDue(E, "release_overdue_invoice", <<b, s, c, i>>, dueAt)
      BY <2>8, <2>15 DEF HasAll
    <3>3. CoursesWait(n, E) /\ SeatsWait(n, E)
      BY <2>5, <3>1 DEF WaitsIn, CoursesWait, SeatsWait
    <3>4. InvoicesWait(n, E)
      <4> SUFFICES ASSUME NEW x \in Seats, NEW k \in Billings, BilledBy(n.subscription[x], k)
                   PROVE  /\ HasDue(E, "issue_invoice", <<k, x[1], x[2], n.billing[k].lastIssued + 1>>,
                                    IssueDateOf(n.billing[k].startsAt, n.billing[k].lastIssued + 1))
                          /\ \A j \in 1 .. n.billing[k].lastIssued :
                               \/ n.invoice[<<k, j>>].paid
                               \/ HasDue(E, "release_overdue_invoice", <<k, x[1], x[2], j>>, n.invoice[<<k, j>>].dueAt)
        BY DEF InvoicesWait
      <4>0. BilledBy(m.subscription[x], k)
        BY <2>5
      <4>1. \A j \in 1 .. m.billing[k].lastIssued :
              \/ n.invoice[<<k, j>>].paid
              \/ HasDue(E, "release_overdue_invoice", <<k, x[1], x[2], j>>, n.invoice[<<k, j>>].dueAt)
        <5>1. \A j \in 1 .. m.billing[k].lastIssued : n.invoice[<<k, j>>] = m.invoice[<<k, j>>]
          BY <2>12, <2>13
        <5>2. \A j \in 1 .. m.billing[k].lastIssued :
                \/ m.invoice[<<k, j>>].paid
                \/ HasDue(E, "release_overdue_invoice", <<k, x[1], x[2], j>>, m.invoice[<<k, j>>].dueAt)
          BY <3>1, <4>0 DEF WaitsIn, InvoicesWait
        <5> QED
          BY <5>1, <5>2
      <4>2. CASE k = b
        <5>1. x = <<s, c>> /\ x[1] = s /\ x[2] = c
          BY <2>14, <4>0, <4>2
        <5>2. HasDue(E, "issue_invoice", <<k, x[1], x[2], n.billing[k].lastIssued + 1>>,
                     IssueDateOf(n.billing[k].startsAt, n.billing[k].lastIssued + 1))
          BY <2>6, <3>2, <4>2, <5>1
        <5>3. ASSUME NEW j \in 1 .. n.billing[k].lastIssued
              PROVE  \/ n.invoice[<<k, j>>].paid
                     \/ HasDue(E, "release_overdue_invoice", <<k, x[1], x[2], j>>, n.invoice[<<k, j>>].dueAt)
          <6>1. CASE j = i
            BY <2>7, <3>2, <4>2, <5>1, <6>1
          <6>2. CASE j # i
            <7>1. j \in 1 .. m.billing[k].lastIssued
              BY <1>0, <2>1, <2>6, <4>2, <6>2
            <7> QED
              BY <4>1, <7>1
          <6> QED
            BY <6>1, <6>2
        <5> QED
          BY <5>2, <5>3
      <4>3. CASE k # b
        BY <2>6, <3>1, <4>0, <4>1, <4>3 DEF WaitsIn, InvoicesWait
      <4> QED
        BY <4>2, <4>3
    <3> QED
      BY <3>3, <3>4 DEF WaitsIn
  <2>16. ASSUME NEW d, IsDeadline(m, d) PROVE IsDeadline(n, d)
    <3>1. \A k \in Billings, j \in Nat \ {0} : j <= m.billing[k].lastIssued => n.invoice[<<k, j>>].dueAt = m.invoice[<<k, j>>].dueAt
      BY <2>12, <2>13
    <3>2. \A k \in Billings : n.billing[k].lastIssued \in Nat
      BY <2>4 DEF ModelInv, ModelsType, BillingState
    <3> QED
      BY <2>13, <2>16, <3>1, <3>2 DEF IsDeadline
  <2>17. \A j \in DOMAIN set : IsDeadline(n, set[j]) /\ set[j].dueAt \in Nat
    <3>1. IsDeadline(n, next)
      <4>1. <<b, s, c, i + 1>> \in Billings \X Students \X Courses \X (Nat \ {0})
        OBVIOUS
      <4> QED
        BY <2>6, <2>8, <4>1 DEF IsDeadline
    <3>2. IsDeadline(n, overdue)
      <4>1. <<b, s, c, i>> \in Billings \X Students \X Courses \X (Nat \ {0})
        OBVIOUS
      <4> QED
        BY <2>6, <2>7, <2>8, <4>1 DEF IsDeadline
    <3> QED
      BY <2>2, <2>8, <3>1, <3>2
  <2>18. \A k \in Billings : 2 * n.billing[k].lastIssued <= 2 * m.billing[k].lastIssued + 2
    BY <1>0, <2>1, <2>6, <2>13
  <2>19. Goes(m, n, D, set)
    BY <2>4, <2>8, <2>11, <2>15, <2>16, <2>17, <2>18 DEF Goes
  <2> QED
    BY <2>6, <2>9, <2>10, <2>19 DEF Does
<1>2. /\ FoldOf(m, Emit(<<e>>, set).events) = n /\ FoldOf(m, Noop.events) = m
      /\ Emit(<<e>>, set) # Noop
  BY FoldOne, FoldNone DEF Emit, Noop
<1>3. CASE ~ BilledBy(m.subscription[<<s, c>>], b) \/ starts = None \/ m.billing[b].lastIssued >= i
  <2>1. IssueInvoice(m, b, s, c, i, at) = Noop
    BY <1>3 DEF IssueInvoice
  <2>2. BilledBy(m.subscription[<<s, c>>], b) => starts # None
    BY <1>0 DEF Ready, ModelInv, BillingInv
  <2>3. BilledBy(m.subscription[<<s, c>>], b) => m.billing[b].lastIssued + 1 # i
    BY <1>0, <1>3, <2>2
  <2> QED
    BY <1>2, <2>1, <2>3, DoesNothing
<1>4. CASE ~ (~ BilledBy(m.subscription[<<s, c>>], b) \/ starts = None \/ m.billing[b].lastIssued >= i)
  <2>1. IssueInvoice(m, b, s, c, i, at) = Emit(<<e>>, set)
    BY <1>4 DEF IssueInvoice
  <2>2. i < MaxInvoices
    BY <1>2, <2>1
  <2>3. Does(m, D, Emit(<<e>>, set)) /\ n.billing[b].lastIssued = i
    BY <1>1, <1>4, <2>2
  <2> QED
    BY <1>2, <2>1, <2>3
<1> QED
  BY <1>3, <1>4

-----------------------------------------------------------------------------
(* A deadline that fired when it was due is not waited for any more.       *)
Settles(n, d) ==
  LET x == d.input IN
  /\ d.command = "cancel_unready_course" => n.readiness[x].status # "waiting"
  /\ d.command = "release_unpaid_subscription" =>
       (n.subscription[x].status = "subscribed" => d.dueAt # n.subscription[x].windowClosesAt)
  /\ d.command = "issue_invoice" =>
       (BilledBy(n.subscription[<<x[2], x[3]>>], x[1]) => x[4] # n.billing[x[1]].lastIssued + 1)
  /\ d.command = "release_overdue_invoice" =>
       (BilledBy(n.subscription[<<x[2], x[3]>>], x[1]) => n.invoice[<<x[1], x[4]>>].paid)

LEMMA WaitsForOthers ==
  ASSUME NEW n, NEW D, NEW d, WaitsIn(n, D), Settles(n, d)
  PROVE  WaitsIn(n, D \ {d})
<1>1. CoursesWait(n, D \ {d})
  BY DEF WaitsIn, CoursesWait, Has, Settles
<1>2. SeatsWait(n, D \ {d})
  BY DEF WaitsIn, SeatsWait, HasDue, Settles
<1>3. ASSUME NEW x \in Seats, NEW b \in Billings, BilledBy(n.subscription[x], b)
      PROVE  /\ HasDue(D \ {d}, "issue_invoice", <<b, x[1], x[2], n.billing[b].lastIssued + 1>>,
                       IssueDateOf(n.billing[b].startsAt, n.billing[b].lastIssued + 1))
             /\ \A i \in 1 .. n.billing[b].lastIssued :
                  \/ n.invoice[<<b, i>>].paid
                  \/ HasDue(D \ {d}, "release_overdue_invoice", <<b, x[1], x[2], i>>, n.invoice[<<b, i>>].dueAt)
  <2>1. x = <<x[1], x[2]>>
    BY SeatIsPair
  <2>2. \A i : LET y == <<b, x[1], x[2], i>> IN y[1] = b /\ <<y[2], y[3]>> = x /\ y[4] = i
    BY <2>1
  <2>3. d.command = "issue_invoice" => d.input # <<b, x[1], x[2], n.billing[b].lastIssued + 1>>
    BY <1>3, <2>2 DEF Settles
  <2>4. \A i : d.command = "release_overdue_invoice" /\ ~ n.invoice[<<b, i>>].paid => d.input # <<b, x[1], x[2], i>>
    BY <1>3, <2>2 DEF Settles
  <2>5. HasDue(D \ {d}, "issue_invoice", <<b, x[1], x[2], n.billing[b].lastIssued + 1>>,
               IssueDateOf(n.billing[b].startsAt, n.billing[b].lastIssued + 1))
    <3>1. HasDue(D, "issue_invoice", <<b, x[1], x[2], n.billing[b].lastIssued + 1>>,
                 IssueDateOf(n.billing[b].startsAt, n.billing[b].lastIssued + 1))
      BY <1>3 DEF WaitsIn, InvoicesWait
    <3> QED
      BY <2>3, <3>1 DEF HasDue
  <2>6. ASSUME NEW i \in 1 .. n.billing[b].lastIssued, ~ n.invoice[<<b, i>>].paid
        PROVE  HasDue(D \ {d}, "release_overdue_invoice", <<b, x[1], x[2], i>>, n.invoice[<<b, i>>].dueAt)
    <3>1. HasDue(D, "release_overdue_invoice", <<b, x[1], x[2], i>>, n.invoice[<<b, i>>].dueAt)
      BY <1>3, <2>6 DEF WaitsIn, InvoicesWait
    <3> QED
      BY <2>4, <2>6, <3>1 DEF HasDue
  <2> QED
    BY <2>5, <2>6
<1> QED
  BY <1>1, <1>2, <1>3 DEF WaitsIn, InvoicesWait

HasRoom(m, set) == \A b \in Billings : 2 * m.billing[b].lastIssued + Len(set) < 2 * MaxInvoices

LEMMA IssueHasRoom ==
  ASSUME NEW m, ModelsType(m), NEW b \in Billings, NEW s, NEW c, NEW i \in Nat \ {0}, NEW at, i <= m.billing[b].lastIssued + 1,
         HasRoom(m, IssueInvoice(m, b, s, c, i, at).asked), IssueInvoice(m, b, s, c, i, at) # Noop
  PROVE  i < MaxInvoices
<1>1. \A x, y : Len(<<x, y>>) = 2
  OBVIOUS
<1>2. Len(IssueInvoice(m, b, s, c, i, at).asked) = 2
  BY <1>1 DEF IssueInvoice, Emit
<1>3. m.billing[b].lastIssued \in Nat /\ MaxInvoices \in Nat
  BY EnrolmentAssumption DEF ModelsType, BillingState
<1>4. 2 * m.billing[b].lastIssued + 2 < 2 * MaxInvoices
  BY <1>2 DEF HasRoom
<1> QED
  BY <1>3, <1>4

LEMMA RunDoes ==
  ASSUME NEW m, NEW D, Ready(m, D), NEW d, IsDeadline(m, d), NEW q \in Pods, Clock(q) \in Nat, d.dueAt \in Nat, d.dueAt <= Clock(q),
         HasRoom(m, RunDeadline(m, d, Clock(q)).asked)
  PROVE  /\ Does(m, D, RunDeadline(m, d, Clock(q)))
         /\ Settles(FoldOf(m, RunDeadline(m, d, Clock(q)).events), d)
<1> DEFINE x == d.input
           decision == RunDeadline(m, d, Clock(q))
           n == FoldOf(m, decision.events)
<1>1. CASE d.command = "cancel_unready_course" /\ x \in Courses
  <2>1. decision = CancelUnreadyCourse(m, x)
    BY <1>1 DEF RunDeadline
  <2>2. Does(m, D, CancelUnreadyCourse(m, x)) /\ FoldOf(m, CancelUnreadyCourse(m, x).events).readiness[x].status # "waiting"
    BY <1>1, CancelDoes
  <2>3. n.readiness[x].status # "waiting"
    BY <2>1, <2>2
  <2> HIDE DEF n
  <2>4. Settles(n, d)
    BY <1>1, <2>3 DEF Settles
  <2> QED
    BY <2>1, <2>2, <2>4 DEF n
<1>2. CASE d.command = "release_unpaid_subscription" /\ x \in Seats
  <2>1. decision = ReleaseUnpaidSubscription(m, x[1], x[2], Clock(q)) /\ x[1] \in Students /\ x[2] \in Courses /\ x = <<x[1], x[2]>>
    BY <1>2, SeatIsPair DEF RunDeadline
  <2> DEFINE s == x[1]
             c == x[2]
  <2>2. s \in Students /\ c \in Courses /\ x = <<s, c>>
    BY <2>1
  <2> HIDE DEF s, c
  <2>3. LET o == FoldOf(m, ReleaseUnpaidSubscription(m, s, c, Clock(q)).events)
        IN  /\ Does(m, D, ReleaseUnpaidSubscription(m, s, c, Clock(q)))
            /\ o.subscription[<<s, c>>].status = "subscribed" => Clock(q) < o.subscription[<<s, c>>].windowClosesAt
    BY <2>2, ReleaseDoes
  <2>4. decision = ReleaseUnpaidSubscription(m, s, c, Clock(q))
    BY <2>1 DEF s, c
  <2>5. Does(m, D, decision) /\ ModelInv(n)
    BY <2>3, <2>4 DEF Does, Goes
  <2>6. n.subscription[x].status = "subscribed" => Clock(q) < n.subscription[x].windowClosesAt
    BY <2>2, <2>3, <2>4
  <2>7. n.subscription[x].windowClosesAt \in Nat
    BY <1>2, <2>5 DEF ModelInv, ModelsType, SubscriptionState
  <2> HIDE DEF n, decision
  <2>8. Settles(n, d)
    BY <1>2, <2>6, <2>7 DEF Settles
  <2> QED
    BY <2>5, <2>8 DEF n, decision
<1>3. CASE /\ x \in Billings \X Students \X Courses \X (Nat \ {0})
           /\ \/ d.command = "issue_invoice" /\ x[4] <= m.billing[x[1]].lastIssued + 1
              \/ /\ d.command = "release_overdue_invoice" /\ x[4] <= m.billing[x[1]].lastIssued
                 /\ d.dueAt = m.invoice[<<x[1], x[4]>>].dueAt
  <2> DEFINE b == x[1]
             s == x[2]
             c == x[3]
             i == x[4]
  <2>1. b \in Billings /\ s \in Students /\ c \in Courses /\ i \in Nat \ {0} /\ m.billing[b].lastIssued \in Nat
    BY <1>3 DEF Ready, ModelInv, ModelsType, BillingState
  <2>2. CASE d.command = "issue_invoice" /\ i <= m.billing[b].lastIssued + 1
    <3>1. decision = IssueInvoice(m, b, s, c, i, Clock(q))
      BY <2>2 DEF RunDeadline
    <3> HIDE DEF b, s, c, i
    <3>2. HasRoom(m, IssueInvoice(m, b, s, c, i, Clock(q)).asked)
      BY <3>1
    <3>3. IssueInvoice(m, b, s, c, i, Clock(q)) # Noop => i < MaxInvoices
      BY <2>1, <2>2, <3>2, IssueHasRoom DEF Ready, ModelInv
    <3>4. LET o == FoldOf(m, IssueInvoice(m, b, s, c, i, Clock(q)).events)
          IN  /\ Does(m, D, IssueInvoice(m, b, s, c, i, Clock(q)))
              /\ BilledBy(o.subscription[<<s, c>>], b) => o.billing[b].lastIssued + 1 # i
      BY <2>1, <2>2, <3>3, IssueDoes
    <3>5. Does(m, D, decision) /\ (BilledBy(n.subscription[<<s, c>>], b) => n.billing[b].lastIssued + 1 # i)
      BY <3>1, <3>4
    <3> HIDE DEF n, decision
    <3>6. Settles(n, d)
      BY <2>2, <3>5 DEF Settles, b, s, c, i
    <3> QED
      BY <3>5, <3>6 DEF n, decision
  <2>3. CASE d.command = "release_overdue_invoice" /\ i <= m.billing[b].lastIssued /\ d.dueAt = m.invoice[<<b, i>>].dueAt
    <3>1. decision = ReleaseOverdueInvoice(m, b, s, c, i)
      BY <2>3 DEF RunDeadline
    <3> HIDE DEF b, s, c, i
    <3>2. i \in 1 .. m.billing[b].lastIssued /\ m.invoice[<<b, i>>].dueAt <= Clock(q)
      BY <2>1, <2>3
    <3>3. LET o == FoldOf(m, ReleaseOverdueInvoice(m, b, s, c, i).events)
          IN  /\ Does(m, D, ReleaseOverdueInvoice(m, b, s, c, i))
              /\ BilledBy(o.subscription[<<s, c>>], b) => o.invoice[<<b, i>>].paid
      BY <2>1, <3>2, ReleaseOverdueDoes
    <3>4. Does(m, D, decision) /\ (BilledBy(n.subscription[<<s, c>>], b) => n.invoice[<<b, i>>].paid)
      BY <3>1, <3>3
    <3> HIDE DEF n, decision
    <3>5. Settles(n, d)
      BY <2>3, <3>4 DEF Settles, b, s, c, i
    <3> QED
      BY <3>4, <3>5 DEF n, decision
  <2> QED
    BY <1>3, <2>2, <2>3
<1> QED
  BY <1>1, <1>2, <1>3 DEF IsDeadline

-----------------------------------------------------------------------------
(* The deadline a pod is firing is one of those it fetched.                *)
LEMMA LeastNat == ASSUME NEW S \in SUBSET Nat, S # {} PROVE \E k \in S : \A j \in S : k <= j
<1>1. OpToRel(<, Nat) = {ss \in Nat \X Nat : ss[1] < ss[2]}
  BY Zenon DEF OpToRel
<1>2. IsWellFoundedOn({ss \in Nat \X Nat : ss[1] < ss[2]}, Nat)
  BY <1>1, NatLessThanWellFounded, Zenon
<1>3. PICK k \in S : \A j \in S : ~ (<<j, k>> \in {ss \in Nat \X Nat : ss[1] < ss[2]})
  BY <1>2, WFMin, Zenon
<1>4. ASSUME NEW j \in S PROVE k <= j
  <2>1. ASSUME j < k PROVE <<j, k>> \in {ss \in Nat \X Nat : ss[1] < ss[2]}
    BY <2>1
  <2> QED
    BY <1>3, <2>1
<1> QED
  BY <1>4

LEMMA OldestIs ==
  ASSUME NEW B, B # {}, \A d \in B : d.position \in Nat /\ d.dueAt \in Nat, \A d, e \in B : d.position = e.position => d = e
  PROVE  \E d \in B : \A e \in B \ {d} : DueBefore(d, e)
<1>1. PICK at \in {d.dueAt : d \in B} : \A k \in {d.dueAt : d \in B} : at <= k
  <2>1. {d.dueAt : d \in B} \in SUBSET Nat /\ {d.dueAt : d \in B} # {}
    OBVIOUS
  <2> QED
    BY <2>1, LeastNat
<1> DEFINE A == {d \in B : d.dueAt = at}
<1>2. PICK position \in {d.position : d \in A} : \A k \in {d.position : d \in A} : position <= k
  <2>1. {d.position : d \in A} \in SUBSET Nat /\ {d.position : d \in A} # {}
    BY <1>1
  <2> HIDE DEF A
  <2> QED
    BY <2>1, LeastNat
<1>3. PICK d \in A : d.position = position
  BY <1>2
<1>4. ASSUME NEW e \in B \ {d} PROVE DueBefore(d, e)
  <2>1. at <= e.dueAt /\ d.dueAt = at /\ d \in B
    BY <1>1, <1>3
  <2>2. e.dueAt = at => d.position <= e.position
    BY <1>2, <1>3
  <2>3. d.position # e.position
    BY <2>1
  <2> QED
    BY <2>1, <2>2, <2>3 DEF DueBefore
<1> QED
  BY <1>3, <1>4

LEMMA CurrentIs == ASSUME DeadlinesInv, NEW p \in Pods, batch[p] # {} PROVE Current(p) \in batch[p]
<1>1. batch[p] \subseteq Rows /\ \A d \in batch[p] : d.position \in Nat /\ d.dueAt \in Nat
  BY DEF DeadlinesInv, DeadlinesTypeOK, Rows
<1>2. \A d, e \in batch[p] : d.position = e.position => d = e
  BY <1>1 DEF DeadlinesInv
<1>3. \E d \in batch[p] : \A e \in batch[p] \ {d} : DueBefore(d, e)
  BY <1>1, <1>2, OldestIs
<1> QED
  BY <1>3 DEF Current

-----------------------------------------------------------------------------
(* What the invariant says of the clocks and of the room that is left.     *)
LEMMA ClockIsNat == ASSUME DeadlinesInv PROVE \A p \in Pods : Clock(p) \in Nat
<1>1. now \in Nat
  BY DeadlinesAssumption DEF DeadlinesInv, DeadlinesTypeOK
<1> QED
  BY <1>1, DeadlinesAssumption DEF Clock

LEMMA RoomIsLeft ==
  ASSUME DeadlinesInv, ModelsType(models), NEW set, Len(set) \in Nat, last + Len(set) <= MaxDeadlines
  PROVE  HasRoom(models, set) /\ Bounded(models)
<1>1. last \in Nat /\ MaxDeadlines \in Nat /\ MaxInvoices \in Nat /\ MaxDeadlines < 2 * MaxInvoices
  BY DeadlinesAssumption, EnrolmentAssumption, CourseAssumption DEF DeadlinesInv, DeadlinesTypeOK
<1>2. ASSUME NEW b \in Billings
      PROVE  2 * models.billing[b].lastIssued + Len(set) < 2 * MaxInvoices /\ models.billing[b].lastIssued < MaxInvoices
  <2>1. models.billing[b].lastIssued \in Nat /\ 2 * models.billing[b].lastIssued <= last
    BY DEF ModelsType, BillingState, DeadlinesInv
  <2> QED
    BY <1>1, <2>1
<1> QED
  BY <1>2 DEF HasRoom, Bounded

LEMMA IsReady == ASSUME IInv PROVE Ready(models, Open)
<1>1. last + Len(<<>>) <= MaxDeadlines /\ Len(<<>>) \in Nat
  BY DeadlinesAssumption DEF IInv, DeadlinesInv, DeadlinesTypeOK
<1>2. Bounded(models)
  BY <1>1, RoomIsLeft DEF IInv, ModelInv
<1> QED
  BY <1>2 DEF Ready, IInv

-----------------------------------------------------------------------------
(* A decision is stored, whoever made it.                                  *)
NewRows(decision) == {Row(last + i, decision.asked[i]) : i \in 1 .. Len(decision.asked)}

LEMMA Stores ==
  ASSUME IInv, NEW decision, Does(models, Open, decision), Stored(decision), UNCHANGED <<now, fired, leader, batch, status, errors, faults>>,
         ran' \in [Pods -> Outcomes \cup {"not_run"}], \A p \in Pods : ran'[p] # "not_run" => batch[p] # {}
  PROVE  /\ ModelInv(models)' /\ DeadlinesInv' /\ FiredOnce' /\ LostForAReason(models, models')
         /\ deadlines' = deadlines \cup NewRows(decision) /\ \A d \in NewRows(decision) : d \notin Rows
         /\ WaitsIn(models', Open \cup NewRows(decision))
<1> DEFINE set == decision.asked
           New == NewRows(decision)
<1>1. models' = FoldOf(models, decision.events) /\ Goes(models, models', Open, set)
  BY DEF Stored, FoldOf, Does
<1>2. /\ Len(set) \in Nat /\ DOMAIN set = 1 .. Len(set)
      /\ last + Len(set) <= MaxDeadlines /\ last' = last + Len(set) /\ deadlines' = deadlines \cup New
  BY <1>1 DEF Goes, Stored, Schedule, NewRows
<1>3. last \in Nat /\ MaxDeadlines \in Nat
  BY DeadlinesAssumption DEF IInv, DeadlinesInv, DeadlinesTypeOK
<1>4. \A i \in 1 .. Len(set) : /\ IsDeadline(models', set[i]) /\ set[i].dueAt \in Nat
  BY <1>1, <1>2 DEF Goes
<1>5. \A i : LET d == Row(last + i, set[i]) IN
        d.position = last + i /\ d.command = set[i].command /\ d.input = set[i].input /\ d.dueAt = set[i].dueAt
  BY DEF Row
<1>6. \A d \in New : \E i \in 1 .. Len(set) : d = Row(last + i, set[i])
  BY DEF NewRows
<1> HIDE DEF New, set
<1>7. \A d \in New : d.position \in last + 1 .. last' /\ d.dueAt \in Nat /\ IsDeadline(models', d)
  <2> SUFFICES ASSUME NEW i \in 1 .. Len(set), NEW d, d = Row(last + i, set[i])
               PROVE  d.position \in last + 1 .. last' /\ d.dueAt \in Nat /\ IsDeadline(models', d)
    BY <1>6
  <2>1. d.position = last + i /\ d.dueAt \in Nat
    BY <1>4, <1>5
  <2>2. IsDeadline(models', d)
    BY <1>4, <1>5 DEF IsDeadline
  <2> QED
    BY <1>2, <1>3, <2>1, <2>2
<1>8. \A d, e \in New : d.position = e.position => d = e
  <2> SUFFICES ASSUME NEW i \in 1 .. Len(set), NEW j \in 1 .. Len(set), last + i = last + j PROVE i = j
    BY <1>5, <1>6
  <2> QED
    BY <1>2, <1>3
<1>9. \A d \in Rows : d.position \in 1 .. last
  BY DEF Rows, IInv, DeadlinesInv, DeadlinesTypeOK
<1>10. \A d \in New : d \notin Rows
  BY <1>3, <1>7, <1>9
<1>11. Rows' = Rows \cup New
  BY <1>2 DEF Rows
<1>12. \A p \in Pods : Clock(p)' = Clock(p)
  BY DEF Clock
<1>13. DeadlinesInv'
  <2>1. DeadlinesTypeOK'
    <3>1. last' \in 0 .. MaxDeadlines
      BY <1>2, <1>3
    <3>2. \A d \in deadlines' : d.position \in 1 .. last' /\ d.dueAt \in Nat
      BY <1>2, <1>3, <1>7 DEF IInv, DeadlinesInv, DeadlinesTypeOK
    <3> QED
      BY <3>1, <3>2 DEF IInv, DeadlinesInv, DeadlinesTypeOK
  <2>2. \A d, e \in Rows' : d.position = e.position => d = e
    <3>1. \A d, e \in Rows : d.position = e.position => d = e
      BY DEF IInv, DeadlinesInv
    <3>2. \A d \in Rows, e \in New : d.position # e.position
      BY <1>2, <1>3, <1>7, <1>9
    <3> QED
      BY <1>8, <1>11, <3>1, <3>2
  <2>3. \A d \in Rows' : IsDeadline(models', d)
    BY <1>1, <1>7, <1>11 DEF Goes, IInv, DeadlinesInv
  <2>4. \A p \in Pods : \A d \in batch'[p] : d.position \in 1 .. last' /\ d.dueAt \in Nat /\ d.dueAt <= Clock(p)'
    BY <1>2, <1>3, <1>12 DEF IInv, DeadlinesInv
  <2>5. \A b \in Billings : 2 * models'.billing[b].lastIssued <= last'
    <3> SUFFICES ASSUME NEW b \in Billings PROVE 2 * models'.billing[b].lastIssued <= last'
      OBVIOUS
    <3>1. /\ 2 * models'.billing[b].lastIssued <= 2 * models.billing[b].lastIssued + Len(set)
          /\ models'.billing[b].lastIssued \in Nat
      BY <1>1 DEF Goes, ModelInv, ModelsType, BillingState
    <3>2. 2 * models.billing[b].lastIssued <= last /\ models.billing[b].lastIssued \in Nat
      BY DEF IInv, DeadlinesInv, ModelInv, ModelsType, BillingState
    <3>3. \A x, y, n : x <= 2 * y + n /\ 2 * y <= last /\ y \in Nat /\ n \in Nat /\ x \in Int => x <= last + n
      BY <1>3
    <3>4. 2 * models'.billing[b].lastIssued \in Int
      BY <3>1
    <3> QED
      BY <1>2, <3>1, <3>2, <3>3, <3>4
  <2>6. (batch = [p \in Pods |-> batch[p]])'
    BY DEF IInv, DeadlinesInv
  <2> QED
    BY <2>1, <2>2, <2>3, <2>4, <2>5, <2>6 DEF DeadlinesInv
<1>14. FiredOnce'
  <2> SUFFICES ASSUME NEW n \in 1 .. MaxDeadlines
               PROVE  (n \in {d.position : d \in deadlines'} \/ n > last') <=> (n \in {d.position : d \in deadlines} \/ n > last)
    BY DEF IInv, FiredOnce
  <2>1. ASSUME n > last, ~ (n > last') PROVE n \in {d.position : d \in deadlines'}
    <3>1. n - last \in 1 .. Len(set) /\ last + (n - last) = n
      BY <1>2, <1>3, <2>1
    <3>2. Row(last + (n - last), set[n - last]) \in New
      BY <3>1 DEF New, NewRows, set
    <3> QED
      BY <1>2, <1>5, <3>1, <3>2
  <2>2. ASSUME NEW d \in New, n = d.position PROVE n > last
    BY <1>2, <1>3, <1>7, <2>2
  <2>3. n > last' => n > last
    BY <1>2, <1>3
  <2> QED
    BY <1>2, <2>1, <2>2, <2>3
<1>15. WaitsIn(models', Open \cup New)
  <2>1. HasAll(Open \cup New, set)
    <3> SUFFICES ASSUME NEW i \in 1 .. Len(set) PROVE HasDue(Open \cup New, set[i].command, set[i].input, set[i].dueAt)
      BY <1>2 DEF HasAll
    <3>1. Row(last + i, set[i]) \in New
      BY DEF New, NewRows, set
    <3> QED
      BY <1>5, <3>1 DEF HasDue
  <2> QED
    BY <1>1, <2>1 DEF Goes
<1> QED
  BY <1>1, <1>2, <1>10, <1>13, <1>14, <1>15 DEF Goes, New

-----------------------------------------------------------------------------
(* Each step keeps the invariant.  Which deadlines are open after one that *)
(* moves no pod's batch.                                                   *)
LEMMA OpenStays ==
  ASSUME IInv, NEW New, deadlines' = deadlines \cup New, \A d \in New : d \notin Rows, UNCHANGED batch,
         NEW Gone, \A p \in Pods : ran'[p] # "not_run" => ran[p] # "not_run" \/ Gone = {Current(p)},
         \A p \in Pods : ran'[p] # "not_run" => batch[p] # {}
  PROVE  (Open \cup New) \ Gone \subseteq Open'
<1> SUFFICES ASSUME NEW d \in (Open \cup New) \ Gone, NEW p \in Pods, ran'[p] # "not_run" PROVE d \in deadlines' /\ d # Current(p)
  BY DEF Open, Current
<1>1. d \in deadlines'
  BY DEF Open
<1>2. Current(p) \in Rows
  BY CurrentIs DEF IInv, Rows
<1> QED
  BY <1>1, <1>2 DEF Open

LEMMA AppendsKeep ==
  ASSUME IInv, NEW decision, Does(models, Open, decision), Stored(decision), UNCHANGED <<now, fired, processorVars>>, AskedInv'
  PROVE  IInv' /\ LostForAReason(models, models')
<1>1. ran' \in [Pods -> Outcomes \cup {"not_run"}] /\ \A p \in Pods : ran'[p] # "not_run" => batch[p] # {}
  BY DEF processorVars, IInv, DeadlinesInv, DeadlinesTypeOK
<1>2. /\ ModelInv(models)' /\ DeadlinesInv' /\ FiredOnce' /\ LostForAReason(models, models')
      /\ deadlines' = deadlines \cup NewRows(decision) /\ \A d \in NewRows(decision) : d \notin Rows
      /\ WaitsIn(models', Open \cup NewRows(decision))
  BY <1>1, Stores DEF processorVars
<1>3. (Open \cup NewRows(decision)) \ {} \subseteq Open'
  BY <1>1, <1>2, OpenStays DEF processorVars
<1>4. WaitsIn(models', Open')
  BY <1>2, <1>3, WaitsWider
<1> QED
  BY <1>2, <1>4 DEF IInv

(* What the automations are asked is of the kinds they know. *)
Asks(events) == UNION {Requests(e) : e \in ToSet(events)} \subseteq {"confirm_course"} \X Courses \cup {"send_receipt"} \X Payments

LEMMA AsksNone == Asks(<<>>)
BY DEF Asks, ToSet

LEMMA AsksOne ==
  ASSUME NEW e, Requests(e) \subseteq {"confirm_course"} \X Courses \cup {"send_receipt"} \X Payments
  PROVE  Asks(<<e>>)
<1>1. ToSet(<<e>>) = {e}
  BY DEF ToSet
<1> QED
  BY <1>1 DEF Asks

LEMMA AsksTwo == ASSUME NEW e, NEW f, Requests(e) = {}, Requests(f) = {} PROVE Asks(<<e, f>>)
<1>1. ToSet(<<e, f>>) = {e, f}
  BY DEF ToSet
<1> QED
  BY <1>1 DEF Asks

LEMMA RequestsOf ==
  /\ \A e : e.type \notin {"TeacherAssigned", "RoomBooked", "StudentSubscribed", "SubscriptionPaid"} => Requests(e) = {}
  /\ \A e : /\ e.type \in {"TeacherAssigned", "RoomBooked", "StudentSubscribed"} /\ e.data.course \in Courses
            => Requests(e) \subseteq {"confirm_course"} \X Courses
  /\ \A e : e.type = "SubscriptionPaid" /\ e.data.payment \in Payments => Requests(e) \subseteq {"send_receipt"} \X Payments
BY DEF Requests, ConfirmCourseWhenReady, ReceiptOnPayment

LEMMA NoopAsks == Asks(Noop.events) /\ Asks(Fail.events)
BY AsksNone DEF Noop, Fail

LEMMA EmitsOne ==
  ASSUME NEW e, NEW set, Requests(e) \subseteq {"confirm_course"} \X Courses \cup {"send_receipt"} \X Payments
  PROVE  Asks(Emit(<<e>>, set).events)
BY AsksOne DEF Emit

LEMMA EmitsTwo == ASSUME NEW e, NEW f, NEW set, Requests(e) = {}, Requests(f) = {} PROVE Asks(Emit(<<e, f>>, set).events)
BY AsksTwo DEF Emit

LEMMA ClientsAsk ==
  ASSUME NEW m, NEW s, NEW c, NEW b, NEW i, NEW y, NEW amount, NEW at
  PROVE  /\ Asks(DefineCourse(m, c, amount, at).events)
         /\ c \in Courses => Asks(Subscribe(m, s, c, at).events)
         /\ Asks(PriceCourse(m, c, amount).events)
         /\ y \in Payments => Asks(PaySubscription(m, s, c, y, amount, at).events)
         /\ Asks(StartMonthlyFee(m, b, s, c, at).events) /\ Asks(StopMonthlyFee(m, b, s, c).events)
         /\ Asks(PayInvoice(m, b, i, y, amount, at).events)
         /\ c \in Courses => \A e \in {TeacherAssigned(c), RoomBooked(c)} : Asks(Emit(<<e>>, <<>>).events)
<1>1. Asks(DefineCourse(m, c, amount, at).events)
  <2>1. Requests(CourseDefined(c, amount)) = {}
    BY RequestsOf DEF CourseDefined, Event
  <2> QED
    BY <2>1, EmitsOne, NoopAsks, Zenon DEF DefineCourse
<1>2. ASSUME c \in Courses PROVE Asks(Subscribe(m, s, c, at).events)
  <2>1. Requests(StudentSubscribed(s, c, at)) \subseteq {"confirm_course"} \X Courses \cup {"send_receipt"} \X Payments
    <3>1. StudentSubscribed(s, c, at).type = "StudentSubscribed" /\ StudentSubscribed(s, c, at).data.course = c
      BY DEF StudentSubscribed, Event
    <3> QED
      BY <1>2, <3>1, RequestsOf
  <2> QED
    BY <2>1, EmitsOne, NoopAsks, Zenon DEF Subscribe
<1>3. Asks(PriceCourse(m, c, amount).events)
  <2>1. Requests(CoursePriced(c, amount)) = {}
    BY RequestsOf DEF CoursePriced, Event
  <2> QED
    BY <2>1, EmitsOne, NoopAsks, Zenon DEF PriceCourse
<1>4. ASSUME y \in Payments PROVE Asks(PaySubscription(m, s, c, y, amount, at).events)
  <2>1. Requests(SubscriptionPaid(s, c, y, amount)) \subseteq {"confirm_course"} \X Courses \cup {"send_receipt"} \X Payments
    <3>1. SubscriptionPaid(s, c, y, amount).type = "SubscriptionPaid" /\ SubscriptionPaid(s, c, y, amount).data.payment = y
      BY DEF SubscriptionPaid, Event
    <3> QED
      BY <1>4, <3>1, RequestsOf
  <2> QED
    BY <2>1, EmitsOne, NoopAsks, Zenon DEF PaySubscription
<1>5. Asks(StartMonthlyFee(m, b, s, c, at).events)
  <2>1. Requests(BillingStarted(b, s, c, m.pricing[c], at)) = {}
    BY RequestsOf DEF BillingStarted, Event
  <2> QED
    BY <2>1, EmitsOne, NoopAsks, Zenon DEF StartMonthlyFee
<1>6. Asks(StopMonthlyFee(m, b, s, c).events)
  <2>1. Requests(BillingStopped(b)) = {} /\ Requests(SubscriptionReleased(s, c)) = {}
    BY RequestsOf DEF BillingStopped, SubscriptionReleased, Event
  <2> QED
    BY <2>1, EmitsTwo, NoopAsks, Zenon DEF StopMonthlyFee
<1>7. Asks(PayInvoice(m, b, i, y, amount, at).events)
  <2>1. Requests(InvoicePaid(b, i, y)) = {}
    BY RequestsOf DEF InvoicePaid, Event
  <2> QED
    BY <2>1, EmitsOne, NoopAsks, Zenon DEF PayInvoice
<1>8. ASSUME c \in Courses, NEW e \in {TeacherAssigned(c), RoomBooked(c)} PROVE Asks(Emit(<<e>>, <<>>).events)
  <2>1. e.type \in {"TeacherAssigned", "RoomBooked"} /\ e.data.course = c
    BY DEF TeacherAssigned, RoomBooked, Event
  <2> QED
    BY <1>8, <2>1, EmitsOne, RequestsOf
<1> QED
  BY <1>1, <1>2, <1>3, <1>4, <1>5, <1>6, <1>7, <1>8

LEMMA DeadlinesAsk ==
  ASSUME NEW m, NEW d, IsDeadline(m, d), NEW at
  PROVE  /\ Asks(RunDeadline(m, d, at).events) /\ Len(RunDeadline(m, d, at).asked) \in Nat
         /\ RunDeadline(m, d, at).outcome \in Outcomes
<1>1. Noop.outcome \in Outcomes /\ Len(Noop.asked) \in Nat
  BY DEF Noop, Outcomes
<1>2. \A events : Emit(events, <<>>).outcome \in Outcomes /\ Len(Emit(events, <<>>).asked) \in Nat
  BY DEF Emit, Outcomes
<1>3. \A events, x, y : Emit(events, <<x, y>>).outcome \in Outcomes /\ Len(Emit(events, <<x, y>>).asked) \in Nat
  BY DEF Emit, Outcomes
<1>4. \A b, n, amount, dueAt : Requests(InvoiceIssued(b, n, amount, dueAt)) = {}
  BY RequestsOf DEF InvoiceIssued, Event
<1>5. \A b, n : Requests(InvoiceOverdue(b, n)) = {}
  BY RequestsOf DEF InvoiceOverdue, Event
<1>6. \A s, c : Requests(SubscriptionReleased(s, c)) = {}
  BY RequestsOf DEF SubscriptionReleased, Event
<1>7. \A c, students : Requests(CourseCancelled(c, students)) = {}
  BY RequestsOf DEF CourseCancelled, Event
<1> DEFINE Fine(decision) == Asks(decision.events) /\ Len(decision.asked) \in Nat /\ decision.outcome \in Outcomes
<1>8. Fine(Noop)
  BY <1>1, NoopAsks
<1>9. \A e : Requests(e) = {} => Fine(Emit(<<e>>, <<>>))
  BY <1>2, EmitsOne
<1>10. \A e, x, y : Requests(e) = {} => Fine(Emit(<<e>>, <<x, y>>))
  BY <1>3, EmitsOne
<1>11. \A e, f : Requests(e) = {} /\ Requests(f) = {} => Fine(Emit(<<e, f>>, <<>>))
  BY <1>2, EmitsTwo
<1> HIDE DEF Fine
<1>12. Fine(RunDeadline(m, d, at))
  <2>1. CASE d.command = "cancel_unready_course"
    <3>1. RunDeadline(m, d, at) = CancelUnreadyCourse(m, d.input)
      BY <2>1 DEF RunDeadline
    <3> QED
      BY <3>1, <1>7, <1>8, <1>9, Zenon DEF CancelUnreadyCourse
  <2>2. CASE d.command = "release_unpaid_subscription"
    <3>1. RunDeadline(m, d, at) = ReleaseUnpaidSubscription(m, d.input[1], d.input[2], at)
      BY <2>2 DEF RunDeadline
    <3> QED
      BY <3>1, <1>6, <1>8, <1>9, Zenon DEF ReleaseUnpaidSubscription
  <2>3. CASE d.command = "issue_invoice"
    <3>1. RunDeadline(m, d, at) = IssueInvoice(m, d.input[1], d.input[2], d.input[3], d.input[4], at)
      BY <2>3 DEF RunDeadline
    <3> QED
      BY <3>1, <1>4, <1>8, <1>10, Zenon DEF IssueInvoice
  <2>4. CASE d.command = "release_overdue_invoice"
    <3>1. RunDeadline(m, d, at) = ReleaseOverdueInvoice(m, d.input[1], d.input[2], d.input[3], d.input[4])
      BY <2>4 DEF RunDeadline
    <3> QED
      BY <3>1, <1>5, <1>6, <1>8, <1>11, Zenon DEF ReleaseOverdueInvoice
  <2> QED
    BY <2>1, <2>2, <2>3, <2>4 DEF IsDeadline
<1> QED
  BY <1>12 DEF Fine

LEMMA CommitsAsk == ASSUME AskedInv, NEW decision, Asks(decision.events), Commits(decision) PROVE AskedInv'
BY DEF AskedInv, Asks, Commits

LEMMA RunsKeep ==
  ASSUME IInv, NEW decision, Does(models, Open, decision), Asks(decision.events), Runs(decision)
  PROVE  IInv' /\ LostForAReason(models, models')
<1>1. Commits(decision) /\ Stored(decision) /\ UNCHANGED <<now, fired, processorVars>>
  BY DEF Runs, Commits
<1>2. AskedInv'
  BY <1>1, CommitsAsk DEF IInv
<1> QED
  BY <1>1, <1>2, AppendsKeep

LEMMA ClientsKeep ==
  ASSUME IInv, ClientStep \/ PricesACourse \/ StopsFee \/ Prepares
  PROVE  IInv' /\ LostForAReason(models, models')
<1>1. Ready(models, Open)
  BY IsReady
<1>2. \A p \in ClientPods : Clock(p) \in Nat
  BY ClockIsNat, CourseAssumption DEF IInv
<1>3. ASSUME NEW p \in ClientPods, Defines(p) PROVE IInv' /\ LostForAReason(models, models')
  <2>1. PICK c \in Courses, capacity \in Capacities : Runs(DefineCourse(models, c, capacity, Clock(p)))
    BY <1>3 DEF Defines
  <2>2. Does(models, Open, DefineCourse(models, c, capacity, Clock(p)))
    BY <1>1, <1>2, DefineDoes
  <2> QED
    BY <2>1, <2>2, ClientsAsk, RunsKeep
<1>4. ASSUME NEW p \in ClientPods, Subscribes(p) PROVE IInv' /\ LostForAReason(models, models')
  <2>1. PICK s \in Students, c \in Courses : Runs(Subscribe(models, s, c, Clock(p)))
    BY <1>4 DEF Subscribes
  <2>2. Does(models, Open, Subscribe(models, s, c, Clock(p)))
    BY <1>1, <1>2, SubscribeDoes
  <2> QED
    BY <2>1, <2>2, ClientsAsk, RunsKeep
<1>5. ASSUME NEW p \in ClientPods, Pays(p) PROVE IInv' /\ LostForAReason(models, models')
  <2>1. PICK s \in Students, c \in Courses, y \in Payments, amount \in Prices :
               Runs(PaySubscription(models, s, c, y, amount, Clock(p)))
    BY <1>5 DEF Pays
  <2>2. Does(models, Open, PaySubscription(models, s, c, y, amount, Clock(p)))
    BY <1>1, PayDoes
  <2> QED
    BY <2>1, <2>2, ClientsAsk, RunsKeep
<1>6. ASSUME NEW p \in ClientPods, StartsFee(p) PROVE IInv' /\ LostForAReason(models, models')
  <2>1. PICK b \in Billings, s \in Students, c \in Courses : Runs(StartMonthlyFee(models, b, s, c, Clock(p)))
    BY <1>6 DEF StartsFee
  <2>2. Does(models, Open, StartMonthlyFee(models, b, s, c, Clock(p)))
    BY <1>1, <1>2, StartDoes
  <2> QED
    BY <2>1, <2>2, ClientsAsk, RunsKeep
<1>7. ASSUME NEW p \in ClientPods, PaysInvoice(p) PROVE IInv' /\ LostForAReason(models, models')
  <2>1. PICK b \in Billings, n \in 1 .. MaxInvoices, y \in Payments, amount \in Prices :
               Runs(PayInvoice(models, b, n, y, amount, Clock(p)))
    BY <1>7 DEF PaysInvoice
  <2>2. Does(models, Open, PayInvoice(models, b, n, y, amount, Clock(p)))
    BY <1>1, PayInvoiceDoes
  <2> QED
    BY <2>1, <2>2, ClientsAsk, RunsKeep
<1>8. ASSUME PricesACourse PROVE IInv' /\ LostForAReason(models, models')
  <2>1. PICK c \in Courses, price \in Prices : Runs(PriceCourse(models, c, price))
    BY <1>8 DEF PricesACourse
  <2>2. Does(models, Open, PriceCourse(models, c, price))
    BY <1>1, PriceDoes
  <2> QED
    BY <2>1, <2>2, ClientsAsk, RunsKeep
<1>9. ASSUME StopsFee PROVE IInv' /\ LostForAReason(models, models')
  <2>1. PICK b \in Billings, s \in Students, c \in Courses : Runs(StopMonthlyFee(models, b, s, c))
    BY <1>9 DEF StopsFee
  <2>2. Does(models, Open, StopMonthlyFee(models, b, s, c))
    BY <1>1, StopDoes
  <2> QED
    BY <2>1, <2>2, ClientsAsk, RunsKeep
<1>10. ASSUME Prepares PROVE IInv' /\ LostForAReason(models, models')
  <2>1. PICK c \in Courses : \E e \in {TeacherAssigned(c), RoomBooked(c)} : Runs(Emit(<<e>>, <<>>))
    BY <1>10 DEF Prepares
  <2>2. PICK e \in {TeacherAssigned(c), RoomBooked(c)} : Runs(Emit(<<e>>, <<>>))
    BY <2>1
  <2>3. Does(models, Open, Emit(<<e>>, <<>>))
    BY <1>1, PrepareDoes
  <2>4. Asks(Emit(<<e>>, <<>>).events)
    BY ClientsAsk
  <2> QED
    BY <2>2, <2>3, <2>4, RunsKeep
<1> QED
  BY <1>3, <1>4, <1>5, <1>6, <1>7, <1>8, <1>9, <1>10 DEF ClientStep

LEMMA ReactionsKeep == ASSUME IInv, Reacts \/ ReactsAndEnds PROVE IInv' /\ LostForAReason(models, models')
<1>1. PICK request \in asked : Handles(request) /\ asked' \subseteq asked
  BY DEF Reacts, ReactsAndEnds
<1>2. Ready(models, Open)
  BY IsReady
<1>3. Does(models, Open, RunRequest(request))
  <2>1. CASE request[1] = "confirm_course" /\ request[2] \in Courses
    BY <2>1, <1>2, ConfirmDoes DEF RunRequest
  <2>2. CASE request[1] = "send_receipt" /\ request[2] \in Payments
    BY <2>2, <1>2, ReceiptDoes DEF RunRequest
  <2> QED
    BY <1>1, <2>1, <2>2 DEF IInv, AskedInv
<1>4. AskedInv'
  BY <1>1 DEF IInv, AskedInv
<1> QED
  BY <1>1, <1>3, <1>4, AppendsKeep DEF Handles

LEMMA FiresKeep == ASSUME IInv, NEW p \in Pods, Fires(p) PROVE IInv' /\ LostForAReason(models, models')
<1> DEFINE d == Current(p)
           decision == RunDeadline(models, d, Clock(p))
<1>1. Firing(p) /\ Commits(decision) /\ Ran(p, decision.outcome)
  BY DEF Fires
<1>2. d \in batch[p] /\ d \in Rows /\ IsDeadline(models, d) /\ d.dueAt \in Nat /\ d.dueAt <= Clock(p) /\ Clock(p) \in Nat
  BY <1>1, CurrentIs, ClockIsNat DEF IInv, DeadlinesInv, Rows, Firing
<1>3. Asks(decision.events) /\ Len(decision.asked) \in Nat /\ decision.outcome \in Outcomes
  BY <1>2, DeadlinesAsk
<1>4. HasRoom(models, decision.asked)
  BY <1>1, <1>3, RoomIsLeft DEF Commits, Stored, Schedule, IInv, ModelInv
<1>5. Does(models, Open, decision) /\ Settles(FoldOf(models, decision.events), d)
  BY <1>2, <1>4, IsReady, RunDoes
<1>6. /\ ran' = [ran EXCEPT ![p] = decision.outcome] /\ UNCHANGED <<now, fired, leader, batch, status, errors, faults>>
      /\ models' = FoldOf(models, decision.events) /\ Stored(decision)
  BY <1>1 DEF Ran, Commits, Stored, FoldOf
<1>7. AskedInv'
  BY <1>1, <1>3, CommitsAsk DEF IInv
<1> HIDE DEF decision
<1>8. /\ ran \in [Pods -> Outcomes \cup {"not_run"}] /\ \A q \in Pods : ran[q] # "not_run" => batch[q] # {}
  BY DEF IInv, DeadlinesInv, DeadlinesTypeOK
<1>9. ran' \in [Pods -> Outcomes \cup {"not_run"}] /\ \A q \in Pods : ran'[q] # "not_run" => batch[q] # {}
  BY <1>2, <1>3, <1>6, <1>8
<1>10. /\ ModelInv(models)' /\ DeadlinesInv' /\ FiredOnce' /\ LostForAReason(models, models')
       /\ deadlines' = deadlines \cup NewRows(decision) /\ \A e \in NewRows(decision) : e \notin Rows
       /\ WaitsIn(models', Open \cup NewRows(decision))
  BY <1>5, <1>6, <1>9, Stores
<1>11. (Open \cup NewRows(decision)) \ {d} \subseteq Open'
  <2>1. \A q \in Pods : ran'[q] # "not_run" => ran[q] # "not_run" \/ {d} = {Current(q)}
    BY <1>6, <1>8
  <2> HIDE DEF d
  <2> QED
    BY <1>6, <1>9, <1>10, <2>1, OpenStays
<1>12. WaitsIn(models', Open')
  <2>1. WaitsIn(models', (Open \cup NewRows(decision)) \ {d})
    BY <1>5, <1>6, <1>10, WaitsForOthers
  <2> QED
    BY <1>11, <2>1, WaitsWider
<1> QED
  BY <1>7, <1>10, <1>12 DEF IInv

(* The processor's own steps touch no model. *)
Oldest(B) == CHOOSE d \in B : \A e \in B \ {d} : DueBefore(d, e)

LEMMA ProcessorKeeps ==
  ASSUME IInv, UNCHANGED <<courseVars, last>>, DeadlinesTypeOK', FiredOnce', now <= now', now' \in Nat,
         batch' = [p \in Pods |-> batch'[p]], deadlines' \subseteq deadlines,
         \A p \in Pods : batch'[p] \subseteq batch[p] \cup Due(p),
         \A d \in Open : d \in deadlines',
         \A p \in Pods : ran'[p] # "not_run" => ran[p] # "not_run" /\ batch'[p] = batch[p]
  PROVE  IInv' /\ LostForAReason(models, models')
<1>1. UNCHANGED <<models, asked>>
  BY DEF courseVars
<1>2. LostForAReason(models, models')
  BY <1>1, NothingLost, Zenon
<1>3. DeadlinesInv'
  <2>1. Rows' \subseteq Rows
    BY DEF Rows, Due
  <2>2. \A d, e \in Rows' : d.position = e.position => d = e
    BY <2>1 DEF IInv, DeadlinesInv
  <2>3. \A d \in Rows' : IsDeadline(models', d)
    BY <1>1, <2>1 DEF IInv, DeadlinesInv
  <2>4. ASSUME NEW p \in Pods, NEW d \in batch'[p]
        PROVE  d.position \in 1 .. last' /\ d.dueAt \in Nat /\ d.dueAt <= Clock(p)'
    <3>1. d.position \in 1 .. last /\ d.dueAt \in Nat /\ d.dueAt <= Clock(p)
      BY <2>4 DEF IInv, DeadlinesInv, DeadlinesTypeOK, Due
    <3>2. now \in Nat /\ Ahead[p] \in Nat
      BY DeadlinesAssumption DEF IInv, DeadlinesInv, DeadlinesTypeOK
    <3> QED
      BY <3>1, <3>2 DEF Clock
  <2>5. \A b \in Billings : 2 * models'.billing[b].lastIssued <= last'
    BY <1>1 DEF IInv, DeadlinesInv
  <2>6. (batch = [p \in Pods |-> batch[p]])'
    OBVIOUS
  <2> QED
    BY <2>2, <2>3, <2>4, <2>5, <2>6 DEF DeadlinesInv
<1>4. Open \subseteq Open'
  <2> SUFFICES ASSUME NEW d \in Open, NEW p \in Pods, ran'[p] # "not_run" PROVE d # Current(p)'
    BY DEF Open
  <2>1. Current(p) = Oldest(batch[p]) /\ Current(p)' = Oldest(batch'[p])
    BY DEF Current, Oldest
  <2> QED
    BY <2>1 DEF Open
<1>5. WaitsIn(models', Open')
  BY <1>1, <1>4, WaitsWider DEF IInv
<1> QED
  BY <1>1, <1>2, <1>3, <1>5 DEF IInv, AskedInv

LEMMA FetchKeeps == ASSUME IInv, NEW p \in Pods, Fetch(p), UNCHANGED courseVars PROVE IInv' /\ LostForAReason(models, models')
<1> DEFINE S == {d \in Due(p) : Cardinality({e \in Due(p) : DueBefore(e, d)}) < BatchSize}
<1>1. /\ batch[p] = {} /\ batch' = [batch EXCEPT ![p] = S] /\ S \subseteq Due(p)
      /\ UNCHANGED <<now, last, deadlines, fired, leader, ran, status, errors, faults>>
  BY DEF Fetch
<1> HIDE DEF S
<1>2. batch = [q \in Pods |-> batch[q]] /\ \A q \in Pods : ran[q] # "not_run" => batch[q] # {}
  BY DEF IInv, DeadlinesInv, DeadlinesTypeOK
<1>3. /\ \A q \in Pods : batch'[q] = IF q = p THEN S ELSE batch[q]
      /\ batch' = [q \in Pods |-> batch'[q]]
  BY <1>1, <1>2
<1>4. \A q \in Pods : ran'[q] # "not_run" => ran[q] # "not_run" /\ batch'[q] = batch[q]
  BY <1>1, <1>2, <1>3
<1>5. \A q \in Pods : batch'[q] \subseteq batch[q] \cup Due(q)
  BY <1>1, <1>3
<1>6. DeadlinesTypeOK' /\ FiredOnce'
  BY <1>1, <1>2, <1>4 DEF IInv, DeadlinesInv, DeadlinesTypeOK, FiredOnce
<1>7. now \in Nat /\ now <= now' /\ now' \in Nat
  BY <1>1, DeadlinesAssumption DEF IInv, DeadlinesInv, DeadlinesTypeOK
<1>8. deadlines' \subseteq deadlines /\ \A d \in Open : d \in deadlines'
  BY <1>1 DEF Open
<1> QED
  BY <1>1, <1>3, <1>4, <1>5, <1>6, <1>7, <1>8, ProcessorKeeps

(* The firing is recorded: the row of a deadline that ran goes, and its firing is the first. *)
LEMMA RecordKeeps == ASSUME IInv, NEW p \in Pods, RecordFiring(p), UNCHANGED courseVars PROVE IInv' /\ LostForAReason(models, models')
<1> DEFINE d == Current(p)
<1>1. /\ ran[p] # "not_run" /\ deadlines' = deadlines \ {d} /\ fired' = FiredNow(d) /\ batch' = [batch EXCEPT ![p] = @ \ {d}]
      /\ errors' \in {0, errors} /\ ran' = [ran EXCEPT ![p] = "not_run"] /\ UNCHANGED <<now, last, leader, status, faults>>
  BY DEF RecordFiring
<1>2. /\ batch = [q \in Pods |-> batch[q]] /\ \A q \in Pods : ran[q] # "not_run" => batch[q] # {}
      /\ ran \in [Pods -> Outcomes \cup {"not_run"}]
  BY DEF IInv, DeadlinesInv, DeadlinesTypeOK
<1>3. d \in Rows /\ d.position \in 1 .. last
  BY <1>1, <1>2, CurrentIs DEF IInv, DeadlinesInv, Rows
<1>4. \A e \in Open : e # d
  BY <1>1 DEF Open
<1> HIDE DEF d
<1>5. /\ \A q \in Pods : batch'[q] = IF q = p THEN batch[p] \ {d} ELSE batch[q]
      /\ batch' = [q \in Pods |-> batch'[q]]
      /\ \A q \in Pods : ran'[q] = IF q = p THEN "not_run" ELSE ran[q]
  BY <1>1, <1>2
<1>6. \A q \in Pods : ran'[q] # "not_run" => ran[q] # "not_run" /\ batch'[q] = batch[q]
  BY <1>5
<1>7. \A q \in Pods : batch'[q] \subseteq batch[q] \cup Due(q)
  BY <1>5
<1>8. last \in 0 .. MaxDeadlines /\ MaxDeadlines \in Nat /\ fired \in [1 .. MaxDeadlines -> Nat]
  BY DeadlinesAssumption DEF IInv, DeadlinesInv, DeadlinesTypeOK
<1>9. d.position \in 1 .. MaxDeadlines
  BY <1>3, <1>8
<1>10. fired' = IF d \in deadlines THEN [fired EXCEPT ![d.position] = fired[d.position] + 1] ELSE fired
  BY <1>1 DEF FiredNow
<1>11. fired' \in [1 .. MaxDeadlines -> Nat]
  BY <1>8, <1>9, <1>10
<1>12. DeadlinesTypeOK'
  <2>1. ran' \in [Pods -> Outcomes \cup {"not_run"}] /\ \A q \in Pods : ran'[q] # "not_run" => batch'[q] # {}
    BY <1>1, <1>2, <1>6
  <2> QED
    BY <1>1, <1>11, <2>1 DEF IInv, DeadlinesInv, DeadlinesTypeOK
<1>13. FiredOnce'
  <2> SUFFICES ASSUME NEW n \in 1 .. MaxDeadlines
               PROVE  fired'[n] = IF n \in {e.position : e \in deadlines'} \/ n > last' THEN 0 ELSE 1
    BY DEF FiredOnce
  <2>1. fired[n] = IF n \in {e.position : e \in deadlines} \/ n > last THEN 0 ELSE 1
    BY DEF IInv, FiredOnce
  <2>2. CASE d \in deadlines
    <3>1. \A e \in deadlines : e.position = d.position => e = d
      BY <2>2 DEF IInv, DeadlinesInv, Rows
    <3>2. CASE n = d.position
      <4>1. fired[n] = 0
        BY <2>1, <2>2, <3>2
      <4>2. fired'[n] = 1
        BY <1>8, <1>9, <1>10, <2>2, <3>2, <4>1
      <4>3. n \notin {e.position : e \in deadlines'} /\ ~ (n > last')
        BY <1>1, <1>3, <1>8, <3>1, <3>2
      <4> QED
        BY <4>2, <4>3
    <3>3. CASE n # d.position
      <4>1. fired'[n] = fired[n]
        BY <1>8, <1>9, <1>10, <3>3
      <4>2. n \in {e.position : e \in deadlines'} <=> n \in {e.position : e \in deadlines}
        BY <1>1, <3>3
      <4> QED
        BY <1>1, <2>1, <4>1, <4>2
    <3> QED
      BY <3>2, <3>3
  <2>3. CASE d \notin deadlines
    <3>1. deadlines' = deadlines /\ fired' = fired
      BY <1>1, <1>10, <2>3
    <3> QED
      BY <1>1, <2>1, <3>1
  <2> QED
    BY <2>2, <2>3
<1>14. now \in Nat /\ now <= now' /\ now' \in Nat
  BY <1>1, DeadlinesAssumption DEF IInv, DeadlinesInv, DeadlinesTypeOK
<1>15. deadlines' \subseteq deadlines /\ \A e \in Open : e \in deadlines'
  BY <1>1, <1>4 DEF Open
<1> QED
  BY <1>1, <1>5, <1>6, <1>7, <1>12, <1>13, <1>14, <1>15, ProcessorKeeps

LEMMA DropsKeep ==
  ASSUME IInv, NEW p \in Pods, Fault(p) \/ Crash(p), UNCHANGED courseVars PROVE IInv' /\ LostForAReason(models, models')
<1>1. /\ batch' = [batch EXCEPT ![p] = {}] /\ ran' = [ran EXCEPT ![p] = "not_run"] /\ faults < MaxFaults /\ faults' = faults + 1
      /\ errors' \in {errors, errors + 1} /\ status' \in {status, "FAILED"} /\ UNCHANGED <<now, last, deadlines, fired, leader>>
  BY DEF Fault, Crash, Drops, Fails
<1>2. /\ batch = [q \in Pods |-> batch[q]] /\ \A q \in Pods : ran[q] # "not_run" => batch[q] # {}
      /\ ran \in [Pods -> Outcomes \cup {"not_run"}]
  BY DEF IInv, DeadlinesInv, DeadlinesTypeOK
<1>3. /\ \A q \in Pods : batch'[q] = IF q = p THEN {} ELSE batch[q]
      /\ batch' = [q \in Pods |-> batch'[q]]
      /\ \A q \in Pods : ran'[q] = IF q = p THEN "not_run" ELSE ran[q]
  BY <1>1, <1>2
<1>4. \A q \in Pods : ran'[q] # "not_run" => ran[q] # "not_run" /\ batch'[q] = batch[q]
  BY <1>3
<1>5. \A q \in Pods : batch'[q] \subseteq batch[q] \cup Due(q)
  BY <1>3
<1>6. DeadlinesTypeOK'
  <2>1. ran' \in [Pods -> Outcomes \cup {"not_run"}] /\ \A q \in Pods : ran'[q] # "not_run" => batch'[q] # {}
    BY <1>1, <1>2, <1>4
  <2>2. faults' \in 0 .. MaxFaults /\ errors' \in Nat
    BY <1>1, DeadlinesAssumption DEF IInv, DeadlinesInv, DeadlinesTypeOK
  <2> QED
    BY <1>1, <2>1, <2>2 DEF IInv, DeadlinesInv, DeadlinesTypeOK
<1>7. now \in Nat /\ now <= now' /\ now' \in Nat
  BY <1>1, DeadlinesAssumption DEF IInv, DeadlinesInv, DeadlinesTypeOK
<1>8. deadlines' \subseteq deadlines /\ \A d \in Open : d \in deadlines'
  BY <1>1 DEF Open
<1>9. FiredOnce'
  BY <1>1 DEF IInv, FiredOnce
<1> QED
  BY <1>1, <1>3, <1>4, <1>5, <1>6, <1>7, <1>8, <1>9, ProcessorKeeps

LEMMA OthersKeep ==
  ASSUME IInv, (\E p \in Pods : Lead(p)) \/ Resume \/ Tick, UNCHANGED courseVars PROVE IInv' /\ LostForAReason(models, models')
<1>1. /\ UNCHANGED <<last, deadlines, fired, batch, ran, errors>> /\ leader' \in Pods \cup {leader} /\ status' \in {status, "ACTIVE"}
      /\ (faults' = faults \/ (faults < MaxFaults /\ faults' = faults + 1)) /\ (now' = now \/ (now < MaxNow /\ now' = now + 1))
  BY DEF Lead, Resume, Tick, Fails
<1>2. now \in 0 .. MaxNow /\ MaxNow \in Nat /\ faults \in 0 .. MaxFaults /\ MaxFaults \in Nat /\ leader \in Pods
  BY DeadlinesAssumption DEF IInv, DeadlinesInv, DeadlinesTypeOK
<1>3. now' \in 0 .. MaxNow /\ now <= now' /\ now' \in Nat /\ faults' \in 0 .. MaxFaults
  BY <1>1, <1>2
<1>4. DeadlinesTypeOK' /\ FiredOnce'
  BY <1>1, <1>2, <1>3 DEF IInv, DeadlinesInv, DeadlinesTypeOK, FiredOnce
<1>5. batch' = [p \in Pods |-> batch'[p]]
  BY <1>1 DEF IInv, DeadlinesInv
<1>6. \A d \in Open : d \in deadlines'
  BY <1>1 DEF Open
<1> QED
  BY <1>1, <1>3, <1>4, <1>5, <1>6, ProcessorKeeps

LEMMA ProcessorStepsKeep ==
  ASSUME IInv, ProcessorStep, UNCHANGED courseVars PROVE IInv' /\ LostForAReason(models, models')
BY FetchKeeps, RecordKeeps, DropsKeep, OthersKeep DEF ProcessorStep

LEMMA NothingKeeps == ASSUME IInv, UNCHANGED vars PROVE IInv' /\ LostForAReason(models, models')
<1>1. UNCHANGED <<deadlineVars, courseVars>>
  BY DEF vars
<1>2. DeadlinesTypeOK' /\ FiredOnce'
  BY <1>1 DEF IInv, DeadlinesInv, DeadlinesTypeOK, FiredOnce, deadlineVars
<1>3. now \in Nat /\ now <= now' /\ now' \in Nat
  BY <1>1, DeadlinesAssumption DEF IInv, DeadlinesInv, DeadlinesTypeOK, deadlineVars
<1>4. /\ batch' = [p \in Pods |-> batch'[p]] /\ \A d \in Open : d \in deadlines'
      /\ UNCHANGED <<last, deadlines, batch, ran>>
  BY <1>1 DEF IInv, DeadlinesInv, deadlineVars, Open
<1> QED
  BY <1>1, <1>2, <1>3, <1>4, ProcessorKeeps

LEMMA StepsKeep == ASSUME IInv, [Next]_vars PROVE IInv' /\ LostForAReason(models, models')
BY ClientsKeep, ReactionsKeep, FiresKeep, ProcessorStepsKeep, NothingKeeps DEF Next

LEMMA InitialInv == ASSUME Init PROVE IInv
<1>1. models = InitialModels /\ asked = {} /\ DeadlinesInit
  BY DEF Init
<1>2. \A x \in Seats : x \notin Held(models)
  BY <1>1 DEF Held, InitialModels
<1>3. ModelsType(models)
  <2>1. models.course \in CourseState /\ \A c \in Courses : models.course[c].capacity \in Capacities \cup {0}
    BY <1>1 DEF InitialModels, CourseState
  <2>2. models.student \in [Students -> SUBSET Courses] /\ models.pricing \in [Courses -> Prices \cup {None}]
    BY <1>1 DEF InitialModels
  <2>3. models.subscription \in SubscriptionState /\ models.readiness \in ReadinessState
    BY <1>1 DEF InitialModels, SubscriptionState, ReadinessState
  <2>4. models.billing \in BillingState /\ models.invoice \in InvoiceState
    BY <1>1 DEF InitialModels, BillingState, InvoiceState
  <2>5. models.keys \in [DOMAIN models.keys -> {1}]
    BY <1>1 DEF InitialModels, EmptyBag, SetToBag
  <2> QED
    BY <2>1, <2>2, <2>3, <2>4, <2>5 DEF ModelsType
<1>4. SeatsInv(models)
  <2>1. \A c \in Courses : SeatsOf(models, c) = {}
    BY <1>2 DEF SeatsOf, Held
  <2>2. IsFiniteSet({}) /\ Cardinality({}) = 0
    BY FS_EmptySet
  <2>3. \A s \in Students, c \in Courses : models.student[s] = {} /\ <<s, c>> \notin Held(models)
    BY <1>1, <1>2 DEF InitialModels, Seats
  <2>4. \A c \in Courses : /\ ~ models.course[c].cancelled /\ ~ models.course[c].exists /\ models.course[c].capacity = 0
                           /\ models.course[c].subscribers = 0 /\ models.readiness[c].students = {}
                           /\ models.readiness[c].status = "waiting"
    BY <1>1 DEF InitialModels
  <2> QED
    BY <2>1, <2>2, <2>3, <2>4 DEF SeatsInv
<1>5. BillingInv(models)
  <2>1. \A b : ~ Known(models, "BillingStarted", b)
    BY <1>1 DEF InitialModels, EmptyBag, SetToBag, Known, BagIn, BagToSet
  <2>2. \A b \in Billings : models.billing[b].startsAt = None /\ models.billing[b].lastIssued = 0
    BY <1>1 DEF InitialModels
  <2>3. \A x \in Seats, b \in Billings : ~ BilledBy(models.subscription[x], b)
    BY <1>1 DEF InitialModels, BilledBy
  <2> QED
    BY <2>1, <2>2, <2>3 DEF BillingInv
<1>6. InvoiceInv(models)
  BY <1>1 DEF InitialModels, InvoiceInv
<1>7. /\ now = 0 /\ last = 0 /\ deadlines = {} /\ fired = [d \in 1 .. MaxDeadlines |-> 0] /\ leader \in Pods
      /\ batch = [p \in Pods |-> {}] /\ ran = [p \in Pods |-> "not_run"] /\ status = "ACTIVE" /\ errors = 0 /\ faults = 0
  BY <1>1 DEF DeadlinesInit
<1>8. DeadlinesTypeOK
  BY <1>7, DeadlinesAssumption DEF DeadlinesTypeOK
<1>9. Rows = {} /\ batch = [p \in Pods |-> batch[p]] /\ \A p \in Pods : batch[p] = {}
  BY <1>7 DEF Rows
<1>10. \A b \in Billings : 2 * models.billing[b].lastIssued <= last
  <2>1. \A b \in Billings : models.billing[b].lastIssued = 0
    BY <1>1 DEF InitialModels
  <2> QED
    BY <1>7, <2>1
<1>11. DeadlinesInv
  BY <1>8, <1>9, <1>10 DEF DeadlinesInv
<1>12. FiredOnce
  <2>1. \A n \in 1 .. MaxDeadlines : fired[n] = 0 /\ n > last
    BY <1>7, DeadlinesAssumption
  <2> QED
    BY <2>1 DEF FiredOnce
<1>13. WaitsIn(models, Open)
  BY <1>1 DEF WaitsIn, CoursesWait, SeatsWait, InvoicesWait, InitialModels, BilledBy
<1>14. AskedInv
  BY <1>1 DEF AskedInv
<1> QED
  BY <1>3, <1>4, <1>5, <1>6, <1>11, <1>12, <1>13, <1>14 DEF IInv, ModelInv

-----------------------------------------------------------------------------
(* What the invariant says in the words of the properties. *)
LEMMA SeatsFollow == ASSUME IInv PROVE SeatsAreCounted
<1>1. ModelsType(models) /\ SeatsInv(models)
  BY DEF IInv, ModelInv
<1>2. \A x \in Held(models) : x \in Seats
  BY DEF Held
<1>3. CourseTypeOK
  <2>1. DeadlinesTypeOK /\ AskedInv
    BY DEF IInv, DeadlinesInv
  <2>2. Bounded(models)
    BY IsReady DEF Ready
  <2> QED
    BY <1>1, <2>1, <2>2 DEF CourseTypeOK, AskedInv, Bounded, ModelsType
<1>4. ASSUME NEW c \in Courses
      PROVE  /\ models.course[c].subscribers = Cardinality(HeldOf(c)) /\ Cardinality(HeldOf(c)) <= models.course[c].capacity
             /\ models.readiness[c].status # "cancelled" => models.readiness[c].students = {x[1] : x \in HeldOf(c)}
  <2>1. HeldOf(c) = SeatsOf(models, c)
    BY DEF HeldOf, SeatsOf
  <2>2. ASSUME models.readiness[c].status # "cancelled" PROVE models.readiness[c].students = {x[1] : x \in HeldOf(c)}
    <3>1. models.readiness[c].students \subseteq Students
      BY <1>1 DEF ModelsType, ReadinessState
    <3>2. \A s \in Students : s \in models.readiness[c].students <=> <<s, c>> \in Held(models)
      BY <1>1, <2>2 DEF SeatsInv
    <3>3. \A s \in Students : <<s, c>> \in Held(models) => <<s, c>> \in HeldOf(c)
      BY DEF HeldOf
    <3>4. \A x \in HeldOf(c) : x[1] \in Students /\ <<x[1], c>> \in Held(models)
      BY <1>2, SeatIsPair DEF HeldOf
    <3>5. \A s \in Students : <<s, c>>[1] = s
      OBVIOUS
    <3> QED
      BY <3>1, <3>2, <3>3, <3>4, <3>5
  <2> QED
    BY <1>1, <2>1, <2>2 DEF SeatsInv
<1>5. ASSUME NEW s \in Students PROVE models.student[s] = {x[2] : x \in {y \in Held(models) : y[1] = s}}
  <2>1. models.student[s] \subseteq Courses
    BY <1>1 DEF ModelsType
  <2>2. \A c \in Courses : c \in models.student[s] <=> <<s, c>> \in Held(models)
    BY <1>1 DEF SeatsInv
  <2>3. \A x \in Held(models) : x[1] = s => x[2] \in Courses /\ <<s, x[2]>> \in Held(models)
    BY <1>2, SeatIsPair
  <2>4. ASSUME NEW c \in models.student[s] PROVE c \in {x[2] : x \in {y \in Held(models) : y[1] = s}}
    <3>1. <<s, c>> \in {y \in Held(models) : y[1] = s} /\ <<s, c>>[2] = c
      BY <2>1, <2>2
    <3> QED
      BY <3>1, Zenon
  <2>5. ASSUME NEW x \in {y \in Held(models) : y[1] = s} PROVE x[2] \in models.student[s]
    BY <2>2, <2>3
  <2> QED
    BY <2>4, <2>5, Zenon
<1> QED
  BY <1>3, <1>4, <1>5 DEF SeatsAreCounted

LEMMA WaitsFollow == ASSUME IInv PROVE WhatWaitsHasADeadline
<1>1. CoursesWait(models, deadlines) /\ SeatsWait(models, deadlines) /\ InvoicesWait(models, deadlines)
  <2>1. Open \subseteq deadlines
    BY DEF Open
  <2> QED
    BY <2>1, WaitsWider DEF IInv, WaitsIn
<1>2. \A x \in Held(models) : x \in Seats
  BY DEF Held
<1>3. \A command, input : Has(deadlines, command, input) => Pending(command, input) # {}
  BY DEF Has, Pending
<1>4. \A command, input, at : HasDue(deadlines, command, input, at) => \E d \in Pending(command, input) : d.dueAt = at
  BY DEF HasDue, Pending
<1>5. ASSUME NEW c \in Courses, models.course[c].exists, models.readiness[c].status = "waiting"
      PROVE  Pending("cancel_unready_course", c) # {}
  BY <1>1, <1>3, <1>5 DEF CoursesWait
<1>6. ASSUME NEW x \in Held(models), models.subscription[x].status = "subscribed"
      PROVE  \E d \in Pending("release_unpaid_subscription", x) : d.dueAt = models.subscription[x].windowClosesAt
  BY <1>1, <1>2, <1>4, <1>6 DEF SeatsWait
<1>7. ASSUME NEW x \in Held(models), NEW b \in BillingsOf(x)
      PROVE  LET billing == models.billing[b] IN
             /\ \E d \in Pending("issue_invoice", <<b, x[1], x[2], billing.lastIssued + 1>>) :
                   d.dueAt = IssueDateOf(billing.startsAt, billing.lastIssued + 1)
             /\ \A n \in 1 .. billing.lastIssued : \/ models.invoice[<<b, n>>].paid
                                                   \/ \E d \in Pending("release_overdue_invoice", <<b, x[1], x[2], n>>) :
                                                         d.dueAt = models.invoice[<<b, n>>].dueAt
  <2>1. x \in Seats /\ b \in Billings /\ BilledBy(models.subscription[x], b)
    BY <1>2 DEF BillingsOf
  <2>2. /\ HasDue(deadlines, "issue_invoice", <<b, x[1], x[2], models.billing[b].lastIssued + 1>>,
                  IssueDateOf(models.billing[b].startsAt, models.billing[b].lastIssued + 1))
        /\ \A i \in 1 .. models.billing[b].lastIssued :
             \/ models.invoice[<<b, i>>].paid
             \/ HasDue(deadlines, "release_overdue_invoice", <<b, x[1], x[2], i>>, models.invoice[<<b, i>>].dueAt)
    BY <1>1, <2>1 DEF InvoicesWait
  <2>3. \E d \in Pending("issue_invoice", <<b, x[1], x[2], models.billing[b].lastIssued + 1>>) :
           d.dueAt = IssueDateOf(models.billing[b].startsAt, models.billing[b].lastIssued + 1)
    BY <2>2 DEF HasDue, Pending
  <2>4. \A n \in 1 .. models.billing[b].lastIssued :
           \/ models.invoice[<<b, n>>].paid
           \/ \E d \in Pending("release_overdue_invoice", <<b, x[1], x[2], n>>) : d.dueAt = models.invoice[<<b, n>>].dueAt
    <3> SUFFICES ASSUME NEW n \in 1 .. models.billing[b].lastIssued, ~ models.invoice[<<b, n>>].paid
                 PROVE  \E d \in Pending("release_overdue_invoice", <<b, x[1], x[2], n>>) : d.dueAt = models.invoice[<<b, n>>].dueAt
      OBVIOUS
    <3>1. HasDue(deadlines, "release_overdue_invoice", <<b, x[1], x[2], n>>, models.invoice[<<b, n>>].dueAt)
      BY <2>2
    <3> QED
      BY <3>1 DEF HasDue, Pending
  <2> QED
    BY <2>3, <2>4, Zenon
<1> QED
  BY <1>5, <1>6, <1>7 DEF WhatWaitsHasADeadline

LEMMA EndsFollow == ASSUME IInv PROVE EndedOnceForAll
BY DEF IInv, ModelInv, InvoiceInv, ModelsType, EndedOnceForAll, BagToSet

LEMMA ReasonsFollow ==
  ASSUME IInv, [Next]_vars
  PROVE  /\ \A c \in Courses : models.readiness[c].status # "waiting" => models'.readiness[c].status = models.readiness[c].status
         /\ \A x \in Held(models) \ Held(models') :
              LET subscription == models.subscription[x] IN
              \/ models'.course[x[2]].cancelled
              \/ subscription.status = "subscribed" /\ \E p \in Pods : WindowClosed(subscription, Clock(p))
              \/ \E b \in BillingsOf(x) :
                   \/ Known(models', "BillingStopped", b)
                   \/ \E n \in 1 .. MaxInvoices : LET invoice == models.invoice[<<b, n>>] IN
                         models'.invoice[<<b, n>>].overdue /\ ~invoice.paid /\ \E p \in Pods : Clock(p) >= invoice.dueAt
<1>1. LostForAReason(models, models')
  BY StepsKeep
<1> QED
  BY <1>1, Zenon DEF LostForAReason, BillingsOf

-----------------------------------------------------------------------------
(* The models, the rows of the deadlines and what the pods have fetched of *)
(* them agree in every state: the inductive invariant of the app.          *)
THEOREM AppIsInStep == Spec => []IInv
<1>1. Init => IInv
  BY InitialInv
<1>2. IInv /\ [Next]_vars => IInv'
  BY StepsKeep
<1> QED
  BY <1>1, <1>2, PTL DEF Spec

(* A course never holds more than its capacity, and the models that see a  *)
(* subscription from the course, the student and the seat count the same   *)
(* seats, whoever frees one and whenever.                                  *)
THEOREM SeatsCounted == Spec => []SeatsAreCounted
<1>1. IInv => SeatsAreCounted
  BY SeatsFollow
<1> QED
  BY <1>1, AppIsInStep, PTL

(* Whatever waits for time to pass has a row in crablet_deadlines that is  *)
(* due when it ends, although deadlines are fired early or late, twice, or *)
(* by a pod that is no longer the leader.                                  *)
THEOREM WaitsHaveDeadlines == Spec => []WhatWaitsHasADeadline
<1>1. IInv => WhatWaitsHasADeadline
  BY WaitsFollow
<1> QED
  BY <1>1, AppIsInStep, PTL

(* One crablet.DeadlineFired for a deadline, no invoice both paid and      *)
(* overdue, and the work of a key done once.                               *)
THEOREM EndsOnce == Spec => []EndedOnceForAll
<1>1. IInv => EndedOnceForAll
  BY EndsFollow
<1> QED
  BY <1>1, AppIsInStep, PTL

(* No step takes a seat but for one of the reasons the commands give.      *)
THEOREM SeatsLostForAReason == Spec => SeatsAreLostForAReason
<1>1. IInv /\ [Next]_vars =>
        [/\ \A c \in Courses : models.readiness[c].status # "waiting" => models'.readiness[c].status = models.readiness[c].status
         /\ \A x \in Held(models) \ Held(models') :
              LET subscription == models.subscription[x] IN
              \/ models'.course[x[2]].cancelled
              \/ subscription.status = "subscribed" /\ \E p \in Pods : WindowClosed(subscription, Clock(p))
              \/ \E b \in BillingsOf(x) :
                   \/ Known(models', "BillingStopped", b)
                   \/ \E n \in 1 .. MaxInvoices : LET invoice == models.invoice[<<b, n>>] IN
                         models'.invoice[<<b, n>>].overdue /\ ~invoice.paid /\ \E p \in Pods : Clock(p) >= invoice.dueAt]_vars
  BY ReasonsFollow, Zenon
<1> QED
  BY <1>1, AppIsInStep, PTL DEF Spec, SeatsAreLostForAReason

-----------------------------------------------------------------------------
(* What an event's operations make of a table. *)
RunAll(table, q, ops) == FoldSet(LAMBDA o, held : T!RunOp(table, held, o), q, ops)
ApplyAll(table, q, ops) == FoldSet(LAMBDA o, held : T!ApplyOp(table, held, o), q, ops)

LEMMA RunAllIs ==
  ASSUME NEW table, NEW q, NEW ops
  PROVE  RunAll(table, q, ops) =
           LET iter[s \in SUBSET ops] ==
                 IF s = {} THEN q ELSE LET x == CHOOSE x \in s : TRUE IN T!RunOp(table, iter[s \ {x}], x)
           IN  iter[ops]
BY Zenon DEF RunAll, FoldSet, MapThenFoldSet

LEMMA ApplyAllIs ==
  ASSUME NEW table, NEW q, NEW ops
  PROVE  ApplyAll(table, q, ops) =
           LET iter[s \in SUBSET ops] ==
                 IF s = {} THEN q ELSE LET x == CHOOSE x \in s : TRUE IN T!ApplyOp(table, iter[s \ {x}], x)
           IN  iter[ops]
BY Zenon DEF ApplyAll, FoldSet, MapThenFoldSet

(* Two functions that go on from their smaller sets in the same way agree. *)
LEMMA SameOnFinite ==
  ASSUME NEW ops, IsFiniteSet(ops), NEW f, NEW g,
         \A s \in SUBSET ops : (\A x \in s : f[s \ {x}] = g[s \ {x}]) => f[s] = g[s]
  PROVE  f[ops] = g[ops]
<1> DEFINE Bad == {s \in SUBSET ops : f[s] # g[s]}
           Sizes == {Cardinality(s) : s \in Bad}
<1>1. \A s \in Bad : IsFiniteSet(s) /\ Cardinality(s) \in Nat
  BY FS_Subset, FS_CardinalityType
<1>2. ASSUME Bad # {} PROVE FALSE
  <2>1. Sizes \in SUBSET Nat /\ Sizes # {}
    BY <1>1, <1>2
  <2>2. PICK k \in Sizes : \A j \in Sizes : k <= j
    <3> HIDE DEF Sizes
    <3> QED
      BY <2>1, LeastNat
  <2>3. PICK s \in Bad : Cardinality(s) = k
    BY <2>2
  <2>4. ASSUME NEW x \in s PROVE f[s \ {x}] = g[s \ {x}]
    <3>1. Cardinality(s \ {x}) = Cardinality(s) - 1 /\ s \ {x} \in SUBSET ops
      BY <1>1, <2>3, <2>4, FS_RemoveElement
    <3>2. ASSUME s \ {x} \in Bad PROVE FALSE
      <4>1. k <= Cardinality(s \ {x})
        BY <2>2, <3>2
      <4> QED
        BY <1>1, <2>3, <3>1, <4>1
    <3> QED
      BY <3>1, <3>2
  <2> QED
    BY <2>3, <2>4
<1> QED
  BY <1>2

(* A table for each set of the operations, each from the one before, ends with all of them. *)
IsRun(table, q, ops, F) ==
  \A s \in SUBSET ops : F[s] = IF s = {} THEN q ELSE LET x == CHOOSE x \in s : TRUE IN T!RunOp(table, F[s \ {x}], x)

LEMMA RunsTo ==
  ASSUME NEW table, NEW q, NEW ops, IsFiniteSet(ops), NEW F, IsRun(table, q, ops, F)
  PROVE  RunAll(table, q, ops) = F[ops]
<1> DEFINE Is(it) == it = [s \in SUBSET ops |->
                             IF s = {} THEN q ELSE LET x == CHOOSE x \in s : TRUE IN T!RunOp(table, it[s \ {x}], x)]
           iter == CHOOSE it : Is(it)
           G == [s \in SUBSET ops |-> F[s]]
<1>1. Is(iter)
  <2>1. ASSUME NEW s \in SUBSET ops
        PROVE  G[s] = IF s = {} THEN q ELSE LET x == CHOOSE x \in s : TRUE IN T!RunOp(table, G[s \ {x}], x)
    <3>1. G[s] = F[s] /\ \A x : G[s \ {x}] = F[s \ {x}]
      OBVIOUS
    <3> HIDE DEF G
    <3> QED
      BY <3>1, Zenon DEF IsRun
  <2>2. Is(G)
    BY <2>1, Zenon
  <2> QED
    BY <2>2, Zenon
<1>2. RunAll(table, q, ops) = iter[ops]
  BY RunAllIs, Zenon
<1>3. iter[ops] = F[ops]
  <2> HIDE DEF iter
  <2>1. ASSUME NEW s \in SUBSET ops, \A x \in s : iter[s \ {x}] = F[s \ {x}] PROVE iter[s] = F[s]
    <3>1. iter[s] = IF s = {} THEN q ELSE LET x == CHOOSE x \in s : TRUE IN T!RunOp(table, iter[s \ {x}], x)
      BY <1>1
    <3>2. F[s] = IF s = {} THEN q ELSE LET x == CHOOSE x \in s : TRUE IN T!RunOp(table, F[s \ {x}], x)
      BY Zenon DEF IsRun
    <3>3. s # {} => (CHOOSE x \in s : TRUE) \in s
      BY Zenon
    <3> QED
      BY <2>1, <3>1, <3>2, <3>3, Zenon
  <2> QED
    BY <2>1, SameOnFinite, Zenon
<1> QED
  BY <1>2, <1>3

IsReplay(table, q, ops, F) ==
  \A s \in SUBSET ops : F[s] = IF s = {} THEN q ELSE LET x == CHOOSE x \in s : TRUE IN T!ApplyOp(table, F[s \ {x}], x)

LEMMA AppliesTo ==
  ASSUME NEW table, NEW q, NEW ops, IsFiniteSet(ops), NEW F, IsReplay(table, q, ops, F)
  PROVE  ApplyAll(table, q, ops) = F[ops]
<1> DEFINE Is(it) == it = [s \in SUBSET ops |->
                             IF s = {} THEN q ELSE LET x == CHOOSE x \in s : TRUE IN T!ApplyOp(table, it[s \ {x}], x)]
           iter == CHOOSE it : Is(it)
           G == [s \in SUBSET ops |-> F[s]]
<1>1. Is(iter)
  <2>1. ASSUME NEW s \in SUBSET ops
        PROVE  G[s] = IF s = {} THEN q ELSE LET x == CHOOSE x \in s : TRUE IN T!ApplyOp(table, G[s \ {x}], x)
    <3>1. G[s] = F[s] /\ \A x : G[s \ {x}] = F[s \ {x}]
      OBVIOUS
    <3> HIDE DEF G
    <3> QED
      BY <3>1, Zenon DEF IsReplay
  <2>2. Is(G)
    BY <2>1, Zenon
  <2> QED
    BY <2>2, Zenon
<1>2. ApplyAll(table, q, ops) = iter[ops]
  BY ApplyAllIs, Zenon
<1>3. iter[ops] = F[ops]
  <2> HIDE DEF iter
  <2>1. ASSUME NEW s \in SUBSET ops, \A x \in s : iter[s \ {x}] = F[s \ {x}] PROVE iter[s] = F[s]
    <3>1. iter[s] = IF s = {} THEN q ELSE LET x == CHOOSE x \in s : TRUE IN T!ApplyOp(table, iter[s \ {x}], x)
      BY <1>1
    <3>2. F[s] = IF s = {} THEN q ELSE LET x == CHOOSE x \in s : TRUE IN T!ApplyOp(table, F[s \ {x}], x)
      BY Zenon DEF IsReplay
    <3>3. s # {} => (CHOOSE x \in s : TRUE) \in s
      BY Zenon
    <3> QED
      BY <2>1, <3>1, <3>2, <3>3, Zenon
  <2> QED
    BY <2>1, SameOnFinite, Zenon
<1> QED
  BY <1>2, <1>3

-----------------------------------------------------------------------------
(* What the views make of one event, or of two, by SQL and in memory. *)

RowsAfter(r, events) == FoldLeft(Projected, r, events)

LEMMA RowsFoldIs ==
  ASSUME NEW r, NEW seq
  PROVE  RowsAfter(r, seq) =
           LET iter[s \in SUBSET DOMAIN seq] ==
                 IF s = {} THEN r ELSE LET x == Max(s) IN Projected(iter[s \ {x}], seq[x])
           IN  iter[DOMAIN seq]
BY Zenon DEF RowsAfter, FoldLeft, MapThenFoldSet

LEMMA RowsNone == ASSUME NEW r PROVE RowsAfter(r, <<>>) = r
<1> DEFINE Is(it) == it = [s \in SUBSET DOMAIN <<>> |->
                             IF s = {} THEN r ELSE LET x == Max(s) IN Projected(it[s \ {x}], <<>>[x])]
           iter == CHOOSE it : Is(it)
<1>1. Is([s \in SUBSET DOMAIN <<>> |-> r])
  OBVIOUS
<1>2. Is(iter)
  BY <1>1, Zenon
<1>3. RowsAfter(r, <<>>) = iter[DOMAIN <<>>]
  BY RowsFoldIs, Zenon
<1>4. iter[DOMAIN <<>>] = r
  <2> HIDE DEF iter
  <2> QED
    BY <1>2
<1> QED
  BY <1>3, <1>4

LEMMA RowsOne == ASSUME NEW r, NEW a PROVE RowsAfter(r, <<a>>) = Projected(r, a)
<1> DEFINE seq == <<a>>
           Is(it) == it = [s \in SUBSET DOMAIN seq |->
                             IF s = {} THEN r ELSE LET x == Max(s) IN Projected(it[s \ {x}], seq[x])]
           iter == CHOOSE it : Is(it)
           F == [s \in SUBSET DOMAIN seq |-> IF s = {} THEN r ELSE Projected(r, a)]
<1>1. DOMAIN seq = {1} /\ seq[1] = a
  OBVIOUS
<1> HIDE DEF seq
<1>2. SUBSET DOMAIN seq = {{}, {1}} /\ {1} \ {1} = {}
  BY <1>1
<1>3. Is(F)
  <2>1. F[{}] = r /\ F[{1}] = Projected(r, a)
    BY <1>2
  <2> SUFFICES ASSUME NEW s \in SUBSET DOMAIN seq
               PROVE  F[s] = IF s = {} THEN r ELSE LET x == Max(s) IN Projected(F[s \ {x}], seq[x])
    BY Zenon
  <2>2. CASE s = {}
    BY <2>1, <2>2, Zenon
  <2>3. CASE s = {1}
    <3>1. s # {} /\ Max(s) = 1 /\ s \ {1} = {} /\ seq[1] = a
      BY <2>3, <1>1, MaxOf
    <3> QED
      BY <2>1, <2>3, <3>1, Zenon
  <2> QED
    BY <1>2, <2>2, <2>3
<1>4. Is(iter)
  BY <1>3, Zenon
<1>5. RowsAfter(r, seq) = iter[DOMAIN seq]
  BY RowsFoldIs, Zenon
<1>6. iter[DOMAIN seq] = Projected(r, a)
  <2> HIDE DEF iter
  <2>1. \A s \in SUBSET DOMAIN seq :
          iter[s] = IF s = {} THEN r ELSE LET x == Max(s) IN Projected(iter[s \ {x}], seq[x])
    BY <1>4
  <2>2. iter[{}] = r
    BY <2>1
  <2> QED
    BY <2>1, <2>2, <1>1, <1>2, MaxOf
<1> QED
  BY <1>5, <1>6 DEF seq

LEMMA RowsTwo == ASSUME NEW r, NEW a, NEW b PROVE RowsAfter(r, <<a, b>>) = Projected(Projected(r, a), b)
<1> DEFINE seq == <<a, b>>
           Is(it) == it = [s \in SUBSET DOMAIN seq |->
                             IF s = {} THEN r ELSE LET x == Max(s) IN Projected(it[s \ {x}], seq[x])]
           iter == CHOOSE it : Is(it)
           F == [s \in SUBSET DOMAIN seq |-> IF s = {} THEN r ELSE IF s = {1} THEN Projected(r, a)
                                             ELSE IF s = {2} THEN Projected(r, b) ELSE Projected(Projected(r, a), b)]
<1>1. DOMAIN seq = {1, 2} /\ seq[1] = a /\ seq[2] = b
  OBVIOUS
<1> HIDE DEF seq
<1>2. /\ SUBSET DOMAIN seq = {{}, {1}, {2}, {1, 2}}
      /\ {1} \ {1} = {} /\ {2} \ {2} = {} /\ {1, 2} \ {2} = {1} /\ {1} # {2} /\ {1, 2} # {1} /\ {1, 2} # {2}
  BY <1>1
<1>3. Is(F)
  <2>1. F[{}] = r /\ F[{1}] = Projected(r, a) /\ F[{2}] = Projected(r, b) /\ F[{1, 2}] = Projected(Projected(r, a), b)
    BY <1>2
  <2> SUFFICES ASSUME NEW s \in SUBSET DOMAIN seq
               PROVE  F[s] = IF s = {} THEN r ELSE LET x == Max(s) IN Projected(F[s \ {x}], seq[x])
    BY Zenon
  <2> QED
    BY <2>1, <1>1, <1>2, MaxOf
<1>4. Is(iter)
  BY <1>3, Zenon
<1>5. RowsAfter(r, seq) = iter[DOMAIN seq]
  BY RowsFoldIs, Zenon
<1>6. iter[DOMAIN seq] = Projected(Projected(r, a), b)
  <2> HIDE DEF iter
  <2>1. \A s \in SUBSET DOMAIN seq :
          iter[s] = IF s = {} THEN r ELSE LET x == Max(s) IN Projected(iter[s \ {x}], seq[x])
    BY <1>4
  <2>2. iter[{}] = r
    BY <2>1
  <2>3. iter[{1}] = Projected(r, a)
    BY <2>1, <2>2, <1>1, <1>2, MaxOf
  <2>4. iter[{1, 2}] = Projected(iter[{1}], b)
    <3>1. {1, 2} \in SUBSET DOMAIN seq /\ {1, 2} # {} /\ {1, 2} \ {Max({1, 2})} = {1} /\ seq[Max({1, 2})] = b
      BY <1>1, <1>2, MaxOf
    <3> QED
      BY <2>1, <3>1
  <2> QED
    BY <2>3, <2>4, <1>1
<1> QED
  BY <1>5, <1>6 DEF seq

MemoryAfter(r, events) == FoldLeft(InMemory, r, events)

LEMMA MemoryFoldIs ==
  ASSUME NEW r, NEW seq
  PROVE  MemoryAfter(r, seq) =
           LET iter[s \in SUBSET DOMAIN seq] ==
                 IF s = {} THEN r ELSE LET x == Max(s) IN InMemory(iter[s \ {x}], seq[x])
           IN  iter[DOMAIN seq]
BY Zenon DEF MemoryAfter, FoldLeft, MapThenFoldSet

LEMMA MemoryNone == ASSUME NEW r PROVE MemoryAfter(r, <<>>) = r
<1> DEFINE Is(it) == it = [s \in SUBSET DOMAIN <<>> |->
                             IF s = {} THEN r ELSE LET x == Max(s) IN InMemory(it[s \ {x}], <<>>[x])]
           iter == CHOOSE it : Is(it)
<1>1. Is([s \in SUBSET DOMAIN <<>> |-> r])
  OBVIOUS
<1>2. Is(iter)
  BY <1>1, Zenon
<1>3. MemoryAfter(r, <<>>) = iter[DOMAIN <<>>]
  BY MemoryFoldIs, Zenon
<1>4. iter[DOMAIN <<>>] = r
  <2> HIDE DEF iter
  <2> QED
    BY <1>2
<1> QED
  BY <1>3, <1>4

LEMMA MemoryOne == ASSUME NEW r, NEW a PROVE MemoryAfter(r, <<a>>) = InMemory(r, a)
<1> DEFINE seq == <<a>>
           Is(it) == it = [s \in SUBSET DOMAIN seq |->
                             IF s = {} THEN r ELSE LET x == Max(s) IN InMemory(it[s \ {x}], seq[x])]
           iter == CHOOSE it : Is(it)
           F == [s \in SUBSET DOMAIN seq |-> IF s = {} THEN r ELSE InMemory(r, a)]
<1>1. DOMAIN seq = {1} /\ seq[1] = a
  OBVIOUS
<1> HIDE DEF seq
<1>2. SUBSET DOMAIN seq = {{}, {1}} /\ {1} \ {1} = {}
  BY <1>1
<1>3. Is(F)
  <2>1. F[{}] = r /\ F[{1}] = InMemory(r, a)
    BY <1>2
  <2> SUFFICES ASSUME NEW s \in SUBSET DOMAIN seq
               PROVE  F[s] = IF s = {} THEN r ELSE LET x == Max(s) IN InMemory(F[s \ {x}], seq[x])
    BY Zenon
  <2>2. CASE s = {}
    BY <2>1, <2>2, Zenon
  <2>3. CASE s = {1}
    <3>1. s # {} /\ Max(s) = 1 /\ s \ {1} = {} /\ seq[1] = a
      BY <2>3, <1>1, MaxOf
    <3> QED
      BY <2>1, <2>3, <3>1, Zenon
  <2> QED
    BY <1>2, <2>2, <2>3
<1>4. Is(iter)
  BY <1>3, Zenon
<1>5. MemoryAfter(r, seq) = iter[DOMAIN seq]
  BY MemoryFoldIs, Zenon
<1>6. iter[DOMAIN seq] = InMemory(r, a)
  <2> HIDE DEF iter
  <2>1. \A s \in SUBSET DOMAIN seq :
          iter[s] = IF s = {} THEN r ELSE LET x == Max(s) IN InMemory(iter[s \ {x}], seq[x])
    BY <1>4
  <2>2. iter[{}] = r
    BY <2>1
  <2> QED
    BY <2>1, <2>2, <1>1, <1>2, MaxOf
<1> QED
  BY <1>5, <1>6 DEF seq

LEMMA MemoryTwo == ASSUME NEW r, NEW a, NEW b PROVE MemoryAfter(r, <<a, b>>) = InMemory(InMemory(r, a), b)
<1> DEFINE seq == <<a, b>>
           Is(it) == it = [s \in SUBSET DOMAIN seq |->
                             IF s = {} THEN r ELSE LET x == Max(s) IN InMemory(it[s \ {x}], seq[x])]
           iter == CHOOSE it : Is(it)
           F == [s \in SUBSET DOMAIN seq |-> IF s = {} THEN r ELSE IF s = {1} THEN InMemory(r, a)
                                             ELSE IF s = {2} THEN InMemory(r, b) ELSE InMemory(InMemory(r, a), b)]
<1>1. DOMAIN seq = {1, 2} /\ seq[1] = a /\ seq[2] = b
  OBVIOUS
<1> HIDE DEF seq
<1>2. /\ SUBSET DOMAIN seq = {{}, {1}, {2}, {1, 2}}
      /\ {1} \ {1} = {} /\ {2} \ {2} = {} /\ {1, 2} \ {2} = {1} /\ {1} # {2} /\ {1, 2} # {1} /\ {1, 2} # {2}
  BY <1>1
<1>3. Is(F)
  <2>1. F[{}] = r /\ F[{1}] = InMemory(r, a) /\ F[{2}] = InMemory(r, b) /\ F[{1, 2}] = InMemory(InMemory(r, a), b)
    BY <1>2
  <2> SUFFICES ASSUME NEW s \in SUBSET DOMAIN seq
               PROVE  F[s] = IF s = {} THEN r ELSE LET x == Max(s) IN InMemory(F[s \ {x}], seq[x])
    BY Zenon
  <2> QED
    BY <2>1, <1>1, <1>2, MaxOf
<1>4. Is(iter)
  BY <1>3, Zenon
<1>5. MemoryAfter(r, seq) = iter[DOMAIN seq]
  BY MemoryFoldIs, Zenon
<1>6. iter[DOMAIN seq] = InMemory(InMemory(r, a), b)
  <2> HIDE DEF iter
  <2>1. \A s \in SUBSET DOMAIN seq :
          iter[s] = IF s = {} THEN r ELSE LET x == Max(s) IN InMemory(iter[s \ {x}], seq[x])
    BY <1>4
  <2>2. iter[{}] = r
    BY <2>1
  <2>3. iter[{1}] = InMemory(r, a)
    BY <2>1, <2>2, <1>1, <1>2, MaxOf
  <2>4. iter[{1, 2}] = InMemory(iter[{1}], b)
    <3>1. {1, 2} \in SUBSET DOMAIN seq /\ {1, 2} # {} /\ {1, 2} \ {Max({1, 2})} = {1} /\ seq[Max({1, 2})] = b
      BY <1>1, <1>2, MaxOf
    <3> QED
      BY <2>1, <3>1
  <2> QED
    BY <2>3, <2>4, <1>1
<1> QED
  BY <1>5, <1>6 DEF seq

-----------------------------------------------------------------------------
(* Both ways of applying an event's operations make n of the table q. *)
Makes(table, q, ops, n) == RunAll(table, q, ops) = n /\ ApplyAll(table, q, ops) = n

LEMMA MakesOfNone == ASSUME NEW table, NEW q PROVE Makes(table, q, {}, q)
<1> DEFINE F == [s \in SUBSET {} |-> q]
<1>1. F[{}] = q /\ IsFiniteSet({})
  BY FS_EmptySet
<1>2. IsRun(table, q, {}, F)
  BY DEF IsRun
<1>3. IsReplay(table, q, {}, F)
  BY DEF IsReplay
<1> HIDE DEF F
<1>4. RunAll(table, q, {}) = F[{}]
  BY <1>1, <1>2, RunsTo
<1>5. ApplyAll(table, q, {}) = F[{}]
  BY <1>1, <1>3, AppliesTo
<1> QED
  BY <1>1, <1>4, <1>5 DEF Makes

LEMMA MakesOfOne ==
  ASSUME NEW table, NEW q, NEW o, NEW n, T!RunOp(table, q, o) = n, T!ApplyOp(table, q, o) = n
  PROVE  Makes(table, q, {o}, n)
<1> DEFINE F == [s \in SUBSET {o} |-> IF s = {} THEN q ELSE n]
<1>1. /\ F[{}] = q /\ F[{o}] = n /\ IsFiniteSet({o}) /\ SUBSET {o} = {{}, {o}} /\ {o} \ {o} = {} /\ {o} # {}
      /\ (CHOOSE x \in {o} : TRUE) = o
  BY FS_Singleton
<1>2. IsRun(table, q, {o}, F)
  <2> SUFFICES ASSUME NEW s \in SUBSET {o}
               PROVE  F[s] = IF s = {} THEN q ELSE LET x == CHOOSE x \in s : TRUE IN T!RunOp(table, F[s \ {x}], x)
    BY Zenon DEF IsRun
  <2>1. CASE s = {}
    BY <1>1, <2>1, Zenon
  <2>2. CASE s = {o}
    BY <1>1, <2>2, Zenon
  <2> QED
    BY <1>1, <2>1, <2>2
<1>3. IsReplay(table, q, {o}, F)
  <2> SUFFICES ASSUME NEW s \in SUBSET {o}
               PROVE  F[s] = IF s = {} THEN q ELSE LET x == CHOOSE x \in s : TRUE IN T!ApplyOp(table, F[s \ {x}], x)
    BY Zenon DEF IsReplay
  <2>1. CASE s = {}
    BY <1>1, <2>1, Zenon
  <2>2. CASE s = {o}
    BY <1>1, <2>2, Zenon
  <2> QED
    BY <1>1, <2>1, <2>2
<1> HIDE DEF F
<1>4. RunAll(table, q, {o}) = F[{o}]
  BY <1>1, <1>2, RunsTo
<1>5. ApplyAll(table, q, {o}) = F[{o}]
  BY <1>1, <1>3, AppliesTo
<1> QED
  BY <1>1, <1>4, <1>5 DEF Makes

Without(q, K) == [x \in DOMAIN q \ K |-> q[x]]

LEMMA RemovedIs == ASSUME NEW q, NEW k PROVE T!Removed(q, k) = Without(q, {k})
BY Zenon DEF T!Removed, T!Restrict, Without

LEMMA RemoveIs ==
  ASSUME NEW table, NEW q, NEW k
  PROVE  /\ T!Remove(k).key = k
         /\ T!RunOp(table, q, T!Remove(k)) = Without(q, {k})
         /\ T!ApplyOp(table, q, T!Remove(k)) = Without(q, {k})
<1>1. T!Remove(k).key = k /\ T!Remove(k).op = "remove"
  BY DEF T!Remove
<1>2. \A o : o.op = "remove" => T!RunOp(table, q, o) = T!Removed(q, o.key) /\ T!ApplyOp(table, q, o) = T!Removed(q, o.key)
  BY DEF T!RunOp, T!ApplyOp
<1> QED
  BY <1>1, <1>2, RemovedIs

(* Removing rows, in whatever order. *)
LEMMA MakesOfRemoves ==
  ASSUME NEW table, NEW q, q = [x \in DOMAIN q |-> q[x]], NEW K, IsFiniteSet(K)
  PROVE  Makes(table, q, {T!Remove(k) : k \in K}, Without(q, K))
<1> DEFINE ops == {T!Remove(k) : k \in K}
           KeysOf(s) == {o.key : o \in s}
           F == [s \in SUBSET ops |-> [x \in DOMAIN q \ KeysOf(s) |-> q[x]]]
<1>1. IsFiniteSet(ops)
  <2> DEFINE R == [k \in K |-> T!Remove(k)]
  <2>1. R \in Surjection(K, ops)
    BY DEF Surjection
  <2> QED
    BY <2>1, FS_Surjection
<1>2. \A o \in ops : \E k \in K : o = T!Remove(k) /\ o.key = k
  BY RemoveIs
<1>3. KeysOf(ops) = K
  BY <1>2, RemoveIs
<1>4. F[{}] = q
  <2>1. KeysOf({}) = {} /\ DOMAIN q \ {} = DOMAIN q
    OBVIOUS
  <2> QED
    BY <2>1
<1>5. ASSUME NEW s \in SUBSET ops, NEW o \in s
      PROVE  F[s] = T!RunOp(table, F[s \ {o}], o) /\ F[s] = T!ApplyOp(table, F[s \ {o}], o)
  <2> DEFINE h == [x \in DOMAIN q \ KeysOf(s \ {o}) |-> q[x]]
  <2>1. F[s \ {o}] = h
    OBVIOUS
  <2>2. PICK k \in K : o = T!Remove(k) /\ o.key = k
    BY <1>2
  <2>3. KeysOf(s) = KeysOf(s \ {o}) \cup {k}
    BY <2>2
  <2>4. Without(h, {k}) = F[s]
    <3>1. DOMAIN h \ {k} = DOMAIN q \ KeysOf(s)
      BY <2>3
    <3> QED
      BY <3>1 DEF Without
  <2> HIDE DEF h, F
  <2>5. T!RunOp(table, h, T!Remove(k)) = F[s] /\ T!ApplyOp(table, h, T!Remove(k)) = F[s]
    BY <2>4, RemoveIs
  <2> QED
    BY <2>1, <2>2, <2>5, Zenon
<1>6. IsRun(table, q, ops, F)
  <2>1. ASSUME NEW s \in SUBSET ops
        PROVE  F[s] = IF s = {} THEN q ELSE LET x == CHOOSE x \in s : TRUE IN T!RunOp(table, F[s \ {x}], x)
    <3>1. s # {} => (CHOOSE x \in s : TRUE) \in s
      BY Zenon
    <3> HIDE DEF F, ops
    <3> QED
      BY <1>4, <1>5, <3>1, Zenon
  <2> QED
    BY <2>1, Zenon DEF IsRun
<1>7. IsReplay(table, q, ops, F)
  <2>1. ASSUME NEW s \in SUBSET ops
        PROVE  F[s] = IF s = {} THEN q ELSE LET x == CHOOSE x \in s : TRUE IN T!ApplyOp(table, F[s \ {x}], x)
    <3>1. s # {} => (CHOOSE x \in s : TRUE) \in s
      BY Zenon
    <3> HIDE DEF F, ops
    <3> QED
      BY <1>4, <1>5, <3>1, Zenon
  <2> QED
    BY <2>1, Zenon DEF IsReplay
<1>8. F[ops] = Without(q, K)
  BY <1>3 DEF Without
<1> HIDE DEF F, ops
<1>9. RunAll(table, q, ops) = F[ops]
  BY <1>1, <1>6, RunsTo
<1>10. ApplyAll(table, q, ops) = F[ops]
  BY <1>1, <1>7, AppliesTo
<1>11. Makes(table, q, ops, Without(q, K))
  BY <1>8, <1>9, <1>10, Zenon DEF Makes
<1> QED
  BY <1>11 DEF ops

(* The other operations: a row put in, or changed. *)
With(q, k, row) == [x \in DOMAIN q \cup {k} |-> IF x = k THEN row ELSE q[x]]

LEMMA WithIs ==
  ASSUME NEW q, NEW k, NEW row
  PROVE  /\ k \notin DOMAIN q => T!Over(q, [x \in {k} |-> row]) = With(q, k, row)
         /\ k \in DOMAIN q => [q EXCEPT ![k] = row] = With(q, k, row)
BY DEF With, T!Over

LEMMA InsertMakes ==
  ASSUME NEW table, NEW q, NEW k, NEW given, k \notin DOMAIN q, ~ T!Incomplete(T!Over(given, table))
  PROVE  Makes(table, q, {T!Insert(k, given, "ignore")}, With(q, k, T!Over(given, table)))
<1> DEFINE o == T!Insert(k, given, "ignore")
<1>1. o.op = "insert" /\ o.key = k /\ o.given = given
  BY DEF T!Insert
<1> HIDE DEF o
<1>2. T!Proposed(table, o) = T!Over(given, table)
  BY <1>1, Zenon DEF T!Proposed, T!Given
<1>3. T!RunOp(table, q, o) = T!Over(q, [x \in {k} |-> T!Over(given, table)])
  BY <1>1, <1>2 DEF T!RunOp
<1>4. T!ApplyOp(table, q, o) = T!Over(q, [x \in {k} |-> T!Over(given, table)])
  BY <1>1, <1>2 DEF T!ApplyOp
<1>5. T!Over(q, [x \in {k} |-> T!Over(given, table)]) = With(q, k, T!Over(given, table))
  BY WithIs
<1> QED
  BY <1>3, <1>4, <1>5, MakesOfOne DEF o

LEMMA UpdateMakes ==
  ASSUME NEW table, NEW q, NEW k, NEW change
  PROVE  Makes(table, q, {T!Update(k, change)}, IF k \in DOMAIN q THEN With(q, k, T!Changed(q[k], change)) ELSE q)
<1> DEFINE o == T!Update(k, change)
           n == IF k \in DOMAIN q THEN With(q, k, T!Changed(q[k], change)) ELSE q
<1>1. o.op = "update" /\ o.key = k /\ o.change = change
  BY DEF T!Update
<1> HIDE DEF o
<1>2. T!RunOp(table, q, o) = IF k \in DOMAIN q THEN [q EXCEPT ![k] = T!Changed(q[k], change)] ELSE q
  BY <1>1 DEF T!RunOp
<1>3. T!ApplyOp(table, q, o) = IF k \in DOMAIN q THEN [q EXCEPT ![k] = T!Changed(q[k], change)] ELSE q
  BY <1>1 DEF T!ApplyOp
<1>4. T!RunOp(table, q, o) = n /\ T!ApplyOp(table, q, o) = n
  BY <1>2, <1>3, WithIs
<1> HIDE DEF n
<1> QED
  BY <1>4, MakesOfOne DEF o, n

LEMMA UpsertMakes ==
  ASSUME NEW table, NEW q, NEW k, NEW change, NEW new,
         new = T!Over(T!Over(change.add, T!Over(change.set, change.max)), table), ~ T!Incomplete(new)
  PROVE  Makes(table, q, {T!Upsert(k, change)}, With(q, k, IF k \in DOMAIN q THEN T!Changed(q[k], change) ELSE new))
<1> DEFINE o == T!Upsert(k, change)
           row == IF k \in DOMAIN q THEN T!Changed(q[k], change) ELSE new
           n == With(q, k, row)
<1>1. o.op = "upsert" /\ o.key = k /\ o.change = change
  BY DEF T!Upsert
<1> HIDE DEF o
<1>2. T!Proposed(table, o) = new
  BY <1>1 DEF T!Proposed, T!Given
<1>3. k \in DOMAIN q => T!OnExisting(q[k], o) = row
  BY <1>1 DEF T!OnExisting
<1>4. T!RunOp(table, q, o) = IF k \in DOMAIN q THEN [q EXCEPT ![k] = T!OnExisting(q[k], o)] ELSE T!Over(q, [x \in {k} |-> new])
  BY <1>1, <1>2 DEF T!RunOp
<1>5. T!ApplyOp(table, q, o) = IF k \in DOMAIN q THEN [q EXCEPT ![k] = T!OnExisting(q[k], o)] ELSE T!Over(q, [x \in {k} |-> new])
  BY <1>1, <1>2 DEF T!ApplyOp
<1>6. T!RunOp(table, q, o) = n /\ T!ApplyOp(table, q, o) = n
  <2>1. CASE k \in DOMAIN q
    <3> HIDE DEF row
    <3>1. [q EXCEPT ![k] = row] = n
      BY <2>1, WithIs
    <3> QED
      BY <1>3, <1>4, <1>5, <2>1, <3>1
  <2>2. CASE k \notin DOMAIN q
    <3>1. row = new
      BY <2>2
    <3> HIDE DEF row
    <3>2. T!Over(q, [x \in {k} |-> new]) = With(q, k, new)
      BY <2>2 DEF With, T!Over
    <3> QED
      BY <1>4, <1>5, <2>2, <3>1, <3>2
  <2> QED
    BY <2>1, <2>2
<1> HIDE DEF n
<1>7. Makes(table, q, {o}, n)
  BY <1>6, MakesOfOne
<1> QED
  BY <1>7 DEF o, n

(* The three tables together. *)
LEMMA TablesAre ==
  /\ DOMAIN Tables = {"seats", "enrolments", "readiness"}
  /\ Tables.seats = [capacity |-> Required, subscribers |-> 0]
  /\ Tables.enrolments = [seat_number |-> Required]
  /\ Tables.readiness = [teacher |-> Null, room |-> Null, students |-> 0, status |-> "waiting"]
BY DEF Tables

(* The rows a replay in memory keeps. *)
Kept(r) == [t \in Replayable |-> r[t]]

(* The views make n of the rows r, and so does a replay in memory of the rows it keeps. *)
Makes3(r, e, n) ==
  /\ Makes(Tables.seats, r.seats, CourseSeatsView(e), n.seats)
  /\ RunAll(Tables.enrolments, r.enrolments, CourseEnrolmentsView(r.enrolments, e)) = n.enrolments
  /\ Makes(Tables.readiness, r.readiness, CourseReadinessView(e), n.readiness)

LEMMA ViewsMake ==
  ASSUME NEW r, r = [t \in DOMAIN Tables |-> r[t]], NEW e, NEW n, n = [t \in DOMAIN Tables |-> n[t]], Makes3(r, e, n)
  PROVE  Projected(r, e) = n /\ InMemory(Kept(r), e) = Kept(n)
<1>1. /\ OpsOf("seats", r.seats, e) = CourseSeatsView(e) /\ OpsOf("enrolments", r.enrolments, e) = CourseEnrolmentsView(r.enrolments, e)
      /\ OpsOf("readiness", r.readiness, e) = CourseReadinessView(e)
  BY DEF OpsOf
<1>2. Projected(r, e) = [t \in DOMAIN r |-> RunAll(Tables[t], r[t], OpsOf(t, r[t], e))]
  BY Zenon DEF Projected, Applied, RunAll
<1>3. InMemory(Kept(r), e) = [t \in DOMAIN Kept(r) |-> ApplyAll(Tables[t], Kept(r)[t], OpsOf(t, Kept(r)[t], e))]
  BY Zenon DEF InMemory, Applied, ApplyAll
<1>4. DOMAIN r = DOMAIN Tables /\ DOMAIN Kept(r) = Replayable /\ \A t \in Replayable : Kept(r)[t] = r[t]
  BY DEF Kept
<1>5. \A t \in DOMAIN Tables : RunAll(Tables[t], r[t], OpsOf(t, r[t], e)) = n[t]
  BY <1>1, TablesAre DEF Makes3, Makes
<1>6. \A t \in Replayable : ApplyAll(Tables[t], r[t], OpsOf(t, r[t], e)) = n[t]
  BY <1>1, TablesAre DEF Makes3, Makes, Replayable
<1>7. Projected(r, e) = n
  BY <1>2, <1>4, <1>5
<1>8. InMemory(Kept(r), e) = [t \in Replayable |-> n[t]]
  BY <1>3, <1>4, <1>6
<1> QED
  BY <1>7, <1>8 DEF Kept

-----------------------------------------------------------------------------
(* Changes of columns. *)
LEMMA NoColumns == DOMAIN <<>> = {}
OBVIOUS

LEMMA SettingIs ==
  ASSUME NEW row, NEW f
  PROVE  /\ T!Setting(f).add = <<>> /\ T!Setting(f).set = f /\ T!Setting(f).max = <<>>
         /\ T!Changed(row, T!Setting(f)) = [c \in DOMAIN row |-> IF c \in DOMAIN f THEN f[c] ELSE row[c]]
<1>1. T!Setting(f).add = <<>> /\ T!Setting(f).set = f /\ T!Setting(f).max = <<>>
  BY DEF T!Setting, T!NoChange
<1> QED
  BY <1>1, NoColumns DEF T!Changed

LEMMA AddingIs ==
  ASSUME NEW row, NEW f
  PROVE  /\ T!Adding(f).add = f /\ T!Adding(f).set = <<>> /\ T!Adding(f).max = <<>>
         /\ T!Changed(row, T!Adding(f)) = [c \in DOMAIN row |-> IF c \in DOMAIN f THEN row[c] + f[c] ELSE row[c]]
<1>1. T!Adding(f).add = f /\ T!Adding(f).set = <<>> /\ T!Adding(f).max = <<>>
  BY DEF T!Adding, T!NoChange
<1> QED
  BY <1>1, NoColumns DEF T!Changed

(* What is given, over where the columns start. *)
LEMMA GivenIs ==
  ASSUME NEW f, NEW start
  PROVE  /\ T!Over(T!Over(f, T!Over(<<>>, <<>>)), start) = T!Over(f, start)
         /\ T!Over(T!Over(<<>>, T!Over(f, <<>>)), start) = T!Over(f, start)
<1>1. T!Over(<<>>, <<>>) = <<>>
  BY NoColumns DEF T!Over
<1>2. DOMAIN T!Over(f, <<>>) = DOMAIN f /\ \A c \in DOMAIN f : T!Over(f, <<>>)[c] = f[c]
  BY NoColumns DEF T!Over
<1>3. DOMAIN T!Over(<<>>, T!Over(f, <<>>)) = DOMAIN f /\ \A c \in DOMAIN f : T!Over(<<>>, T!Over(f, <<>>))[c] = f[c]
  BY <1>2, NoColumns DEF T!Over
<1>4. \A g : DOMAIN g = DOMAIN f /\ (\A c \in DOMAIN f : g[c] = f[c]) => T!Over(g, start) = T!Over(f, start)
  BY DEF T!Over
<1> QED
  BY <1>1, <1>2, <1>3, <1>4

(* The rows. *)
SeatRow(capacity, subscribers) == [capacity |-> capacity, subscribers |-> subscribers]
ReadyRow(teacher, room, enrolled, word) == [teacher |-> teacher, room |-> room, students |-> enrolled, status |-> word]

LEMMA SeatRowOpened ==
  ASSUME NEW n \in Nat
  PROVE  T!Over([capacity |-> n], Tables.seats) = SeatRow(n, 0) /\ ~ T!Incomplete(SeatRow(n, 0))
BY TablesAre, RequiredAssumption DEF T!Over, SeatRow, T!Incomplete

LEMMA SeatRowChanged ==
  ASSUME NEW n, NEW k \in Int, NEW i \in Int
  PROVE  /\ T!Changed(SeatRow(n, k), T!Adding([subscribers |-> i])) = SeatRow(n, k + i)
         /\ T!Changed(SeatRow(n, k), T!Setting([subscribers |-> i])) = SeatRow(n, i)
<1>1. T!Changed(SeatRow(n, k), T!Adding([subscribers |-> i])) = SeatRow(n, k + i)
  BY AddingIs DEF SeatRow
<1>2. T!Changed(SeatRow(n, k), T!Setting([subscribers |-> i])) = SeatRow(n, i)
  BY SettingIs DEF SeatRow
<1> QED
  BY <1>1, <1>2

LEMMA IsReadyRow ==
  ASSUME NEW g, g = [c \in {"teacher", "room", "students", "status"} |-> g[c]]
  PROVE  g = ReadyRow(g.teacher, g.room, g.students, g.status)
BY DEF ReadyRow

LEMMA ReadyRowIs ==
  ASSUME NEW t, NEW o, NEW k, NEW st
  PROVE  LET row == ReadyRow(t, o, k, st)
         IN  DOMAIN row = {"teacher", "room", "students", "status"} /\ row.teacher = t /\ row.room = o /\ row.students = k /\ row.status = st
BY DEF ReadyRow

LEMMA ReadyRowAdding ==
  ASSUME NEW t, NEW o, NEW k \in Int, NEW st, NEW i \in Int
  PROVE  T!Changed(ReadyRow(t, o, k, st), T!Adding([students |-> i])) = ReadyRow(t, o, k + i, st)
<1> DEFINE row == ReadyRow(t, o, k, st)
           f == [students |-> i]
           g == [c \in DOMAIN row |-> IF c \in DOMAIN f THEN row[c] + f[c] ELSE row[c]]
<1>1. DOMAIN f = {"students"} /\ f["students"] = i
  OBVIOUS
<1>2. /\ DOMAIN row = {"teacher", "room", "students", "status"}
      /\ row["teacher"] = t /\ row["room"] = o /\ row["students"] = k /\ row["status"] = st
  BY ReadyRowIs
<1>3. T!Changed(row, T!Adding(f)) = g
  BY AddingIs
<1> HIDE DEF row, f
<1>4. g = [c \in {"teacher", "room", "students", "status"} |-> g[c]]
  BY <1>2
<1>5. g["teacher"] = t /\ g["room"] = o /\ g["students"] = k + i /\ g["status"] = st
  BY <1>1, <1>2
<1> HIDE DEF g
<1>6. g = ReadyRow(t, o, k + i, st)
  BY <1>4, <1>5, IsReadyRow
<1> QED
  BY <1>3, <1>6 DEF row, f

LEMMA ReadyRowSetting ==
  ASSUME NEW t, NEW o, NEW k, NEW st, NEW f, DOMAIN f \subseteq {"teacher", "room", "students", "status"}
  PROVE  T!Changed(ReadyRow(t, o, k, st), T!Setting(f)) =
           ReadyRow(IF "teacher" \in DOMAIN f THEN f.teacher ELSE t, IF "room" \in DOMAIN f THEN f.room ELSE o,
                    IF "students" \in DOMAIN f THEN f.students ELSE k, IF "status" \in DOMAIN f THEN f.status ELSE st)
<1> DEFINE row == ReadyRow(t, o, k, st)
           g == [c \in DOMAIN row |-> IF c \in DOMAIN f THEN f[c] ELSE row[c]]
<1>2. /\ DOMAIN row = {"teacher", "room", "students", "status"}
      /\ row["teacher"] = t /\ row["room"] = o /\ row["students"] = k /\ row["status"] = st
  BY ReadyRowIs
<1>3. T!Changed(row, T!Setting(f)) = g
  BY SettingIs
<1> HIDE DEF row
<1>4. g = [c \in {"teacher", "room", "students", "status"} |-> g[c]]
  BY <1>2
<1>5. /\ g["teacher"] = IF "teacher" \in DOMAIN f THEN f["teacher"] ELSE t
      /\ g["room"] = IF "room" \in DOMAIN f THEN f["room"] ELSE o
      /\ g["students"] = IF "students" \in DOMAIN f THEN f["students"] ELSE k
      /\ g["status"] = IF "status" \in DOMAIN f THEN f["status"] ELSE st
  BY <1>2
<1> HIDE DEF g
<1>6. g = ReadyRow(g.teacher, g.room, g.students, g.status)
  BY <1>4, IsReadyRow
<1> QED
  BY <1>3, <1>5, <1>6 DEF row

LEMMA OneColumn ==
  /\ \A v : LET f == [teacher |-> v] IN DOMAIN f = {"teacher"} /\ f.teacher = v
  /\ \A v : LET f == [room |-> v] IN DOMAIN f = {"room"} /\ f.room = v
  /\ \A v : LET f == [students |-> v] IN DOMAIN f = {"students"} /\ f.students = v
  /\ \A v : LET f == [status |-> v] IN DOMAIN f = {"status"} /\ f.status = v
OBVIOUS

LEMMA ReadyRowChanged ==
  ASSUME NEW t, NEW o, NEW k \in Int, NEW st, NEW v
  PROVE  /\ T!Changed(ReadyRow(t, o, k, st), T!Setting([teacher |-> v])) = ReadyRow(v, o, k, st)
         /\ T!Changed(ReadyRow(t, o, k, st), T!Setting([room |-> v])) = ReadyRow(t, v, k, st)
         /\ T!Changed(ReadyRow(t, o, k, st), T!Setting([status |-> v])) = ReadyRow(t, o, k, v)
<1>1. ASSUME NEW f, DOMAIN f = {"teacher"}, f.teacher = v PROVE T!Changed(ReadyRow(t, o, k, st), T!Setting(f)) = ReadyRow(v, o, k, st)
  BY <1>1, ReadyRowSetting
<1>2. ASSUME NEW f, DOMAIN f = {"room"}, f.room = v PROVE T!Changed(ReadyRow(t, o, k, st), T!Setting(f)) = ReadyRow(t, v, k, st)
  BY <1>2, ReadyRowSetting
<1>3. ASSUME NEW f, DOMAIN f = {"status"}, f.status = v PROVE T!Changed(ReadyRow(t, o, k, st), T!Setting(f)) = ReadyRow(t, o, k, v)
  BY <1>3, ReadyRowSetting
<1> QED
  BY <1>1, <1>2, <1>3, OneColumn

(* A row that is new is what the change makes of the row of the table's start values. *)
Opens(change) == T!Over(T!Over(change.add, T!Over(change.set, change.max)), Tables.readiness)

LEMMA StartRow == Tables.readiness = ReadyRow(Null, Null, 0, "waiting")
BY TablesAre DEF ReadyRow

LEMMA OpensSetting ==
  ASSUME NEW f, DOMAIN f \subseteq {"teacher", "room", "students", "status"}
  PROVE  Opens(T!Setting(f)) = T!Changed(Tables.readiness, T!Setting(f))
<1> DEFINE start == Tables.readiness
<1>1. DOMAIN start = {"teacher", "room", "students", "status"}
  BY StartRow, ReadyRowIs
<1> HIDE DEF start
<1>2. (DOMAIN f) \cup (DOMAIN start) = DOMAIN start
  BY <1>1
<1>3. Opens(T!Setting(f)) = [c \in (DOMAIN f) \cup (DOMAIN start) |-> IF c \in DOMAIN f THEN f[c] ELSE start[c]]
  <2>1. Opens(T!Setting(f)) = T!Over(f, start)
    <3>1. T!Setting(f).add = <<>> /\ T!Setting(f).set = f /\ T!Setting(f).max = <<>>
      BY SettingIs, Zenon
    <3>2. Opens(T!Setting(f)) = T!Over(T!Over(<<>>, T!Over(f, <<>>)), start)
      BY <3>1, Zenon DEF Opens, start
    <3> QED
      BY <3>2, GivenIs
  <2> QED
    BY <2>1 DEF T!Over
<1>4. T!Changed(start, T!Setting(f)) = [c \in DOMAIN start |-> IF c \in DOMAIN f THEN f[c] ELSE start[c]]
  BY SettingIs
<1> QED
  BY <1>2, <1>3, <1>4 DEF start

LEMMA OpensAdding == ASSUME NEW i \in Int PROVE Opens(T!Adding([students |-> i])) = ReadyRow(Null, Null, i, "waiting")
<1> DEFINE start == Tables.readiness
           f == [students |-> i]
           g == [c \in (DOMAIN f) \cup (DOMAIN start) |-> IF c \in DOMAIN f THEN f[c] ELSE start[c]]
<1>1. DOMAIN f = {"students"} /\ f["students"] = i
  OBVIOUS
<1>2. /\ DOMAIN start = {"teacher", "room", "students", "status"}
      /\ start["teacher"] = Null /\ start["room"] = Null /\ start["status"] = "waiting"
  BY StartRow, ReadyRowIs
<1>3. Opens(T!Adding(f)) = g
  <2> HIDE DEF f
  <2>1. Opens(T!Adding(f)) = T!Over(f, start)
    <3>1. T!Adding(f).add = f /\ T!Adding(f).set = <<>> /\ T!Adding(f).max = <<>>
      BY AddingIs, Zenon
    <3>2. Opens(T!Adding(f)) = T!Over(T!Over(f, T!Over(<<>>, <<>>)), start)
      BY <3>1, Zenon DEF Opens, start
    <3> QED
      BY <3>2, GivenIs
  <2> HIDE DEF start
  <2> QED
    BY <2>1 DEF T!Over
<1> HIDE DEF start, f
<1>4. g = [c \in {"teacher", "room", "students", "status"} |-> g[c]]
  <2>1. (DOMAIN f) \cup (DOMAIN start) = {"teacher", "room", "students", "status"}
    BY <1>1, <1>2
  <2> QED
    BY <2>1
<1>5. g["teacher"] = Null /\ g["room"] = Null /\ g["students"] = i /\ g["status"] = "waiting"
  BY <1>1, <1>2
<1> HIDE DEF g
<1>6. g = ReadyRow(Null, Null, i, "waiting")
  BY <1>4, <1>5, IsReadyRow
<1> QED
  BY <1>3, <1>6 DEF f

LEMMA ReadyRowOpened ==
  ASSUME NEW v
  PROVE  /\ Opens(T!Setting([teacher |-> v])) = ReadyRow(v, Null, 0, "waiting")
         /\ Opens(T!Setting([room |-> v])) = ReadyRow(Null, v, 0, "waiting")
         /\ Opens(T!Setting([status |-> v])) = ReadyRow(Null, Null, 0, v)
BY StartRow, OneColumn, OpensSetting, ReadyRowChanged

LEMMA ReadyRowComplete ==
  ASSUME NEW t \in {TRUE, Null}, NEW o \in {TRUE, Null}, NEW k \in Int, NEW st \in {"waiting", "confirmed", "cancelled"}
  PROVE  ~ T!Incomplete(ReadyRow(t, o, k, st))
<1>1. t # Required /\ o # Required
  BY RequiredAssumption, Zenon
<1>2. k # Required /\ st # Required
  BY RequiredAssumption
<1> QED
  BY <1>1, <1>2, ReadyRowIs DEF T!Incomplete

-----------------------------------------------------------------------------
(* The rows say what the models do, of any models m and tables r. *)
Flag(b) == IF b THEN TRUE ELSE Null
ReadyRowOf(x) == ReadyRow(Flag(x.teacher), Flag(x.room), Cardinality(x.students), x.status)
NotReady == [teacher |-> FALSE, room |-> FALSE, students |-> {}, status |-> "waiting"]

SeatsShow(m, q) == q = [c \in {k \in Courses : m.course[k].exists} |-> SeatRow(m.course[c].capacity, m.course[c].subscribers)]

(* A seat number is one the next can be counted from. *)
EnrolmentsShow(m, q) == q \in [Held(m) -> [seat_number : Nat]]

(* A course without a row is as it was. *)
ReadinessShow(m, q) ==
  /\ q = [c \in DOMAIN q |-> ReadyRowOf(m.readiness[c])] /\ DOMAIN q \subseteq Courses
  /\ \A c \in Courses \ DOMAIN q : m.readiness[c] = NotReady
  /\ \A c \in Courses : IsFiniteSet(m.readiness[c].students)

Shows(m, r) ==
  /\ r = [t \in DOMAIN Tables |-> r[t]]
  /\ SeatsShow(m, r.seats) /\ EnrolmentsShow(m, r.enrolments) /\ ReadinessShow(m, r.readiness)

(* So they do after the event, and a replay in memory keeps the same. *)
Follows(m, r, e) == Shows(Folded(m, e), Projected(r, e)) /\ InMemory(Kept(r), e) = Kept(Projected(r, e))

LEMMA FollowsBy ==
  ASSUME NEW m, NEW r, Shows(m, r), NEW e, NEW n, n = Folded(m, e), NEW a, NEW b, NEW c,
         Makes(Tables.seats, r.seats, CourseSeatsView(e), a), SeatsShow(n, a),
         RunAll(Tables.enrolments, r.enrolments, CourseEnrolmentsView(r.enrolments, e)) = b, EnrolmentsShow(n, b),
         Makes(Tables.readiness, r.readiness, CourseReadinessView(e), c), ReadinessShow(n, c)
  PROVE  Follows(m, r, e)
<1> DEFINE q == [seats |-> a, enrolments |-> b, readiness |-> c]
<1>1. q = [t \in DOMAIN Tables |-> q[t]] /\ q.seats = a /\ q.enrolments = b /\ q.readiness = c
  BY TablesAre
<1> HIDE DEF q
<1>2. r = [t \in DOMAIN Tables |-> r[t]]
  BY DEF Shows
<1>3. Makes3(r, e, q)
  BY <1>1 DEF Makes3
<1>4. Projected(r, e) = q /\ InMemory(Kept(r), e) = Kept(q)
  BY <1>1, <1>2, <1>3, ViewsMake
<1> QED
  BY <1>1, <1>4 DEF Follows, Shows

LEMMA ReadyRowOfIs ==
  ASSUME NEW x, x.teacher \in BOOLEAN, x.room \in BOOLEAN, IsFiniteSet(x.students), x.status \in {"waiting", "confirmed", "cancelled"}
  PROVE  /\ Cardinality(x.students) \in Int /\ ~ T!Incomplete(ReadyRowOf(x))
         /\ Flag(x.teacher) \in {TRUE, Null} /\ Flag(x.room) \in {TRUE, Null}
<1>1. Cardinality(x.students) \in Int
  BY FS_CardinalityType
<1>2. Flag(x.teacher) \in {TRUE, Null} /\ Flag(x.room) \in {TRUE, Null}
  BY Zenon DEF Flag
<1> QED
  BY <1>1, <1>2, ReadyRowComplete DEF ReadyRowOf

LEMMA NotReadyIs ==
  /\ ReadyRowOf(NotReady) = ReadyRow(Null, Null, 0, "waiting")
  /\ NotReady.teacher = FALSE /\ NotReady.room = FALSE /\ NotReady.students = {} /\ NotReady.status = "waiting"
<1>1. NotReady.teacher = FALSE /\ NotReady.room = FALSE /\ NotReady.students = {} /\ NotReady.status = "waiting"
  BY DEF NotReady
<1>2. Flag(FALSE) = Null
  BY Zenon DEF Flag
<1>3. Cardinality({}) = 0
  BY FS_EmptySet
<1> HIDE DEF NotReady
<1> QED
  BY <1>1, <1>2, <1>3 DEF ReadyRowOf

(* One course's readiness changes, and its row is changed alike, or is opened so. *)
LEMMA ReadinessGoesOn ==
  ASSUME NEW m, ModelsType(m), NEW n, NEW q, ReadinessShow(m, q), NEW c \in Courses, NEW x, NEW change,
         n.readiness = [m.readiness EXCEPT ![c] = x],
         x.teacher \in BOOLEAN, x.room \in BOOLEAN, IsFiniteSet(x.students), x.status \in {"waiting", "confirmed", "cancelled"},
         T!Changed(ReadyRowOf(m.readiness[c]), change) = ReadyRowOf(x),
         ~ T!Incomplete(Opens(change)), m.readiness[c] = NotReady => Opens(change) = ReadyRowOf(x)
  PROVE  \E p : Makes(Tables.readiness, q, {T!Upsert(c, change)}, p) /\ ReadinessShow(n, p)
<1> DEFINE p == With(q, c, ReadyRowOf(x))
<1>1. Makes(Tables.readiness, q, {T!Upsert(c, change)}, With(q, c, IF c \in DOMAIN q THEN T!Changed(q[c], change) ELSE Opens(change)))
  BY UpsertMakes DEF Opens
<1>2. c \in DOMAIN q => q[c] = ReadyRowOf(m.readiness[c])
  BY DEF ReadinessShow
<1>3. ReadinessShow(n, p)
  <2>1. DOMAIN p = DOMAIN q \cup {c} /\ \A k \in DOMAIN p : p[k] = IF k = c THEN ReadyRowOf(x) ELSE q[k]
    BY DEF With
  <2>2. p = [k \in DOMAIN p |-> p[k]]
    BY DEF With
  <2> HIDE DEF p
  <2>3. \A k \in Courses : n.readiness[k] = IF k = c THEN x ELSE m.readiness[k]
    BY DEF ModelsType, ReadinessState
  <2>4. \A k \in DOMAIN p : p[k] = ReadyRowOf(n.readiness[k])
    BY <2>1, <2>3 DEF ReadinessShow
  <2>5. p = [k \in DOMAIN p |-> ReadyRowOf(n.readiness[k])]
    BY <2>2, <2>4
  <2> QED
    BY <2>1, <2>3, <2>5 DEF ReadinessShow
<1>4. (IF c \in DOMAIN q THEN T!Changed(q[c], change) ELSE Opens(change)) = ReadyRowOf(x)
  BY <1>2 DEF ReadinessShow
<1>5. Makes(Tables.readiness, q, {T!Upsert(c, change)}, p)
  BY <1>1, <1>4
<1> QED
  BY <1>3, <1>5

-----------------------------------------------------------------------------
(* The seat numbers. *)
LEMMA HasGreatest ==
  ASSUME NEW S \in SUBSET Nat, IsFiniteSet(S), S # {}
  PROVE  \E x \in S : \A y \in S : x >= y
<1> DEFINE Has1(V) == \E x \in V : \A y \in V : x >= y
           Bad == {V \in SUBSET S : V # {} /\ ~ Has1(V)}
           Sizes == {Cardinality(V) : V \in Bad}
<1>1. \A V \in Bad : IsFiniteSet(V) /\ Cardinality(V) \in Nat /\ V # {} /\ V \subseteq Nat
  BY FS_Subset, FS_CardinalityType
<1>2. ASSUME Bad # {} PROVE FALSE
  <2>1. Sizes \in SUBSET Nat /\ Sizes # {}
    BY <1>1, <1>2
  <2>2. PICK k \in Sizes : \A j \in Sizes : k <= j
    <3> HIDE DEF Sizes
    <3> QED
      BY <2>1, LeastNat
  <2>3. PICK V \in Bad : Cardinality(V) = k
    BY <2>2
  <2>4. PICK x \in V : TRUE
    BY <1>1
  <2>5. Cardinality(V \ {x}) = Cardinality(V) - 1
    BY <1>1, FS_RemoveElement
  <2>6. ASSUME V \ {x} \in Bad PROVE FALSE
    <3>1. k <= Cardinality(V \ {x})
      BY <2>2, <2>6
    <3> QED
      BY <1>1, <2>3, <2>5, <3>1
  <2>7. Has1(V)
    <3>1. CASE V \ {x} = {}
      <4>1. V = {x} /\ x \in Nat
        BY <1>1, <3>1
      <4> QED
        BY <4>1
    <3>2. CASE V \ {x} # {}
      <4>1. Has1(V \ {x})
        BY <2>6, <3>2
      <4>2. PICK z \in V \ {x} : \A y \in V \ {x} : z >= y
        BY <4>1
      <4>3. x \in Nat /\ z \in Nat /\ z \in V
        BY <1>1
      <4>4. CASE z >= x
        <5>1. \A y \in V : z >= y
          BY <4>2, <4>4
        <5> QED
          BY <4>3, <5>1
      <4>5. CASE x > z
        <5>1. \A y \in V : y \in Nat
          BY <1>1
        <5>2. \A y \in V : x >= y
          BY <4>2, <4>3, <4>5, <5>1
        <5> QED
          BY <5>2
      <4> QED
        BY <4>3, <4>4, <4>5
    <3> QED
      BY <3>1, <3>2
  <2> QED
    BY <2>3, <2>7
<1> QED
  BY <1>2

LEMMA NextSeatIsNat ==
  ASSUME NEW m, NEW q, EnrolmentsShow(m, q), NEW c, IsFiniteSet(SeatsOf(m, c))
  PROVE  NextSeat(q, c) \in Nat
<1> DEFINE Taken == {x \in DOMAIN q : x[2] = c}
           Numbers == {q[x].seat_number : x \in Taken}
           S == {0} \cup Numbers
<1>1. Taken = SeatsOf(m, c) /\ \A x \in Taken : q[x].seat_number \in Nat
  BY DEF EnrolmentsShow, SeatsOf
<1>2. IsFiniteSet(Numbers)
  <2> DEFINE R == [x \in Taken |-> q[x].seat_number]
  <2>1. R \in Surjection(Taken, Numbers)
    BY DEF Surjection
  <2>2. IsFiniteSet(Taken)
    BY <1>1
  <2> HIDE DEF R, Taken, Numbers
  <2> QED
    BY <2>1, <2>2, FS_Surjection
<1>3. S \in SUBSET Nat /\ S # {}
  BY <1>1
<1>4. IsFiniteSet(S)
  <2> HIDE DEF Numbers
  <2> QED
    BY <1>2, FS_Singleton, FS_Union
<1>5. Max(S) \in Nat
  <2> HIDE DEF S
  <2>1. \E x \in S : \A y \in S : x >= y
    BY <1>3, <1>4, HasGreatest
  <2> QED
    BY <1>3, <2>1 DEF Max
<1>6. NextSeat(q, c) = Max(S) + 1
  BY Zenon DEF NextSeat
<1> QED
  BY <1>5, <1>6

LEMMA SeatNumberRow ==
  ASSUME NEW i \in Nat
  PROVE  /\ T!Over([seat_number |-> i], Tables.enrolments) = [seat_number |-> i]
         /\ ~ T!Incomplete([seat_number |-> i])
BY TablesAre, RequiredAssumption DEF T!Over, T!Incomplete

(* What is held decides what the enrolments show. *)
LEMMA EnrolmentsStay == ASSUME NEW m, NEW n, NEW q, EnrolmentsShow(m, q), Held(n) = Held(m) PROVE EnrolmentsShow(n, q)
BY DEF EnrolmentsShow

LEMMA EnrolmentAdded ==
  ASSUME NEW m, NEW n, NEW q, EnrolmentsShow(m, q), NEW x, x \notin Held(m), Held(n) = Held(m) \cup {x}, NEW i \in Nat
  PROVE  LET p == With(q, x, [seat_number |-> i])
         IN  RunAll(Tables.enrolments, q, {T!Insert(x, [seat_number |-> i], "ignore")}) = p /\ EnrolmentsShow(n, p)
<1> DEFINE row == [seat_number |-> i]
<1>1. x \notin DOMAIN q
  BY DEF EnrolmentsShow
<1>2. Makes(Tables.enrolments, q, {T!Insert(x, row, "ignore")}, With(q, x, row))
  <2>1. T!Over(row, Tables.enrolments) = row /\ ~ T!Incomplete(row)
    BY SeatNumberRow
  <2> HIDE DEF row
  <2> QED
    BY <1>1, <2>1, InsertMakes
<1>3. EnrolmentsShow(n, With(q, x, row))
  BY DEF EnrolmentsShow, With
<1> QED
  BY <1>2, <1>3 DEF Makes

LEMMA EnrolmentsRemoved ==
  ASSUME NEW m, NEW n, NEW q, EnrolmentsShow(m, q), NEW K, IsFiniteSet(K), Held(n) = Held(m) \ K
  PROVE  RunAll(Tables.enrolments, q, {T!Remove(k) : k \in K}) = Without(q, K) /\ EnrolmentsShow(n, Without(q, K))
<1>1. q = [x \in DOMAIN q |-> q[x]]
  BY DEF EnrolmentsShow
<1>2. EnrolmentsShow(n, Without(q, K))
  BY DEF EnrolmentsShow, Without
<1> QED
  BY <1>1, <1>2, MakesOfRemoves DEF Makes

-----------------------------------------------------------------------------
(* The rows after each event. *)
LEMMA ViewsOf ==
  ASSUME NEW e, NEW q
  PROVE  /\ e.type = "CourseDefined" =>
              CourseSeatsView(e) = {T!Insert(c, [capacity |-> e.data.capacity], "ignore") : c \in e.tags.course_id}
         /\ e.type = "StudentSubscribed" =>
              /\ CourseSeatsView(e) = {T!Update(e.data.course, T!Adding([subscribers |-> 1]))}
              /\ CourseEnrolmentsView(q, e) =
                   {T!Insert(<<e.data.student, e.data.course>>, [seat_number |-> NextSeat(q, e.data.course)], "ignore")}
              /\ CourseReadinessView(e) = {T!Upsert(e.data.course, T!Adding([students |-> 1]))}
         /\ e.type = "SubscriptionReleased" =>
              /\ CourseSeatsView(e) = {T!Update(e.data.course, T!Adding([subscribers |-> -1]))}
              /\ CourseEnrolmentsView(q, e) = {T!Remove(<<e.data.student, e.data.course>>)}
              /\ CourseReadinessView(e) = {T!Upsert(e.data.course, T!Adding([students |-> -1]))}
         /\ e.type = "CourseCancelled" =>
              /\ CourseSeatsView(e) = {T!Update(e.data.course, T!Setting([subscribers |-> 0]))}
              /\ CourseEnrolmentsView(q, e) = {T!Remove(<<s, e.data.course>>) : s \in e.data.students}
              /\ CourseReadinessView(e) = {T!Upsert(e.data.course, T!Setting([status |-> "cancelled"]))}
         /\ e.type = "TeacherAssigned" => CourseReadinessView(e) = {T!Upsert(e.data.course, T!Setting([teacher |-> TRUE]))}
         /\ e.type = "RoomBooked" => CourseReadinessView(e) = {T!Upsert(e.data.course, T!Setting([room |-> TRUE]))}
         /\ e.type = "CourseConfirmed" => CourseReadinessView(e) = {T!Upsert(e.data.course, T!Setting([status |-> "confirmed"]))}
         /\ e.type \notin {"CourseDefined", "StudentSubscribed", "SubscriptionReleased", "CourseCancelled"} => CourseSeatsView(e) = {}
         /\ e.type \notin {"StudentSubscribed", "SubscriptionReleased", "CourseCancelled"} => CourseEnrolmentsView(q, e) = {}
         /\ e.type \notin {"StudentSubscribed", "SubscriptionReleased", "CourseCancelled", "TeacherAssigned", "RoomBooked", "CourseConfirmed"} =>
              CourseReadinessView(e) = {}
<1>1. /\ e.type = "CourseDefined" =>
              CourseSeatsView(e) = {T!Insert(c, [capacity |-> e.data.capacity], "ignore") : c \in e.tags.course_id}
      /\ e.type = "StudentSubscribed" => CourseSeatsView(e) = {T!Update(e.data.course, T!Adding([subscribers |-> 1]))}
      /\ e.type = "SubscriptionReleased" => CourseSeatsView(e) = {T!Update(e.data.course, T!Adding([subscribers |-> -1]))}
      /\ e.type = "CourseCancelled" => CourseSeatsView(e) = {T!Update(e.data.course, T!Setting([subscribers |-> 0]))}
      /\ e.type \notin {"CourseDefined", "StudentSubscribed", "SubscriptionReleased", "CourseCancelled"} => CourseSeatsView(e) = {}
  BY DEF CourseSeatsView
<1>2. /\ e.type = "StudentSubscribed" => CourseEnrolmentsView(q, e) =
           {T!Insert(<<e.data.student, e.data.course>>, [seat_number |-> NextSeat(q, e.data.course)], "ignore")}
      /\ e.type = "SubscriptionReleased" => CourseEnrolmentsView(q, e) = {T!Remove(<<e.data.student, e.data.course>>)}
      /\ e.type = "CourseCancelled" => CourseEnrolmentsView(q, e) = {T!Remove(<<s, e.data.course>>) : s \in e.data.students}
      /\ e.type \notin {"StudentSubscribed", "SubscriptionReleased", "CourseCancelled"} => CourseEnrolmentsView(q, e) = {}
  BY DEF CourseEnrolmentsView
<1>3. /\ e.type = "StudentSubscribed" => CourseReadinessView(e) = {T!Upsert(e.data.course, T!Adding([students |-> 1]))}
      /\ e.type = "SubscriptionReleased" => CourseReadinessView(e) = {T!Upsert(e.data.course, T!Adding([students |-> -1]))}
      /\ e.type = "CourseCancelled" => CourseReadinessView(e) = {T!Upsert(e.data.course, T!Setting([status |-> "cancelled"]))}
      /\ e.type = "TeacherAssigned" => CourseReadinessView(e) = {T!Upsert(e.data.course, T!Setting([teacher |-> TRUE]))}
      /\ e.type = "RoomBooked" => CourseReadinessView(e) = {T!Upsert(e.data.course, T!Setting([room |-> TRUE]))}
      /\ e.type = "CourseConfirmed" => CourseReadinessView(e) = {T!Upsert(e.data.course, T!Setting([status |-> "confirmed"]))}
      /\ e.type \notin {"StudentSubscribed", "SubscriptionReleased", "CourseCancelled", "TeacherAssigned", "RoomBooked", "CourseConfirmed"} =>
              CourseReadinessView(e) = {}
  BY DEF CourseReadinessView
<1> QED
  BY <1>1, <1>2, <1>3

LEMMA SeatsStay == ASSUME NEW m, NEW n, NEW q, SeatsShow(m, q), n.course = m.course PROVE SeatsShow(n, q)
BY DEF SeatsShow

LEMMA ReadinessStays == ASSUME NEW m, NEW n, NEW q, ReadinessShow(m, q), n.readiness = m.readiness PROVE ReadinessShow(n, q)
BY DEF ReadinessShow

LEMMA HeldIs ==
  ASSUME NEW m, NEW n, \A x \in Seats : /\ m.subscription[x].status \in {"subscribed", "paid", "billed"} <=>
                                           n.subscription[x].status \in {"subscribed", "paid", "billed"}
  PROVE  Held(n) = Held(m)
BY DEF Held

ViewTypes == {"CourseDefined", "StudentSubscribed", "SubscriptionReleased", "CourseCancelled", "TeacherAssigned", "RoomBooked", "CourseConfirmed"}

(* An event that no view of these handles. *)
LEMMA FollowsQuietly ==
  ASSUME NEW m, NEW r, Shows(m, r), NEW e, e.type \notin ViewTypes, NEW n, n = Folded(m, e),
         n.course = m.course, n.readiness = m.readiness, Held(n) = Held(m)
  PROVE  Follows(m, r, e)
<1>1. CourseSeatsView(e) = {} /\ CourseEnrolmentsView(r.enrolments, e) = {} /\ CourseReadinessView(e) = {}
  BY ViewsOf DEF ViewTypes
<1>2. SeatsShow(n, r.seats) /\ EnrolmentsShow(n, r.enrolments) /\ ReadinessShow(n, r.readiness)
  BY SeatsStay, EnrolmentsStay, ReadinessStays DEF Shows
<1> QED
  BY <1>1, <1>2, MakesOfNone, FollowsBy DEF Makes

LEMMA FollowsDefined ==
  ASSUME NEW m, ModelInv(m), NEW r, Shows(m, r), NEW c \in Courses, NEW capacity \in Nat, ~ m.course[c].exists
  PROVE  Follows(m, r, CourseDefined(c, capacity))
<1> DEFINE e == CourseDefined(c, capacity)
           n == Folded(m, e)
           q == r.seats
           p == With(q, c, SeatRow(capacity, 0))
<1>1. AfterDefined(m, n, c, capacity)
  BY OnDefined DEF ModelInv
<1>2. e.type = "CourseDefined" /\ e.data.capacity = capacity /\ e.tags.course_id = {c}
  BY DEF CourseDefined, Event, OfCourse
<1> HIDE DEF e
<1>3. CourseSeatsView(e) = {T!Insert(c, [capacity |-> capacity], "ignore")}
  <2>1. CourseSeatsView(e) = {T!Insert(k, [capacity |-> e.data.capacity], "ignore") : k \in e.tags.course_id}
    BY <1>2, ViewsOf
  <2> QED
    BY <1>2, <2>1
<1>4. CourseEnrolmentsView(r.enrolments, e) = {} /\ CourseReadinessView(e) = {}
  BY <1>2, ViewsOf
<1>5. SeatsShow(m, q) /\ c \notin DOMAIN q
  BY DEF Shows, SeatsShow
<1>6. Makes(Tables.seats, q, CourseSeatsView(e), p)
  <2> DEFINE given == [capacity |-> capacity]
  <2>1. T!Over(given, Tables.seats) = SeatRow(capacity, 0) /\ ~ T!Incomplete(SeatRow(capacity, 0))
    BY SeatRowOpened
  <2>2. CourseSeatsView(e) = {T!Insert(c, given, "ignore")}
    BY <1>3
  <2> HIDE DEF given
  <2> QED
    BY <1>5, <2>1, <2>2, InsertMakes
<1>7. SeatsShow(n, p)
  <2>1. m.course[c].subscribers = 0
    <3>1. m.course[c].capacity = 0 /\ m.course[c].subscribers = Cardinality(SeatsOf(m, c)) /\ m.course[c].subscribers <= 0 /\ IsFiniteSet(SeatsOf(m, c))
      BY DEF ModelInv, SeatsInv
    <3>2. Cardinality(SeatsOf(m, c)) \in Nat
      BY <3>1, FS_CardinalityType
    <3> QED
      BY <3>1, <3>2
  <2>2. \A k \in Courses : /\ n.course[k].exists <=> (m.course[k].exists \/ k = c)
                           /\ n.course[k].capacity = IF k = c THEN capacity ELSE m.course[k].capacity
                           /\ n.course[k].subscribers = m.course[k].subscribers
    BY <1>1 DEF AfterDefined, ModelInv, ModelsType, CourseState
  <2> HIDE DEF n
  <2> DEFINE D == {k \in Courses : n.course[k].exists}
  <2>3. DOMAIN p = D /\ p = [k \in DOMAIN p |-> p[k]] /\ \A k \in DOMAIN p : p[k] = IF k = c THEN SeatRow(capacity, 0) ELSE q[k]
    BY <1>5, <2>2 DEF With, SeatsShow
  <2> HIDE DEF p
  <2>4. ASSUME NEW k \in D PROVE p[k] = SeatRow(n.course[k].capacity, n.course[k].subscribers)
    <3>1. CASE k = c
      BY <2>1, <2>2, <2>3, <3>1
    <3>2. CASE k # c
      <4>1. p[k] = q[k] /\ k \in {j \in Courses : m.course[j].exists}
        BY <2>2, <2>3, <3>2
      <4>2. q[k] = SeatRow(m.course[k].capacity, m.course[k].subscribers)
        BY <1>5, <4>1 DEF SeatsShow
      <4>3. n.course[k].capacity = m.course[k].capacity /\ n.course[k].subscribers = m.course[k].subscribers
        BY <2>2, <3>2
      <4> QED
        BY <4>1, <4>2, <4>3
    <3> QED
      BY <3>1, <3>2
  <2> QED
    BY <2>3, <2>4 DEF SeatsShow
<1>8. EnrolmentsShow(n, r.enrolments) /\ ReadinessShow(n, r.readiness)
  <2>1. Held(n) = Held(m) /\ n.readiness = m.readiness
    BY <1>1 DEF AfterDefined, Held
  <2> HIDE DEF n
  <2> QED
    BY <2>1, EnrolmentsStay, ReadinessStays DEF Shows
<1> HIDE DEF n, p
<1>9. Follows(m, r, e)
  BY <1>4, <1>6, <1>7, <1>8, MakesOfNone, FollowsBy DEF n, Makes
<1> QED
  BY <1>9 DEF e

(* One course's subscribers change, and its row is changed alike. *)
(* From m to n, of what a row of seats shows, only c's subscribers change. *)
OnlySubscribers(m, n, c, k) ==
  \A j \in Courses : /\ n.course[j].exists = m.course[j].exists /\ n.course[j].capacity = m.course[j].capacity
                     /\ n.course[j].subscribers = IF j = c THEN k ELSE m.course[j].subscribers

LEMMA SeatsGoOn ==
  ASSUME NEW m, ModelsType(m), NEW n, NEW q, SeatsShow(m, q), NEW c \in Courses, NEW k, NEW change,
         OnlySubscribers(m, n, c, k),
         T!Changed(SeatRow(m.course[c].capacity, m.course[c].subscribers), change) = SeatRow(m.course[c].capacity, k)
  PROVE  \E p : Makes(Tables.seats, q, {T!Update(c, change)}, p) /\ SeatsShow(n, p)
<1> DEFINE p == IF c \in DOMAIN q THEN With(q, c, T!Changed(q[c], change)) ELSE q
           D == {j \in Courses : m.course[j].exists}
<1>0. \A j \in Courses : /\ n.course[j].exists = m.course[j].exists /\ n.course[j].capacity = m.course[j].capacity
                           /\ n.course[j].subscribers = IF j = c THEN k ELSE m.course[j].subscribers
  BY DEF OnlySubscribers
<1>1. Makes(Tables.seats, q, {T!Update(c, change)}, p)
  BY UpdateMakes
<1>2. DOMAIN q = D /\ q = [j \in DOMAIN q |-> q[j]] /\ \A j \in D : q[j] = SeatRow(m.course[j].capacity, m.course[j].subscribers)
  BY DEF SeatsShow
<1>3. {j \in Courses : n.course[j].exists} = D
  BY <1>0
<1>4. DOMAIN p = D /\ p = [j \in DOMAIN p |-> p[j]]
  <2>1. DOMAIN With(q, c, T!Changed(q[c], change)) = D \cup {c}
    BY <1>2 DEF With
  <2>2. With(q, c, T!Changed(q[c], change)) = [j \in DOMAIN With(q, c, T!Changed(q[c], change)) |-> With(q, c, T!Changed(q[c], change))[j]]
    BY DEF With
  <2> HIDE DEF D
  <2> QED
    BY <1>2, <2>1, <2>2
<1>5. ASSUME NEW j \in D PROVE p[j] = SeatRow(n.course[j].capacity, n.course[j].subscribers)
  <2>1. q[j] = SeatRow(m.course[j].capacity, m.course[j].subscribers) /\ j \in DOMAIN q
    BY <1>2
  <2>2. CASE j = c
    <3>1. p = With(q, c, T!Changed(q[c], change))
      BY <2>1, <2>2
    <3>2. p[j] = T!Changed(q[c], change)
      BY <2>2, <3>1 DEF With
    <3>3. n.course[j].capacity = m.course[c].capacity /\ n.course[j].subscribers = k
      BY <1>0, <2>2
    <3> HIDE DEF p
    <3> QED
      BY <2>1, <2>2, <3>2, <3>3
  <2>3. CASE j # c
    <3>1. p[j] = q[j]
      BY <2>1, <2>3 DEF With
    <3>2. n.course[j].capacity = m.course[j].capacity /\ n.course[j].subscribers = m.course[j].subscribers
      BY <1>0, <2>3
    <3> HIDE DEF p
    <3> QED
      BY <2>1, <3>1, <3>2
  <2> QED
    BY <2>2, <2>3
<1>6. SeatsShow(n, p)
  <2> HIDE DEF p, D
  <2>1. p = [j \in D |-> SeatRow(n.course[j].capacity, n.course[j].subscribers)]
    BY <1>4, <1>5
  <2> QED
    BY <1>3, <2>1 DEF SeatsShow
<1> HIDE DEF p
<1> QED
  BY <1>1, <1>6

(* A course's readiness y becomes x, and its row is changed alike, or is opened so. *)
IsReadiness(y) ==
  /\ y.teacher \in BOOLEAN /\ y.room \in BOOLEAN /\ y.status \in {"waiting", "confirmed", "cancelled"}
  /\ IsFiniteSet(y.students) /\ Cardinality(y.students) \in Int
  /\ y = [teacher |-> y.teacher, room |-> y.room, students |-> y.students, status |-> y.status]

Turns(y, change, x) ==
  /\ x.teacher \in BOOLEAN /\ x.room \in BOOLEAN /\ IsFiniteSet(x.students) /\ x.status \in {"waiting", "confirmed", "cancelled"}
  /\ T!Changed(ReadyRowOf(y), change) = ReadyRowOf(x)
  /\ ~ T!Incomplete(Opens(change)) /\ (y = NotReady => Opens(change) = ReadyRowOf(x))

LEMMA ReadinessIs ==
  ASSUME NEW m, ModelInv(m), NEW r, Shows(m, r), NEW c \in Courses
  PROVE  IsReadiness(m.readiness[c]) /\ m.readiness[c].students \in SUBSET Students
<1>1. m.readiness[c] \in [teacher : BOOLEAN, room : BOOLEAN, students : SUBSET Students, status : {"waiting", "confirmed", "cancelled"}]
  BY DEF ModelInv, ModelsType, ReadinessState
<1>2. IsFiniteSet(m.readiness[c].students)
  BY DEF Shows, ReadinessShow
<1>3. Cardinality(m.readiness[c].students) \in Int
  BY <1>2, FS_CardinalityType
<1> QED
  BY <1>1, <1>2, <1>3 DEF IsReadiness

LEMMA ReadyRowOfChanged ==
  ASSUME NEW y, IsReadiness(y), NEW v
  PROVE  /\ T!Changed(ReadyRowOf(y), T!Setting([teacher |-> v])) = ReadyRow(v, Flag(y.room), Cardinality(y.students), y.status)
         /\ T!Changed(ReadyRowOf(y), T!Setting([room |-> v])) = ReadyRow(Flag(y.teacher), v, Cardinality(y.students), y.status)
         /\ T!Changed(ReadyRowOf(y), T!Setting([status |-> v])) = ReadyRow(Flag(y.teacher), Flag(y.room), Cardinality(y.students), v)
         /\ \A i \in Int : T!Changed(ReadyRowOf(y), T!Adding([students |-> i]))
                             = ReadyRow(Flag(y.teacher), Flag(y.room), Cardinality(y.students) + i, y.status)
<1> DEFINE t == Flag(y.teacher)
           o == Flag(y.room)
           k == Cardinality(y.students)
           st == y.status
<1>1. k \in Int
  BY DEF IsReadiness
<1>2. ReadyRowOf(y) = ReadyRow(t, o, k, st)
  BY Zenon DEF ReadyRowOf
<1> HIDE DEF t, o, k, st
<1>3. /\ T!Changed(ReadyRow(t, o, k, st), T!Setting([teacher |-> v])) = ReadyRow(v, o, k, st)
      /\ T!Changed(ReadyRow(t, o, k, st), T!Setting([room |-> v])) = ReadyRow(t, v, k, st)
      /\ T!Changed(ReadyRow(t, o, k, st), T!Setting([status |-> v])) = ReadyRow(t, o, k, v)
  BY <1>1, ReadyRowChanged
<1>4. ASSUME NEW i \in Int PROVE T!Changed(ReadyRow(t, o, k, st), T!Adding([students |-> i])) = ReadyRow(t, o, k + i, st)
  BY <1>1, ReadyRowAdding
<1>5. /\ T!Changed(ReadyRowOf(y), T!Setting([teacher |-> v])) = ReadyRow(v, o, k, st)
      /\ T!Changed(ReadyRowOf(y), T!Setting([room |-> v])) = ReadyRow(t, v, k, st)
      /\ T!Changed(ReadyRowOf(y), T!Setting([status |-> v])) = ReadyRow(t, o, k, v)
      /\ \A i \in Int : T!Changed(ReadyRowOf(y), T!Adding([students |-> i])) = ReadyRow(t, o, k + i, st)
  BY <1>2, <1>3, <1>4, Zenon
<1> QED
  BY <1>5 DEF t, o, k, st

LEMMA FlagIs == Flag(TRUE) = TRUE /\ Flag(FALSE) = Null
BY Zenon DEF Flag

LEMMA NotReadyOf ==
  ASSUME NEW x
  PROVE  ReadyRowOf(x) = ReadyRow(Flag(x.teacher), Flag(x.room), Cardinality(x.students), x.status)
BY Zenon DEF ReadyRowOf

LEMMA TeacherTurns == ASSUME NEW y, IsReadiness(y) PROVE Turns(y, T!Setting([teacher |-> TRUE]), [y EXCEPT !.teacher = TRUE])
<1> DEFINE x == [y EXCEPT !.teacher = TRUE]
           change == T!Setting([teacher |-> TRUE])
<1>1. x.teacher = TRUE /\ x.room = y.room /\ x.students = y.students /\ x.status = y.status
  BY DEF IsReadiness
<1>2. Opens(change) = ReadyRow(TRUE, Null, 0, "waiting")
  BY ReadyRowOpened
<1>3. T!Changed(ReadyRowOf(y), change) = ReadyRow(TRUE, Flag(y.room), Cardinality(y.students), y.status)
  BY ReadyRowOfChanged
<1>4. ~ T!Incomplete(ReadyRow(TRUE, Null, 0, "waiting"))
  <2>1. TRUE \in {TRUE, Null} /\ Null \in {TRUE, Null} /\ "waiting" \in {"waiting", "confirmed", "cancelled"}
    BY Zenon
  <2>2. 0 \in Int
    OBVIOUS
  <2> QED
    BY <2>1, <2>2, ReadyRowComplete, Zenon
<1> HIDE DEF x, change
<1>5. ReadyRowOf(x) = ReadyRow(TRUE, Flag(y.room), Cardinality(y.students), y.status)
  BY <1>1, NotReadyOf, FlagIs
<1>6. y = NotReady => ReadyRowOf(x) = ReadyRow(TRUE, Null, 0, "waiting")
  <2>1. Cardinality({}) = 0
    BY FS_EmptySet
  <2> QED
    BY <1>5, <2>1, FlagIs, NotReadyIs
<1>7. Turns(y, change, x)
  BY <1>1, <1>2, <1>3, <1>4, <1>5, <1>6 DEF Turns, IsReadiness
<1> QED
  BY <1>7 DEF x, change

LEMMA RoomTurns == ASSUME NEW y, IsReadiness(y) PROVE Turns(y, T!Setting([room |-> TRUE]), [y EXCEPT !.room = TRUE])
<1> DEFINE x == [y EXCEPT !.room = TRUE]
           change == T!Setting([room |-> TRUE])
<1>1. x.teacher = y.teacher /\ x.room = TRUE /\ x.students = y.students /\ x.status = y.status
  BY DEF IsReadiness
<1>2. Opens(change) = ReadyRow(Null, TRUE, 0, "waiting")
  BY ReadyRowOpened
<1>3. T!Changed(ReadyRowOf(y), change) = ReadyRow(Flag(y.teacher), TRUE, Cardinality(y.students), y.status)
  BY ReadyRowOfChanged
<1>4. ~ T!Incomplete(ReadyRow(Null, TRUE, 0, "waiting"))
  <2>1. TRUE \in {TRUE, Null} /\ Null \in {TRUE, Null} /\ "waiting" \in {"waiting", "confirmed", "cancelled"}
    BY Zenon
  <2>2. 0 \in Int
    OBVIOUS
  <2> QED
    BY <2>1, <2>2, ReadyRowComplete, Zenon
<1> HIDE DEF x, change
<1>5. ReadyRowOf(x) = ReadyRow(Flag(y.teacher), TRUE, Cardinality(y.students), y.status)
  BY <1>1, NotReadyOf, FlagIs
<1>6. y = NotReady => ReadyRowOf(x) = ReadyRow(Null, TRUE, 0, "waiting")
  <2>1. Cardinality({}) = 0
    BY FS_EmptySet
  <2> QED
    BY <1>5, <2>1, FlagIs, NotReadyIs
<1>7. Turns(y, change, x)
  BY <1>1, <1>2, <1>3, <1>4, <1>5, <1>6 DEF Turns, IsReadiness
<1> QED
  BY <1>7 DEF x, change

LEMMA StatusTurns ==
  ASSUME NEW y, IsReadiness(y), NEW v \in {"confirmed", "cancelled"}
  PROVE  Turns(y, T!Setting([status |-> v]), [y EXCEPT !.status = v])
<1> DEFINE x == [y EXCEPT !.status = v]
           change == T!Setting([status |-> v])
<1>1. x.teacher = y.teacher /\ x.room = y.room /\ x.students = y.students /\ x.status = v
  BY DEF IsReadiness
<1>2. Opens(change) = ReadyRow(Null, Null, 0, v)
  BY ReadyRowOpened
<1>3. T!Changed(ReadyRowOf(y), change) = ReadyRow(Flag(y.teacher), Flag(y.room), Cardinality(y.students), v)
  BY ReadyRowOfChanged
<1>4. ~ T!Incomplete(ReadyRow(Null, Null, 0, v))
  BY ReadyRowComplete
<1> HIDE DEF x, change
<1>5. ReadyRowOf(x) = ReadyRow(Flag(y.teacher), Flag(y.room), Cardinality(y.students), v)
  BY <1>1, NotReadyOf
<1>6. y = NotReady => ReadyRowOf(x) = ReadyRow(Null, Null, 0, v)
  <2>1. Cardinality({}) = 0
    BY FS_EmptySet
  <2> QED
    BY <1>5, <2>1, FlagIs, NotReadyIs
<1>7. Turns(y, change, x)
  BY <1>1, <1>2, <1>3, <1>4, <1>5, <1>6 DEF Turns, IsReadiness
<1> QED
  BY <1>7 DEF x, change

LEMMA StudentTurns ==
  ASSUME NEW y, IsReadiness(y), NEW s, s \notin y.students
  PROVE  Turns(y, T!Adding([students |-> 1]), [y EXCEPT !.students = @ \cup {s}])
<1> DEFINE x == [y EXCEPT !.students = @ \cup {s}]
           change == T!Adding([students |-> 1])
<1>1. x.teacher = y.teacher /\ x.room = y.room /\ x.students = y.students \cup {s} /\ x.status = y.status
  BY DEF IsReadiness
<1>2. Opens(change) = ReadyRow(Null, Null, 1, "waiting")
  BY OpensAdding
<1>0. 1 \in Int
  OBVIOUS
<1>3. T!Changed(ReadyRowOf(y), change) = ReadyRow(Flag(y.teacher), Flag(y.room), Cardinality(y.students) + 1, y.status)
  BY <1>0, ReadyRowOfChanged, Zenon
<1>4. ~ T!Incomplete(ReadyRow(Null, Null, 1, "waiting"))
  BY ReadyRowComplete
<1>a. IsFiniteSet(y.students \cup {s}) /\ Cardinality(y.students \cup {s}) = Cardinality(y.students) + 1
  BY FS_AddElement DEF IsReadiness
<1> HIDE DEF x, change
<1>5. ReadyRowOf(x) = ReadyRow(Flag(y.teacher), Flag(y.room), Cardinality(y.students) + 1, y.status)
  BY <1>1, <1>a, NotReadyOf
<1>6. y = NotReady => ReadyRowOf(x) = ReadyRow(Null, Null, 1, "waiting")
  <2>1. Cardinality({}) = 0 /\ 0 + 1 = 1
    BY FS_EmptySet
  <2> QED
    BY <1>5, <2>1, FlagIs, NotReadyIs
<1>7. Turns(y, change, x)
  BY <1>1, <1>2, <1>3, <1>4, <1>5, <1>6, <1>a DEF Turns, IsReadiness
<1> QED
  BY <1>7 DEF x, change

LEMMA StudentGoes ==
  ASSUME NEW y, IsReadiness(y), NEW s \in y.students
  PROVE  Turns(y, T!Adding([students |-> -1]), [y EXCEPT !.students = @ \ {s}])
<1> DEFINE x == [y EXCEPT !.students = @ \ {s}]
           change == T!Adding([students |-> -1])
<1>1. x.teacher = y.teacher /\ x.room = y.room /\ x.students = y.students \ {s} /\ x.status = y.status
  BY DEF IsReadiness
<1>0. -1 \in Int
  OBVIOUS
<1>2. Opens(change) = ReadyRow(Null, Null, -1, "waiting")
  BY <1>0, OpensAdding
<1>3. T!Changed(ReadyRowOf(y), change) = ReadyRow(Flag(y.teacher), Flag(y.room), Cardinality(y.students) + -1, y.status)
  BY <1>0, ReadyRowOfChanged
<1>4. ~ T!Incomplete(ReadyRow(Null, Null, -1, "waiting"))
  BY <1>0, ReadyRowComplete
<1>a. IsFiniteSet(y.students \ {s}) /\ Cardinality(y.students \ {s}) = Cardinality(y.students) + -1
  <2>1. IsFiniteSet(y.students \ {s}) /\ Cardinality(y.students \ {s}) = Cardinality(y.students) - 1
    BY FS_RemoveElement DEF IsReadiness
  <2> QED
    BY <2>1 DEF IsReadiness
<1>b. y # NotReady
  BY NotReadyIs
<1> HIDE DEF x, change
<1>5. ReadyRowOf(x) = ReadyRow(Flag(y.teacher), Flag(y.room), Cardinality(y.students) + -1, y.status)
  BY <1>1, <1>a, NotReadyOf
<1>7. Turns(y, change, x)
  BY <1>1, <1>2, <1>3, <1>4, <1>5, <1>a, <1>b DEF Turns, IsReadiness
<1> QED
  BY <1>7 DEF x, change

-----------------------------------------------------------------------------
(* The events of the readiness alone. *)
LEMMA FollowsReadiness ==
  ASSUME NEW m, ModelInv(m), NEW r, Shows(m, r), NEW e, NEW n, n = Folded(m, e),
         CourseSeatsView(e) = {}, CourseEnrolmentsView(r.enrolments, e) = {},
         n.course = m.course, Held(n) = Held(m),
         NEW c \in Courses, NEW x, NEW change, CourseReadinessView(e) = {T!Upsert(c, change)},
         n.readiness = [m.readiness EXCEPT ![c] = x], Turns(m.readiness[c], change, x)
  PROVE  Follows(m, r, e)
<1>1. PICK p : Makes(Tables.readiness, r.readiness, {T!Upsert(c, change)}, p) /\ ReadinessShow(n, p)
  BY ReadinessGoesOn DEF ModelInv, Shows, Turns
<1>2. SeatsShow(n, r.seats) /\ EnrolmentsShow(n, r.enrolments)
  BY SeatsStay, EnrolmentsStay DEF Shows
<1> QED
  BY <1>1, <1>2, MakesOfNone, FollowsBy DEF Makes

LEMMA FollowsTeacher ==
  ASSUME NEW m, ModelInv(m), NEW r, Shows(m, r), NEW c \in Courses
  PROVE  Follows(m, r, TeacherAssigned(c))
<1> DEFINE e == TeacherAssigned(c)
           n == Folded(m, e)
           x == [m.readiness[c] EXCEPT !.teacher = TRUE]
<1>1. AfterTeacher(m, n, c)
  BY OnTeacher DEF ModelInv
<1>2. e.type = "TeacherAssigned" /\ e.data.course = c
  BY DEF TeacherAssigned, Event
<1> HIDE DEF e
<1>3. /\ CourseSeatsView(e) = {} /\ CourseEnrolmentsView(r.enrolments, e) = {}
      /\ CourseReadinessView(e) = {T!Upsert(c, T!Setting([teacher |-> TRUE]))}
  BY <1>2, ViewsOf
<1>4. n.course = m.course /\ Held(n) = Held(m) /\ n.readiness = [m.readiness EXCEPT ![c] = x]
  BY <1>1 DEF AfterTeacher, Held
<1>5. Turns(m.readiness[c], T!Setting([teacher |-> TRUE]), x)
  BY ReadinessIs, TeacherTurns
<1> HIDE DEF n, x
<1>6. Follows(m, r, e)
  BY <1>3, <1>4, <1>5, FollowsReadiness DEF n
<1> QED
  BY <1>6 DEF e

LEMMA FollowsRoom ==
  ASSUME NEW m, ModelInv(m), NEW r, Shows(m, r), NEW c \in Courses
  PROVE  Follows(m, r, RoomBooked(c))
<1> DEFINE e == RoomBooked(c)
           n == Folded(m, e)
           x == [m.readiness[c] EXCEPT !.room = TRUE]
<1>1. AfterRoom(m, n, c)
  BY OnRoom DEF ModelInv
<1>2. e.type = "RoomBooked" /\ e.data.course = c
  BY DEF RoomBooked, Event
<1> HIDE DEF e
<1>3. /\ CourseSeatsView(e) = {} /\ CourseEnrolmentsView(r.enrolments, e) = {}
      /\ CourseReadinessView(e) = {T!Upsert(c, T!Setting([room |-> TRUE]))}
  BY <1>2, ViewsOf
<1>4. n.course = m.course /\ Held(n) = Held(m) /\ n.readiness = [m.readiness EXCEPT ![c] = x]
  BY <1>1 DEF AfterRoom, Held
<1>5. Turns(m.readiness[c], T!Setting([room |-> TRUE]), x)
  BY ReadinessIs, RoomTurns
<1> HIDE DEF n, x
<1>6. Follows(m, r, e)
  BY <1>3, <1>4, <1>5, FollowsReadiness DEF n
<1> QED
  BY <1>6 DEF e

LEMMA FollowsConfirmed ==
  ASSUME NEW m, ModelInv(m), NEW r, Shows(m, r), NEW c \in Courses, NEW count
  PROVE  Follows(m, r, CourseConfirmed(c, count))
<1> DEFINE e == CourseConfirmed(c, count)
           n == Folded(m, e)
           x == [m.readiness[c] EXCEPT !.status = "confirmed"]
<1>1. AfterConfirmed(m, n, c, count)
  BY OnConfirmed DEF ModelInv
<1>2. e.type = "CourseConfirmed" /\ e.data.course = c
  BY DEF CourseConfirmed, Event
<1> HIDE DEF e
<1>3. /\ CourseSeatsView(e) = {} /\ CourseEnrolmentsView(r.enrolments, e) = {}
      /\ CourseReadinessView(e) = {T!Upsert(c, T!Setting([status |-> "confirmed"]))}
  BY <1>2, ViewsOf
<1>4. n.course = m.course /\ Held(n) = Held(m) /\ n.readiness = [m.readiness EXCEPT ![c] = x]
  BY <1>1 DEF AfterConfirmed, Held
<1>5. Turns(m.readiness[c], T!Setting([status |-> "confirmed"]), x)
  BY ReadinessIs, StatusTurns
<1> HIDE DEF n, x
<1>6. Follows(m, r, e)
  BY <1>3, <1>4, <1>5, FollowsReadiness DEF n
<1> QED
  BY <1>6 DEF e

(* The events of a seat. *)
LEMMA FollowsSubscribed ==
  ASSUME NEW m, ModelInv(m), NEW r, Shows(m, r), NEW s \in Students, NEW c \in Courses, NEW at \in Nat,
         ~ m.course[c].cancelled, c \notin m.student[s]
  PROVE  Follows(m, r, StudentSubscribed(s, c, at))
<1> DEFINE e == StudentSubscribed(s, c, at)
           n == Folded(m, e)
           x == [m.readiness[c] EXCEPT !.students = @ \cup {s}]
           i == NextSeat(r.enrolments, c)
           seatsChange == T!Adding([subscribers |-> 1])
           readyChange == T!Adding([students |-> 1])
           k == m.course[c].subscribers + 1
<1>1. AfterSubscribed(m, n, s, c, at)
  BY OnSubscribed DEF ModelInv
<1>2. e.type = "StudentSubscribed" /\ e.data.course = c /\ e.data.student = s
  BY DEF StudentSubscribed, Event
<1> HIDE DEF e
<1>3. /\ CourseSeatsView(e) = {T!Update(c, seatsChange)}
      /\ CourseEnrolmentsView(r.enrolments, e) = {T!Insert(<<s, c>>, [seat_number |-> i], "ignore")}
      /\ CourseReadinessView(e) = {T!Upsert(c, readyChange)}
  BY <1>2, ViewsOf
<1>4. n.readiness = [m.readiness EXCEPT ![c] = x]
  BY <1>1 DEF AfterSubscribed
<1>5. <<s, c>> \in Seats /\ <<s, c>> \notin Held(m) /\ s \notin m.readiness[c].students
  BY DEF ModelInv, SeatsInv, Seats
<1>6. Held(n) = Held(m) \cup {<<s, c>>}
  <2>1. \A y \in Seats : n.subscription[y].status = IF y = <<s, c>> THEN "subscribed" ELSE m.subscription[y].status
    BY <1>1, <1>5 DEF AfterSubscribed, ModelInv, ModelsType, SubscriptionState
  <2> HIDE DEF n
  <2> QED
    BY <1>5, <2>1 DEF Held
<1>7. OnlySubscribers(m, n, c, k)
  BY <1>1 DEF AfterSubscribed, ModelInv, ModelsType, CourseState, OnlySubscribers
<1>8. Turns(m.readiness[c], readyChange, x)
  BY <1>5, ReadinessIs, StudentTurns
<1> HIDE DEF n, x
<1>t. ModelsType(m) /\ SeatsShow(m, r.seats) /\ EnrolmentsShow(m, r.enrolments) /\ ReadinessShow(m, r.readiness)
  BY DEF ModelInv, Shows
<1>9. PICK a : Makes(Tables.seats, r.seats, CourseSeatsView(e), a) /\ SeatsShow(n, a)
  <2>1. m.course[c].subscribers \in Int /\ 1 \in Int
    BY DEF ModelInv, ModelsType, CourseState
  <2>2. T!Changed(SeatRow(m.course[c].capacity, m.course[c].subscribers), seatsChange) = SeatRow(m.course[c].capacity, k)
    BY <2>1, SeatRowChanged
  <2> HIDE DEF seatsChange, k
  <2>3. \E a : Makes(Tables.seats, r.seats, {T!Update(c, seatsChange)}, a) /\ SeatsShow(n, a)
    BY <1>7, <1>t, <2>2, SeatsGoOn
  <2> QED
    BY <1>3, <2>3
<1>10. PICK b : RunAll(Tables.enrolments, r.enrolments, CourseEnrolmentsView(r.enrolments, e)) = b /\ EnrolmentsShow(n, b)
  <2>1. i \in Nat
    BY NextSeatIsNat DEF ModelInv, SeatsInv, Shows
  <2> HIDE DEF i
  <2> QED
    BY <1>3, <1>5, <1>6, <1>t, <2>1, EnrolmentAdded
<1>11. PICK p : Makes(Tables.readiness, r.readiness, CourseReadinessView(e), p) /\ ReadinessShow(n, p)
  <2> HIDE DEF readyChange
  <2>1. \E p : Makes(Tables.readiness, r.readiness, {T!Upsert(c, readyChange)}, p) /\ ReadinessShow(n, p)
    BY <1>4, <1>8, <1>t, ReadinessGoesOn DEF Turns
  <2> QED
    BY <1>3, <2>1
<1>12. Follows(m, r, e)
  BY <1>9, <1>10, <1>11, FollowsBy DEF n
<1> QED
  BY <1>12 DEF e

LEMMA FollowsReleased ==
  ASSUME NEW m, ModelInv(m), NEW r, Shows(m, r), NEW s \in Students, NEW c \in Courses, <<s, c>> \in Held(m)
  PROVE  Follows(m, r, SubscriptionReleased(s, c))
<1> DEFINE e == SubscriptionReleased(s, c)
           n == Folded(m, e)
           x == [m.readiness[c] EXCEPT !.students = @ \ {s}]
           seatsChange == T!Adding([subscribers |-> -1])
           readyChange == T!Adding([students |-> -1])
           k == m.course[c].subscribers + -1
<1>1. AfterReleased(m, n, s, c)
  BY OnReleased DEF ModelInv
<1>2. e.type = "SubscriptionReleased" /\ e.data.course = c /\ e.data.student = s
  BY DEF SubscriptionReleased, Event
<1> HIDE DEF e
<1>3. /\ CourseSeatsView(e) = {T!Update(c, seatsChange)}
      /\ CourseEnrolmentsView(r.enrolments, e) = {T!Remove(<<s, c>>)}
      /\ CourseReadinessView(e) = {T!Upsert(c, readyChange)}
  BY <1>2, ViewsOf
<1>4. n.readiness = [m.readiness EXCEPT ![c] = x]
  BY <1>1 DEF AfterReleased
<1>5. <<s, c>> \in Seats /\ s \in m.readiness[c].students
  <2>1. <<s, c>> \in SeatsOf(m, c)
    BY DEF SeatsOf
  <2> QED
    BY <2>1 DEF ModelInv, SeatsInv, Seats
<1>6. Held(n) = Held(m) \ {<<s, c>>}
  <2>1. \A y \in Seats : n.subscription[y].status = IF y = <<s, c>> THEN "released" ELSE m.subscription[y].status
    BY <1>1, <1>5 DEF AfterReleased, ModelInv, ModelsType, SubscriptionState
  <2> HIDE DEF n
  <2> QED
    BY <1>5, <2>1 DEF Held
<1>7. OnlySubscribers(m, n, c, k)
  BY <1>1 DEF AfterReleased, ModelInv, ModelsType, CourseState, OnlySubscribers
<1>8. Turns(m.readiness[c], readyChange, x)
  BY <1>5, ReadinessIs, StudentGoes
<1> HIDE DEF n, x
<1>t. ModelsType(m) /\ SeatsShow(m, r.seats) /\ EnrolmentsShow(m, r.enrolments) /\ ReadinessShow(m, r.readiness)
  BY DEF ModelInv, Shows
<1>9. PICK a : Makes(Tables.seats, r.seats, CourseSeatsView(e), a) /\ SeatsShow(n, a)
  <2>1. m.course[c].subscribers \in Int /\ -1 \in Int
    BY DEF ModelInv, ModelsType, CourseState
  <2>2. T!Changed(SeatRow(m.course[c].capacity, m.course[c].subscribers), seatsChange) = SeatRow(m.course[c].capacity, k)
    BY <2>1, SeatRowChanged
  <2> HIDE DEF seatsChange, k
  <2>3. \E a : Makes(Tables.seats, r.seats, {T!Update(c, seatsChange)}, a) /\ SeatsShow(n, a)
    BY <1>7, <1>t, <2>2, SeatsGoOn
  <2> QED
    BY <1>3, <2>3
<1>10. PICK b : RunAll(Tables.enrolments, r.enrolments, CourseEnrolmentsView(r.enrolments, e)) = b /\ EnrolmentsShow(n, b)
  <2> DEFINE K == {<<s, c>>}
  <2>1. IsFiniteSet(K)
    BY FS_Singleton
  <2>2. CourseEnrolmentsView(r.enrolments, e) = {T!Remove(x2) : x2 \in K}
    BY <1>3
  <2>3. Held(n) = Held(m) \ K
    BY <1>6
  <2> HIDE DEF K
  <2>4. /\ RunAll(Tables.enrolments, r.enrolments, {T!Remove(x2) : x2 \in K}) = Without(r.enrolments, K)
        /\ EnrolmentsShow(n, Without(r.enrolments, K))
    BY <1>t, <2>1, <2>3, EnrolmentsRemoved
  <2> QED
    BY <2>2, <2>4
<1>11. PICK p : Makes(Tables.readiness, r.readiness, CourseReadinessView(e), p) /\ ReadinessShow(n, p)
  <2> HIDE DEF readyChange
  <2>1. \E p : Makes(Tables.readiness, r.readiness, {T!Upsert(c, readyChange)}, p) /\ ReadinessShow(n, p)
    BY <1>4, <1>8, <1>t, ReadinessGoesOn DEF Turns
  <2> QED
    BY <1>3, <2>1
<1>12. Follows(m, r, e)
  BY <1>9, <1>10, <1>11, FollowsBy DEF n
<1> QED
  BY <1>12 DEF e

LEMMA FollowsCancelled ==
  ASSUME NEW m, ModelInv(m), NEW r, Shows(m, r), NEW c \in Courses, m.readiness[c].status = "waiting"
  PROVE  Follows(m, r, CourseCancelled(c, m.readiness[c].students))
<1> DEFINE gone == m.readiness[c].students
           e == CourseCancelled(c, gone)
           n == Folded(m, e)
           x == [m.readiness[c] EXCEPT !.status = "cancelled"]
           K == {<<s, c>> : s \in gone}
           seatsChange == T!Setting([subscribers |-> 0])
           readyChange == T!Setting([status |-> "cancelled"])
           k == 0
<1>0. gone \in SUBSET Students /\ IsFiniteSet(gone) /\ \A s \in Students : s \in gone <=> <<s, c>> \in Held(m)
  <2>1. IsReadiness(m.readiness[c]) /\ gone \in SUBSET Students
    BY ReadinessIs
  <2>2. ~ m.course[c].cancelled
    BY DEF ModelInv, SeatsInv
  <2> QED
    BY <2>1, <2>2 DEF IsReadiness, ModelInv, SeatsInv
<1> HIDE DEF gone
<1>1. AfterCancelled(m, n, c, gone)
  BY <1>0, OnCancelled DEF ModelInv
<1>2. e.type = "CourseCancelled" /\ e.data.course = c /\ e.data.students = gone
  BY DEF CourseCancelled, Event
<1> HIDE DEF e
<1>3. CourseSeatsView(e) = {T!Update(c, seatsChange)} /\ CourseReadinessView(e) = {T!Upsert(c, readyChange)}
  BY <1>2, ViewsOf
<1>5. CourseEnrolmentsView(r.enrolments, e) = {T!Remove(<<s, c>>) : s \in gone}
  <2>1. CourseEnrolmentsView(r.enrolments, e) = {T!Remove(<<s, e.data.course>>) : s \in e.data.students}
    BY <1>2, ViewsOf, Zenon
  <2> QED
    BY <1>2, <2>1
<1>4. n.readiness = [m.readiness EXCEPT ![c] = x]
  BY <1>1 DEF AfterCancelled
<1>6. Held(n) = Held(m) \ K
  <2>1. \A y \in Seats : n.subscription[y].status =
                           IF y[1] \in gone /\ y[2] = c THEN "released" ELSE m.subscription[y].status
    BY <1>1 DEF AfterCancelled, ModelInv, ModelsType, SubscriptionState
  <2>2. \A y \in Seats : y[1] \in gone /\ y[2] = c <=> y \in K
    BY SeatIsPair
  <2> HIDE DEF n, K
  <2> QED
    BY <2>1, <2>2 DEF Held
<1>7. OnlySubscribers(m, n, c, k)
  BY <1>1 DEF AfterCancelled, ModelInv, ModelsType, CourseState, OnlySubscribers
<1>8. Turns(m.readiness[c], readyChange, x)
  BY ReadinessIs, StatusTurns
<1> HIDE DEF n, x
<1>t. ModelsType(m) /\ SeatsShow(m, r.seats) /\ EnrolmentsShow(m, r.enrolments) /\ ReadinessShow(m, r.readiness)
  BY DEF ModelInv, Shows
<1>9. PICK a : Makes(Tables.seats, r.seats, CourseSeatsView(e), a) /\ SeatsShow(n, a)
  <2>1. m.course[c].subscribers \in Int /\ 0 \in Int
    BY DEF ModelInv, ModelsType, CourseState
  <2>2. T!Changed(SeatRow(m.course[c].capacity, m.course[c].subscribers), seatsChange) = SeatRow(m.course[c].capacity, k)
    BY <2>1, SeatRowChanged
  <2> HIDE DEF seatsChange, k
  <2>3. \E a : Makes(Tables.seats, r.seats, {T!Update(c, seatsChange)}, a) /\ SeatsShow(n, a)
    BY <1>7, <1>t, <2>2, SeatsGoOn
  <2> QED
    BY <1>3, <2>3
<1>10. PICK b : RunAll(Tables.enrolments, r.enrolments, CourseEnrolmentsView(r.enrolments, e)) = b /\ EnrolmentsShow(n, b)
  <2>1. IsFiniteSet(K)
    <3> DEFINE f == [s \in gone |-> <<s, c>>]
    <3>1. f \in Surjection(gone, K)
      BY DEF Surjection
    <3> HIDE DEF f, K
    <3> QED
      BY <1>0, <3>1, FS_Surjection
  <2>2. CourseEnrolmentsView(r.enrolments, e) = {T!Remove(x2) : x2 \in K}
    BY <1>5
  <2> HIDE DEF K
  <2>3. /\ RunAll(Tables.enrolments, r.enrolments, {T!Remove(x2) : x2 \in K}) = Without(r.enrolments, K)
        /\ EnrolmentsShow(n, Without(r.enrolments, K))
    BY <1>6, <1>t, <2>1, EnrolmentsRemoved
  <2> QED
    BY <2>2, <2>3
<1>11. PICK p : Makes(Tables.readiness, r.readiness, CourseReadinessView(e), p) /\ ReadinessShow(n, p)
  <2> HIDE DEF readyChange
  <2>1. \E p : Makes(Tables.readiness, r.readiness, {T!Upsert(c, readyChange)}, p) /\ ReadinessShow(n, p)
    BY <1>4, <1>8, <1>t, ReadinessGoesOn DEF Turns
  <2> QED
    BY <1>3, <2>1
<1>12. Follows(m, r, e)
  BY <1>9, <1>10, <1>11, FollowsBy DEF n
<1> QED
  BY <1>12 DEF e, gone

(* The events no view of these handles. *)
LEMMA FollowsPriced ==
  ASSUME NEW m, ModelInv(m), NEW r, Shows(m, r), NEW c \in Courses, NEW price
  PROVE  Follows(m, r, CoursePriced(c, price))
<1> DEFINE e == CoursePriced(c, price)
           n == Folded(m, e)
<1>1. AfterPriced(m, n, c, price)
  BY OnPriced DEF ModelInv
<1>2. e.type \notin ViewTypes
  BY DEF CoursePriced, Event, ViewTypes
<1> HIDE DEF e
<1>3. n.course = m.course /\ n.readiness = m.readiness /\ Held(n) = Held(m)
  BY <1>1 DEF AfterPriced, Held
<1> HIDE DEF n
<1>4. Follows(m, r, e)
  BY <1>2, <1>3, FollowsQuietly DEF n
<1> QED
  BY <1>4 DEF e

LEMMA FollowsPaid ==
  ASSUME NEW m, ModelInv(m), NEW r, Shows(m, r), NEW s \in Students, NEW c \in Courses, NEW p, NEW amount,
         ~ Known(m, "SubscriptionPaid", p), <<s, c>> \in Held(m)
  PROVE  Follows(m, r, SubscriptionPaid(s, c, p, amount))
<1> DEFINE e == SubscriptionPaid(s, c, p, amount)
           n == Folded(m, e)
<1>1. AfterPaid(m, n, s, c, p, amount)
  BY OnPaid DEF ModelInv
<1>2. e.type \notin ViewTypes
  BY DEF SubscriptionPaid, Event, ViewTypes
<1> HIDE DEF e
<1>3. n.course = m.course /\ n.readiness = m.readiness
  BY <1>1 DEF AfterPaid
<1>4. Held(n) = Held(m)
  <2>1. \A y \in Seats : n.subscription[y].status = IF y = <<s, c>> THEN "paid" ELSE m.subscription[y].status
    BY <1>1 DEF AfterPaid, ModelInv, ModelsType, SubscriptionState
  <2> HIDE DEF n
  <2> QED
    BY <2>1 DEF Held
<1> HIDE DEF n
<1>5. Follows(m, r, e)
  BY <1>2, <1>3, <1>4, FollowsQuietly DEF n
<1> QED
  BY <1>5 DEF e

LEMMA FollowsReceipt ==
  ASSUME NEW m, ModelInv(m), NEW r, Shows(m, r), NEW p, ~ Known(m, "ReceiptSent", p)
  PROVE  Follows(m, r, ReceiptSent(p))
<1> DEFINE e == ReceiptSent(p)
           n == Folded(m, e)
<1>1. AfterReceipt(m, n, p)
  BY OnReceipt DEF ModelInv
<1>2. e.type \notin ViewTypes
  BY DEF ReceiptSent, Event, ViewTypes
<1> HIDE DEF e
<1>3. n.course = m.course /\ n.readiness = m.readiness /\ Held(n) = Held(m)
  BY <1>1 DEF AfterReceipt, Held
<1> HIDE DEF n
<1>4. Follows(m, r, e)
  BY <1>2, <1>3, FollowsQuietly DEF n
<1> QED
  BY <1>4 DEF e

LEMMA FollowsBilled ==
  ASSUME NEW m, ModelInv(m), NEW r, Shows(m, r), NEW b \in Billings, NEW s \in Students, NEW c \in Courses, NEW amount, NEW at,
         ~ Known(m, "BillingStarted", b), <<s, c>> \in Held(m)
  PROVE  Follows(m, r, BillingStarted(b, s, c, amount, at))
<1> DEFINE e == BillingStarted(b, s, c, amount, at)
           n == Folded(m, e)
<1>1. AfterBilled(m, n, b, s, c, amount, at)
  BY OnBilled DEF ModelInv
<1>2. e.type \notin ViewTypes
  BY DEF BillingStarted, Event, ViewTypes
<1> HIDE DEF e
<1>3. n.course = m.course /\ n.readiness = m.readiness
  BY <1>1 DEF AfterBilled
<1>4. Held(n) = Held(m)
  <2>1. \A y \in Seats : n.subscription[y].status = IF y = <<s, c>> THEN "billed" ELSE m.subscription[y].status
    BY <1>1 DEF AfterBilled, ModelInv, ModelsType, SubscriptionState
  <2> HIDE DEF n
  <2> QED
    BY <2>1 DEF Held
<1> HIDE DEF n
<1>5. Follows(m, r, e)
  BY <1>2, <1>3, <1>4, FollowsQuietly DEF n
<1> QED
  BY <1>5 DEF e

LEMMA FollowsIssued ==
  ASSUME NEW m, ModelInv(m), NEW r, Shows(m, r), NEW b, NEW i, NEW amount, NEW dueAt
  PROVE  Follows(m, r, InvoiceIssued(b, i, amount, dueAt))
<1> DEFINE e == InvoiceIssued(b, i, amount, dueAt)
           n == Folded(m, e)
<1>1. e.type \notin ViewTypes /\ \A k : ~ Tagged(e, "course_id", k) /\ ~ Tagged(e, "student_id", k)
  BY DEF InvoiceIssued, Event, OfInvoice, Tagged, ViewTypes
<1> HIDE DEF e
<1>2. n.course = m.course /\ n.readiness = m.readiness /\ n.subscription = m.subscription
  BY <1>1 DEF Folded, Reached, ModelInv, ModelsType, CourseState, ReadinessState, SubscriptionState
<1>3. Held(n) = Held(m)
  BY <1>2 DEF Held
<1> HIDE DEF n
<1>4. Follows(m, r, e)
  BY <1>1, <1>2, <1>3, FollowsQuietly DEF n
<1> QED
  BY <1>4 DEF e

LEMMA FollowsInvoicePaid ==
  ASSUME NEW m, ModelInv(m), NEW r, Shows(m, r), NEW b \in Billings, NEW i, <<b, i>> \in Invoices, NEW p, ~ Known(m, "InvoicePaid", p)
  PROVE  Follows(m, r, InvoicePaid(b, i, p))
<1> DEFINE e == InvoicePaid(b, i, p)
           n == Folded(m, e)
<1>1. AfterInvoicePaid(m, n, b, i, p)
  BY OnInvoicePaid DEF ModelInv
<1>2. e.type \notin ViewTypes
  BY DEF InvoicePaid, Event, ViewTypes
<1> HIDE DEF e
<1>3. n.course = m.course /\ n.readiness = m.readiness /\ Held(n) = Held(m)
  BY <1>1 DEF AfterInvoicePaid, Held
<1> HIDE DEF n
<1>4. Follows(m, r, e)
  BY <1>2, <1>3, FollowsQuietly DEF n
<1> QED
  BY <1>4 DEF e

LEMMA FollowsOverdue ==
  ASSUME NEW m, ModelInv(m), NEW r, Shows(m, r), NEW b \in Billings, NEW i, <<b, i>> \in Invoices
  PROVE  Follows(m, r, InvoiceOverdue(b, i))
<1> DEFINE e == InvoiceOverdue(b, i)
           n == Folded(m, e)
<1>1. AfterOverdue(m, n, b, i)
  BY OnOverdue DEF ModelInv
<1>2. e.type \notin ViewTypes
  BY DEF InvoiceOverdue, Event, ViewTypes
<1> HIDE DEF e
<1>3. n.course = m.course /\ n.readiness = m.readiness /\ Held(n) = Held(m)
  BY <1>1 DEF AfterOverdue, Held
<1> HIDE DEF n
<1>4. Follows(m, r, e)
  BY <1>2, <1>3, FollowsQuietly DEF n
<1> QED
  BY <1>4 DEF e

LEMMA FollowsStopped ==
  ASSUME NEW m, ModelInv(m), NEW r, Shows(m, r), NEW b \in Billings, ~ Known(m, "BillingStopped", b)
  PROVE  Follows(m, r, BillingStopped(b))
<1> DEFINE e == BillingStopped(b)
           n == Folded(m, e)
<1>1. AfterStopped(m, n, b)
  BY OnStopped DEF ModelInv
<1>2. e.type \notin ViewTypes
  BY DEF BillingStopped, Event, ViewTypes
<1> HIDE DEF e
<1>3. n.course = m.course /\ n.readiness = m.readiness /\ Held(n) = Held(m)
  BY <1>1 DEF AfterStopped, Held
<1> HIDE DEF n
<1>4. Follows(m, r, e)
  BY <1>2, <1>3, FollowsQuietly DEF n
<1> QED
  BY <1>4 DEF e

-----------------------------------------------------------------------------
(* The rows after a decision. *)
Tells(m, r, decision) ==
  /\ Shows(FoldOf(m, decision.events), RowsAfter(r, decision.events))
  /\ MemoryAfter(Kept(r), decision.events) = Kept(RowsAfter(r, decision.events))

LEMMA TellsNothing == ASSUME NEW m, NEW r, Shows(m, r) PROVE Tells(m, r, Noop) /\ Tells(m, r, Fail)
BY FoldNone, RowsNone, MemoryNone DEF Tells, Noop, Fail

LEMMA TellsOne == ASSUME NEW m, NEW r, NEW e, NEW set, Follows(m, r, e) PROVE Tells(m, r, Emit(<<e>>, set))
<1>1. Emit(<<e>>, set).events = <<e>>
  BY DEF Emit
<1> QED
  BY <1>1, FoldOne, RowsOne, MemoryOne DEF Tells, Follows

LEMMA TellsTwo ==
  ASSUME NEW m, NEW r, NEW e, NEW f, NEW set, Follows(m, r, e), Follows(Folded(m, e), Projected(r, e), f)
  PROVE  Tells(m, r, Emit(<<e, f>>, set))
<1>1. Emit(<<e, f>>, set).events = <<e, f>>
  BY DEF Emit
<1> QED
  BY <1>1, FoldTwo, RowsTwo, MemoryTwo DEF Tells, Follows

(* One seat's release, with the event before it that takes no seat. *)
LEMMA TellsReleased ==
  ASSUME NEW m, NEW r, NEW e, Follows(m, r, e), ModelInv(Folded(m, e)), Folded(m, e).subscription = m.subscription,
         NEW s \in Students, NEW c \in Courses, <<s, c>> \in Held(m)
  PROVE  Tells(m, r, Emit(<<e, SubscriptionReleased(s, c)>>, <<>>))
<1> DEFINE k == Folded(m, e)
<1>1. <<s, c>> \in Held(k) /\ ModelInv(k)
  BY DEF Held
<1>2. Shows(k, Projected(r, e))
  BY DEF Follows
<1> HIDE DEF k
<1>3. Follows(k, Projected(r, e), SubscriptionReleased(s, c))
  BY <1>1, <1>2, FollowsReleased
<1> QED
  BY <1>3, TellsTwo DEF k

LEMMA HeldSeat ==
  ASSUME NEW m, NEW s \in Students, NEW c \in Courses, m.subscription[<<s, c>>].status \in {"subscribed", "billed"}
  PROVE  <<s, c>> \in Held(m)
BY DEF Held, Seats

LEMMA ClientsTell ==
  ASSUME NEW m, ModelInv(m), NEW r, Shows(m, r)
  PROVE  /\ \A at : \A c \in Courses, capacity \in Capacities : Tells(m, r, DefineCourse(m, c, capacity, at))
         /\ \A s \in Students, c \in Courses, at \in Nat : Tells(m, r, Subscribe(m, s, c, at))
         /\ \A price : \A c \in Courses : Tells(m, r, PriceCourse(m, c, price))
         /\ \A p, amount, at : \A s \in Students, c \in Courses : Tells(m, r, PaySubscription(m, s, c, p, amount, at))
         /\ \A at : \A b \in Billings, s \in Students, c \in Courses : Tells(m, r, StartMonthlyFee(m, b, s, c, at))
         /\ \A b \in Billings, s \in Students, c \in Courses : Tells(m, r, StopMonthlyFee(m, b, s, c))
         /\ \A p, amount, at : \A b \in Billings, i \in 1 .. MaxInvoices : Tells(m, r, PayInvoice(m, b, i, p, amount, at))
         /\ \A c \in Courses : \A e \in {TeacherAssigned(c), RoomBooked(c)} : Tells(m, r, Emit(<<e>>, <<>>))
         /\ \A c \in Courses : Tells(m, r, ConfirmCourse(m, c))
         /\ \A p : Tells(m, r, SendReceipt(m, p))
<1>1. ASSUME NEW c \in Courses, NEW capacity \in Capacities, NEW at PROVE Tells(m, r, DefineCourse(m, c, capacity, at))
  <2>1. capacity \in Nat
    BY EnrolmentAssumption
  <2>2. ~ m.course[c].exists => Follows(m, r, CourseDefined(c, capacity))
    BY <2>1, FollowsDefined
  <2> QED
    BY <2>2, TellsOne, TellsNothing, Zenon DEF DefineCourse
<1>2. ASSUME NEW s \in Students, NEW c \in Courses, NEW at \in Nat PROVE Tells(m, r, Subscribe(m, s, c, at))
  <2>1. ~ m.course[c].cancelled /\ c \notin m.student[s] => Follows(m, r, StudentSubscribed(s, c, at))
    BY FollowsSubscribed
  <2> QED
    BY <2>1, TellsOne, TellsNothing, Zenon DEF Subscribe
<1>3. ASSUME NEW c \in Courses, NEW price PROVE Tells(m, r, PriceCourse(m, c, price))
  BY FollowsPriced, TellsOne, TellsNothing, Zenon DEF PriceCourse
<1>4. ASSUME NEW s \in Students, NEW c \in Courses, NEW p, NEW amount, NEW at
      PROVE  Tells(m, r, PaySubscription(m, s, c, p, amount, at))
  <2>1. ~ Known(m, "SubscriptionPaid", p) /\ m.subscription[<<s, c>>].status = "subscribed" => Follows(m, r, SubscriptionPaid(s, c, p, amount))
    BY FollowsPaid, HeldSeat
  <2> QED
    BY <2>1, TellsOne, TellsNothing, Zenon DEF PaySubscription
<1>5. ASSUME NEW b \in Billings, NEW s \in Students, NEW c \in Courses, NEW at PROVE Tells(m, r, StartMonthlyFee(m, b, s, c, at))
  <2>1. ~ Known(m, "BillingStarted", b) /\ m.subscription[<<s, c>>].status = "subscribed" =>
          Follows(m, r, BillingStarted(b, s, c, m.pricing[c], at))
    BY FollowsBilled, HeldSeat
  <2> QED
    BY <2>1, TellsOne, TellsNothing, Zenon DEF StartMonthlyFee
<1>6. ASSUME NEW b \in Billings, NEW s \in Students, NEW c \in Courses PROVE Tells(m, r, StopMonthlyFee(m, b, s, c))
  <2>1. ASSUME ~ Known(m, "BillingStopped", b), BilledBy(m.subscription[<<s, c>>], b)
        PROVE  Tells(m, r, Emit(<<BillingStopped(b), SubscriptionReleased(s, c)>>, <<>>))
    <3> DEFINE k == Folded(m, BillingStopped(b))
    <3>1. AfterStopped(m, k, b)
      BY <2>1, OnStopped DEF ModelInv
    <3>2. ModelInv(k)
      BY <3>1, KeepStopped
    <3>3. k.subscription = m.subscription
      BY <3>1 DEF AfterStopped
    <3>4. Follows(m, r, BillingStopped(b))
      BY <2>1, FollowsStopped
    <3>5. <<s, c>> \in Held(m)
      BY <2>1, HeldSeat DEF BilledBy
    <3> QED
      BY <3>2, <3>3, <3>4, <3>5, TellsReleased
  <2> QED
    BY <2>1, TellsNothing, Zenon DEF StopMonthlyFee
<1>7. ASSUME NEW b \in Billings, NEW i \in 1 .. MaxInvoices, NEW p, NEW amount, NEW at
      PROVE  Tells(m, r, PayInvoice(m, b, i, p, amount, at))
  <2>1. ~ Known(m, "InvoicePaid", p) => Follows(m, r, InvoicePaid(b, i, p))
    BY FollowsInvoicePaid DEF Invoices
  <2> QED
    BY <2>1, TellsOne, TellsNothing, Zenon DEF PayInvoice
<1>8. ASSUME NEW c \in Courses, NEW e, e \in {TeacherAssigned(c), RoomBooked(c)} PROVE Tells(m, r, Emit(<<e>>, <<>>))
  BY <1>8, FollowsTeacher, FollowsRoom, TellsOne
<1>9. ASSUME NEW c \in Courses PROVE Tells(m, r, ConfirmCourse(m, c))
  BY FollowsConfirmed, TellsOne, TellsNothing, Zenon DEF ConfirmCourse
<1>10. ASSUME NEW p PROVE Tells(m, r, SendReceipt(m, p))
  BY FollowsReceipt, TellsOne, TellsNothing, Zenon DEF SendReceipt
<1> QED
  BY <1>1, <1>2, <1>3, <1>4, <1>5, <1>6, <1>7, <1>8, <1>9, <1>10

LEMMA ReleaseOverdueTells ==
  ASSUME NEW m, ModelInv(m), NEW r, Shows(m, r), NEW b \in Billings, NEW s \in Students, NEW c \in Courses, NEW i, <<b, i>> \in Invoices
  PROVE  Tells(m, r, ReleaseOverdueInvoice(m, b, s, c, i))
<1>1. ASSUME ~ m.invoice[<<b, i>>].paid, BilledBy(m.subscription[<<s, c>>], b)
      PROVE  Tells(m, r, Emit(<<InvoiceOverdue(b, i), SubscriptionReleased(s, c)>>, <<>>))
  <2> DEFINE k == Folded(m, InvoiceOverdue(b, i))
  <2>0. i \in 1 .. MaxInvoices
    BY DEF Invoices
  <2>1. AfterOverdue(m, k, b, i)
    BY OnOverdue DEF ModelInv
  <2>2. ModelInv(k)
    BY <1>1, <2>0, <2>1, KeepInvoice
  <2>3. k.subscription = m.subscription
    BY <2>1 DEF AfterOverdue
  <2>4. Follows(m, r, InvoiceOverdue(b, i))
    BY FollowsOverdue
  <2>5. <<s, c>> \in Held(m)
    BY <1>1, HeldSeat DEF BilledBy
  <2> QED
    BY <2>2, <2>3, <2>4, <2>5, TellsReleased
<1> QED
  BY <1>1, TellsNothing, Zenon DEF ReleaseOverdueInvoice

LEMMA DeadlinesTell ==
  ASSUME NEW m, ModelInv(m), Bounded(m), NEW r, Shows(m, r), NEW d, IsDeadline(m, d), NEW at
  PROVE  Tells(m, r, RunDeadline(m, d, at))
<1> DEFINE x == d.input
           decision == RunDeadline(m, d, at)
<1>1. CASE d.command = "cancel_unready_course" /\ x \in Courses
  <2>1. decision = CancelUnreadyCourse(m, x)
    BY <1>1 DEF RunDeadline
  <2>2. m.readiness[x].status = "waiting" => Follows(m, r, CourseCancelled(x, m.readiness[x].students))
    BY <1>1, FollowsCancelled
  <2>3. Tells(m, r, CancelUnreadyCourse(m, x))
    BY <2>2, TellsOne, TellsNothing, Zenon DEF CancelUnreadyCourse
  <2> QED
    BY <2>1, <2>3
<1>2. CASE d.command = "release_unpaid_subscription" /\ x \in Seats
  <2>1. decision = ReleaseUnpaidSubscription(m, x[1], x[2], at) /\ x[1] \in Students /\ x[2] \in Courses
    BY <1>2, SeatIsPair DEF RunDeadline
  <2>2. ASSUME NEW s \in Students, NEW c \in Courses PROVE Tells(m, r, ReleaseUnpaidSubscription(m, s, c, at))
    <3>1. m.subscription[<<s, c>>].status = "subscribed" => Follows(m, r, SubscriptionReleased(s, c))
      BY HeldSeat, FollowsReleased
    <3> QED
      BY <3>1, TellsOne, TellsNothing, Zenon DEF ReleaseUnpaidSubscription
  <2> QED
    BY <2>1, <2>2
<1>3. CASE /\ x \in Billings \X Students \X Courses \X (Nat \ {0})
           /\ \/ d.command = "issue_invoice" /\ x[4] <= m.billing[x[1]].lastIssued + 1
              \/ /\ d.command = "release_overdue_invoice" /\ x[4] <= m.billing[x[1]].lastIssued
                 /\ d.dueAt = m.invoice[<<x[1], x[4]>>].dueAt
  <2> DEFINE b == x[1]
             s == x[2]
             c == x[3]
             i == x[4]
  <2>1. b \in Billings /\ s \in Students /\ c \in Courses /\ i \in Nat \ {0} /\ m.billing[b].lastIssued \in Nat
    BY <1>3 DEF ModelInv, ModelsType, BillingState
  <2>2. CASE d.command = "issue_invoice"
    <3>1. decision = IssueInvoice(m, b, s, c, i, at)
      BY <2>2 DEF RunDeadline
    <3> HIDE DEF b, s, c, i
    <3>2. Tells(m, r, IssueInvoice(m, b, s, c, i, at))
      BY FollowsIssued, TellsOne, TellsNothing, Zenon DEF IssueInvoice
    <3> QED
      BY <3>1, <3>2
  <2>3. CASE d.command = "release_overdue_invoice" /\ i <= m.billing[b].lastIssued
    <3>1. decision = ReleaseOverdueInvoice(m, b, s, c, i)
      BY <2>3 DEF RunDeadline
    <3> HIDE DEF b, s, c, i
    <3>2. <<b, i>> \in Invoices
      <4>1. i \in 1 .. m.billing[b].lastIssued
        BY <2>1, <2>3
      <4> QED
        BY <2>1, <4>1, InvoiceIn DEF ModelInv
    <3> QED
      BY <2>1, <3>1, <3>2, ReleaseOverdueTells
  <2> QED
    BY <1>3, <2>2, <2>3
<1> QED
  BY <1>1, <1>2, <1>3 DEF IsDeadline

-----------------------------------------------------------------------------
(* So in every state. *)
RowsInv == Shows(models, rows) /\ memory = Kept(rows)

LEMMA StoresRows == ASSUME RowsInv, NEW decision, Tells(models, rows, decision), Stored(decision) PROVE RowsInv'
<1>1. /\ models' = FoldOf(models, decision.events) /\ rows' = RowsAfter(rows, decision.events)
      /\ memory' = MemoryAfter(memory, decision.events)
  BY DEF Stored, FoldOf, RowsAfter, MemoryAfter
<1>2. Shows(models', rows') /\ memory' = Kept(rows')
  BY <1>1 DEF RowsInv, Tells
<1> QED
  BY <1>2 DEF RowsInv

LEMMA ClientsShow == ASSUME IInv, RowsInv, ClientStep \/ PricesACourse \/ StopsFee \/ Prepares PROVE RowsInv'
<1>1. ModelInv(models) /\ Shows(models, rows)
  BY DEF IInv, RowsInv
<1>2. \A p \in ClientPods : Clock(p) \in Nat
  BY ClockIsNat, CourseAssumption DEF IInv
<1>3. \A decision : Runs(decision) => Stored(decision)
  BY DEF Runs, Commits
<1>4. ASSUME NEW p \in ClientPods, Defines(p) \/ Subscribes(p) PROVE RowsInv'
  BY <1>1, <1>2, <1>3, <1>4, ClientsTell, StoresRows DEF Defines, Subscribes
<1>5. ASSUME NEW p \in ClientPods, Pays(p) PROVE RowsInv'
  BY <1>1, <1>3, <1>5, ClientsTell, StoresRows DEF Pays
<1>6. ASSUME NEW p \in ClientPods, StartsFee(p) PROVE RowsInv'
  BY <1>1, <1>3, <1>6, ClientsTell, StoresRows DEF StartsFee
<1>7. ASSUME NEW p \in ClientPods, PaysInvoice(p) PROVE RowsInv'
  BY <1>1, <1>3, <1>7, ClientsTell, StoresRows DEF PaysInvoice
<1>8. ASSUME PricesACourse \/ StopsFee PROVE RowsInv'
  BY <1>1, <1>3, <1>8, ClientsTell, StoresRows DEF PricesACourse, StopsFee
<1>9. ASSUME Prepares PROVE RowsInv'
  BY <1>1, <1>3, <1>9, ClientsTell, StoresRows DEF Prepares
<1> QED
  BY <1>4, <1>5, <1>6, <1>7, <1>8, <1>9 DEF ClientStep

LEMMA ReactionsShow == ASSUME IInv, RowsInv, Reacts \/ ReactsAndEnds PROVE RowsInv'
<1>1. PICK request \in asked : Stored(RunRequest(request))
  BY DEF Reacts, ReactsAndEnds, Handles
<1>2. ModelInv(models) /\ Shows(models, rows)
  BY DEF IInv, RowsInv
<1>3. Tells(models, rows, RunRequest(request))
  <2>1. CASE request[1] = "confirm_course" /\ request[2] \in Courses
    BY <2>1, <1>2, ClientsTell DEF RunRequest
  <2>2. CASE request[1] = "send_receipt" /\ request[2] \in Payments
    BY <2>2, <1>2, ClientsTell DEF RunRequest
  <2> QED
    BY <1>1, <2>1, <2>2 DEF IInv, AskedInv
<1> QED
  BY <1>1, <1>3, StoresRows

LEMMA FiresShow == ASSUME IInv, RowsInv, NEW p \in Pods, Fires(p) PROVE RowsInv'
<1> DEFINE d == Current(p)
           decision == RunDeadline(models, d, Clock(p))
<1>1. Firing(p) /\ Stored(decision)
  BY DEF Fires, Commits
<1>2. IsDeadline(models, d)
  BY <1>1, CurrentIs DEF IInv, DeadlinesInv, Rows, Firing
<1>3. ModelInv(models) /\ Bounded(models) /\ Shows(models, rows)
  BY IsReady DEF Ready, RowsInv
<1>4. Tells(models, rows, decision)
  BY <1>2, <1>3, DeadlinesTell
<1> QED
  BY <1>1, <1>4, StoresRows

LEMMA StepsShow == ASSUME IInv, RowsInv, [Next]_vars PROVE RowsInv'
<1>1. UNCHANGED courseVars => RowsInv'
  BY DEF courseVars, RowsInv
<1>2. UNCHANGED vars => UNCHANGED courseVars
  BY DEF vars
<1> QED
  BY <1>1, <1>2, ClientsShow, ReactionsShow, FiresShow DEF Next

LEMMA InitialRows == ASSUME Init PROVE RowsInv
<1>1. models = InitialModels /\ rows = [t \in DOMAIN Tables |-> <<>>] /\ memory = [t \in Replayable |-> <<>>]
  BY DEF Init
<1>2. rows.seats = <<>> /\ rows.enrolments = <<>> /\ rows.readiness = <<>>
  BY <1>1, TablesAre
<1>3. /\ \A c \in Courses : ~ models.course[c].exists /\ models.readiness[c] = NotReady
      /\ Held(models) = {}
  BY <1>1 DEF InitialModels, NotReady, Held
<1>4. SeatsShow(models, <<>>) /\ EnrolmentsShow(models, <<>>) /\ ReadinessShow(models, <<>>)
  <2>1. SeatsShow(models, <<>>)
    BY <1>3 DEF SeatsShow
  <2>2. EnrolmentsShow(models, <<>>)
    BY <1>3 DEF EnrolmentsShow
  <2>3. \A c \in Courses : IsFiniteSet(models.readiness[c].students)
    BY <1>3, NotReadyIs, FS_EmptySet
  <2>4. ReadinessShow(models, <<>>)
    BY <1>3, <2>3, NoColumns DEF ReadinessShow
  <2> QED
    BY <2>1, <2>2, <2>4
<1>5. rows = [t \in DOMAIN Tables |-> rows[t]] /\ memory = Kept(rows)
  BY <1>1, TablesAre DEF Kept, Replayable
<1> QED
  BY <1>1, <1>2, <1>4, <1>5 DEF RowsInv, Shows

LEMMA RowsFollow == ASSUME RowsInv PROVE RowsShowTheModels
<1>1. /\ SeatsShow(models, rows.seats) /\ EnrolmentsShow(models, rows.enrolments) /\ ReadinessShow(models, rows.readiness)
      /\ memory = [t \in Replayable |-> rows[t]]
  BY DEF RowsInv, Shows, Kept
<1>2. rows.seats = [c \in {c \in Courses : models.course[c].exists} |->
                      [capacity |-> models.course[c].capacity, subscribers |-> models.course[c].subscribers]]
  BY <1>1, Zenon DEF SeatsShow, SeatRow
<1>3. DOMAIN rows.enrolments = Held(models)
  BY <1>1 DEF EnrolmentsShow
<1>4. ASSUME NEW c \in DOMAIN rows.readiness
      PROVE  rows.readiness[c] = [teacher |-> IF models.readiness[c].teacher THEN TRUE ELSE Null,
                                  room |-> IF models.readiness[c].room THEN TRUE ELSE Null,
                                  students |-> Cardinality(models.readiness[c].students), status |-> models.readiness[c].status]
  <2>1. rows.readiness[c] = ReadyRowOf(models.readiness[c])
    BY <1>1 DEF ReadinessShow
  <2> QED
    BY <2>1, Zenon DEF ReadyRowOf, ReadyRow, Flag
<1> QED
  BY <1>1, <1>2, <1>3, <1>4, Zenon DEF RowsShowTheModels

(* In every state the rows of the views of course-enrolment-app/src/views   *)
(* are those the models of the same log fold, although a view keeps its     *)
(* counts, flags and seats by additions, upserts and removals of its own.   *)
(* Of the seats and the readiness the rows that ViewMemory.ts keeps in      *)
(* plain maps are the rows that the compiled SQL keeps.                     *)
THEOREM RowsShow == Spec => []RowsShowTheModels
<1>1. Init => RowsInv
  BY InitialRows
<1>2. IInv /\ RowsInv /\ [Next]_vars => RowsInv'
  BY StepsShow
<1>3. RowsInv => RowsShowTheModels
  BY RowsFollow
<1> QED
  BY <1>1, <1>2, <1>3, AppIsInStep, PTL DEF Spec
=============================================================================
