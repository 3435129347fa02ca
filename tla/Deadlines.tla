----------------------------- MODULE Deadlines ------------------------------
(***************************************************************************)
(* The deadlines processor (ADR-0043).  A deadline is an event of the log; *)
(* the append that stores it writes its row in crablet_deadlines.  The     *)
(* processor reads the rows that are due by its own clock, in due order,   *)
(* runs each one's command in a transaction of its own, and then records   *)
(* the firing: the row is deleted and crablet.DeadlineFired appended, in   *)
(* one transaction.  Between the two a pod may crash, the command may time *)
(* out although it committed, or another pod may have become the leader:   *)
(* the deadline is then fired again.  What a command does is not here: the *)
(* module that has commands joins its step with Ran(p, outcome).           *)
(***************************************************************************)
EXTENDS Integers, Sequences, FiniteSets

CONSTANTS Pods, Ahead,      \* the instances, and how far ahead of the database's time each one's clock is
          BatchSize, MaxErrors,
          MaxNow,           \* bound: the last instant
          MaxDeadlines,     \* bound: how many deadlines are set
          MaxFaults         \* bound: crashes, faults and changes of leader, all together

VARIABLES now,              \* the time, of which each pod has its own idea
          last,             \* how many deadlines were set: they are numbered in the order of their positions
          deadlines,        \* the rows of crablet_deadlines
          fired,            \* how many crablet.DeadlineFired each deadline has
          leader,           \* the pod that holds the processor's lock
          batch,            \* what each pod has fetched and not finished, the oldest due being fired
          ran,              \* how that one's command ended, "not_run" before it did
          status, errors,   \* of the processor's progress row
          faults            \* bound: how many of the faults have happened

deadlineVars == <<now, last, deadlines, fired, leader, batch, ran, status, errors, faults>>
processorVars == <<leader, batch, ran, status, errors, faults>>

ASSUME DeadlinesAssumption ==
    /\ Ahead \in [Pods -> Nat]
    /\ {BatchSize, MaxErrors} \subseteq Nat \ {0}
    /\ {MaxNow, MaxDeadlines, MaxFaults} \subseteq Nat

Outcomes == {"appended", "noop", "failed"}
Clock(p) == now + Ahead[p]

DeadlinesInit ==
    /\ now = 0 /\ last = 0 /\ deadlines = {}
    /\ fired = [d \in 1 .. MaxDeadlines |-> 0]
    /\ leader \in Pods
    /\ batch = [p \in Pods |-> {}] /\ ran = [p \in Pods |-> "not_run"]
    /\ status = "ACTIVE" /\ errors = 0 /\ faults = 0

-----------------------------------------------------------------------------
(* Deadlines set with an append: one row each.  asked: their commands, inputs and due times, in the order `decide` gives them. *)
Row(position, asked) == [position |-> position, command |-> asked.command, input |-> asked.input, dueAt |-> asked.dueAt]

Schedule(asked) ==
    /\ last + Len(asked) <= MaxDeadlines
    /\ last' = last + Len(asked)
    /\ deadlines' = deadlines \cup {Row(last + i, asked[i]) : i \in 1 .. Len(asked)}

-----------------------------------------------------------------------------
Fails == faults < MaxFaults /\ faults' = faults + 1

\* A tick of the pod's loop: the rows due by the pod's clock, the oldest due first.  The cursor is ignored and never moves.
DueBefore(d, e) == d.dueAt < e.dueAt \/ (d.dueAt = e.dueAt /\ d.position < e.position)
Due(p) == {d \in deadlines : d.dueAt <= Clock(p)}
Fetch(p) ==
    /\ leader = p /\ status = "ACTIVE" /\ batch[p] = {}
    /\ Due(p) # {}
    /\ batch' = [batch EXCEPT ![p] = {d \in Due(p) : Cardinality({e \in Due(p) : DueBefore(e, d)}) < BatchSize}]
    /\ UNCHANGED <<now, last, deadlines, fired, leader, ran, status, errors, faults>>

\* The deadline a pod is firing, and the end of its command.
Current(p) == CHOOSE d \in batch[p] : \A e \in batch[p] \ {d} : DueBefore(d, e)
Firing(p) == batch[p] # {} /\ ran[p] = "not_run"
Ran(p, outcome) == Firing(p) /\ ran' = [ran EXCEPT ![p] = outcome] /\ UNCHANGED <<leader, batch, status, errors, faults>>

\* mutant: recorded although the row was gone
FiredAgain(d) == [fired EXCEPT ![d.position] = @ + 1]
FiredNow(d) == IF d \in deadlines THEN [fired EXCEPT ![d.position] = @ + 1] ELSE fired

\* Its firing is recorded: the row goes first, as the guard.  The end of the batch resets the error count, unless the fence
\* finds that the lock is lost.
RecordFiring(p) ==
    /\ ran[p] # "not_run"
    /\ LET d == Current(p) IN
        /\ deadlines' = deadlines \ {d}
        /\ fired' = FiredNow(d)
        /\ batch' = [batch EXCEPT ![p] = @ \ {d}]
        /\ errors' = IF batch[p] = {d} /\ leader = p THEN 0 ELSE errors
    /\ ran' = [ran EXCEPT ![p] = "not_run"]
    /\ UNCHANGED <<now, last, leader, status, faults>>

Drops(p) == batch' = [batch EXCEPT ![p] = {}] /\ ran' = [ran EXCEPT ![p] = "not_run"]

\* A fault at the deadline being fired, before its command committed or after (the database, a conflict out of retries, a command that
\* took longer than fireTimeoutMs): the ones before it stay fired, the rest is fetched again, and the error is counted.
Fault(p) ==
    /\ batch[p] # {} /\ Fails /\ Drops(p)
    /\ errors' = errors + 1
    /\ status' = IF errors + 1 >= MaxErrors THEN "FAILED" ELSE status
    /\ UNCHANGED <<now, last, deadlines, fired, leader>>

\* A crash, or the end of the process: nothing is recorded.
Crash(p) == batch[p] # {} /\ Fails /\ Drops(p) /\ UNCHANGED <<now, last, deadlines, fired, leader, status, errors>>

\* The lock goes to another pod; the one that had it is a zombie until its batch ends.
Lead(p) == leader # p /\ Fails /\ leader' = p /\ UNCHANGED <<now, last, deadlines, fired, batch, ran, status, errors>>

\* The operator starts a processor that gave up: the error count stays as it is.
Resume == status # "ACTIVE" /\ status' = "ACTIVE" /\ UNCHANGED <<now, last, deadlines, fired, leader, batch, ran, errors, faults>>

Tick == now < MaxNow /\ now' = now + 1 /\ UNCHANGED <<last, deadlines, fired, leader, batch, ran, status, errors, faults>>

\* Every step but the running of a command and the setting of a deadline.
ProcessorStep ==
    \/ \E p \in Pods : Fetch(p) \/ RecordFiring(p) \/ Fault(p) \/ Crash(p) \/ Lead(p)
    \/ Resume \/ Tick

-----------------------------------------------------------------------------
DeadlinesTypeOK ==
    /\ now \in 0 .. MaxNow /\ last \in 0 .. MaxDeadlines /\ faults \in 0 .. MaxFaults /\ errors \in Nat
    /\ \A d \in deadlines : d.position \in 1 .. last /\ d.dueAt \in Nat
    /\ fired \in [1 .. MaxDeadlines -> Nat]
    /\ leader \in Pods
    /\ ran \in [Pods -> Outcomes \cup {"not_run"}] /\ \A p \in Pods : ran[p] # "not_run" => batch[p] # {}
    /\ status \in {"ACTIVE", "FAILED"}

\* A deadline has its row until it has fired, and one crablet.DeadlineFired after, whatever the pods fired twice.
FiredOnce ==
    \A n \in 1 .. MaxDeadlines :
        fired[n] = IF n \in {d.position : d \in deadlines} \/ n > last THEN 0 ELSE 1
=============================================================================
