---------------------------- MODULE LeaderLease ----------------------------
(* The lease of a leader's lock session (packages/eventstore/src/Leader.ts,  *)
(* ADR-0045), in time.                                                        *)
(*                                                                            *)
(* A leader holds a session-level advisory lock and asks its own session      *)
(* every Heartbeat whether it still does; FailuresBeforeLost failed checks in *)
(* a row, each of at most VerifyTimeout, and it is lost. The session has told *)
(* the server to end it once it was idle for ServerIdle. The two sides never  *)
(* compare clocks: the leader counts from the last answer it received, the    *)
(* server from the last statement it ran.                                     *)
(*                                                                            *)
(* A session here is one connection from the attempt to its end; what several *)
(* leaders do on one shared session is LeaderSession's matter. Time is        *)
(* discrete; the leader's timers and the server's are never late (no stalled  *)
(* event loop), while a statement or an answer takes any time at all.         *)
EXTENDS Integers

CONSTANTS Session,             \* the connections, each used for one attempt
          Nobody,              \* the lock is free
          Heartbeat,           \* LeaderOptions.heartbeat
          VerifyTimeout,       \* LeaderOptions.verifyTimeout
          FailuresBeforeLost,  \* LeaderOptions.failuresBeforeLost
          ServerIdle           \* LeaderOptions.serverIdleTimeout

lossDetectionBound == FailuresBeforeLost * (Heartbeat + VerifyTimeout)

\* What serverIdleTimeoutOf accepts.
ASSUME AcceptedOptions ==
  /\ Heartbeat \in Nat \ {0} /\ VerifyTimeout \in Nat \ {0}
  /\ FailuresBeforeLost \in Nat \ {0}
  /\ ServerIdle \in Nat /\ ServerIdle > lossDetectionBound
  /\ Nobody \notin Session

VARIABLES
  phase,     \* the attempt, then the member's state: see Phase
  failures,  \* consecutive failed checks
  timer,     \* until the monitor wakes, or the statement has not answered
  wire,      \* the statement in flight: "none", "sent", or its answer
  holder,    \* the session the server granted the lock to
  alive,     \* the sessions the server still has
  lease,     \* the sessions that set idle_session_timeout
  idle,      \* of a session with a lease: time since its last statement ran
  cut,       \* the sessions whose network went silent
  gone       \* time since the session was cut off or ended
client == <<phase, failures, timer, wire>>
server == <<holder, alive, lease, idle>>
vars == <<client, server, cut, gone>>

Phase == {"unused", "locking", "leasing", "leading", "lost", "releasing",
          "closed", "failed"}
Waiting == {"locking", "leasing", "releasing"}  \* for a statement's answer

LeaseTypeOK ==
  /\ phase \in [Session -> Phase]
  /\ failures \in [Session -> 0..FailuresBeforeLost]
  /\ timer \in [Session -> Nat]
  /\ wire \in [Session -> {"none", "sent", "yes", "no"}]
  /\ holder \in Session \cup {Nobody}
  /\ alive \subseteq Session /\ lease \subseteq Session /\ cut \subseteq Session
  /\ idle \in [Session -> Nat] /\ gone \in [Session -> Nat]

Init ==
  /\ phase = [s \in Session |-> "unused"]
  /\ failures = [s \in Session |-> 0]
  /\ timer = [s \in Session |-> 0]
  /\ wire = [s \in Session |-> "none"]
  /\ holder = Nobody
  /\ alive = Session /\ lease = {} /\ cut = {}
  /\ idle = [s \in Session |-> 0] /\ gone = [s \in Session |-> 0]

\* The session becomes p and a statement of at most VerifyTimeout is sent on it.
Sends(s, p) ==
  /\ phase' = [phase EXCEPT ![s] = p]
  /\ wire' = [wire EXCEPT ![s] = "sent"]
  /\ timer' = [timer EXCEPT ![s] = VerifyTimeout]
\* The session becomes p with nothing in flight, and its timer is set to t.
Rests(s, p, t) ==
  /\ phase' = [phase EXCEPT ![s] = p]
  /\ wire' = [wire EXCEPT ![s] = "none"]
  /\ timer' = [timer EXCEPT ![s] = t]

-----------------------------------------------------------------------------
(* The client. An answer that came in time is taken; at the timer's end it is *)
(* no answer any more.                                                        *)

Attempt(s) ==
  /\ phase[s] = "unused"
  /\ Sends(s, "locking")
  /\ UNCHANGED <<failures, server, cut, gone>>

Answer(s, a) == s \notin cut /\ wire[s] = a

TakesTheLock(s) ==
  /\ phase[s] = "locking"
  /\ \/ Answer(s, "yes") /\ Sends(s, "leasing")
     \/ Answer(s, "no") /\ Rests(s, "failed", 0)
  /\ UNCHANGED <<failures, server, cut, gone>>

TakesTheLease(s) ==
  /\ phase[s] = "leasing" /\ Answer(s, "yes")
  /\ Rests(s, "leading", Heartbeat)
  /\ UNCHANGED <<failures, server, cut, gone>>

\* A statement of the attempt did not answer, or found the session ended.
AttemptFails(s) ==
  /\ phase[s] \in {"locking", "leasing"}
  /\ timer[s] = 0 \/ (phase[s] = "leasing" /\ Answer(s, "no"))
  /\ Rests(s, "failed", 0)
  /\ UNCHANGED <<failures, server, cut, gone>>

\* A mutated form: the check also waits for the driver to drain its statement.
HeartbeatDrains(s) ==
  /\ phase[s] = "leading" /\ wire[s] = "none" /\ timer[s] = 0
  /\ wire' = [wire EXCEPT ![s] = "sent"]
  /\ timer' = [timer EXCEPT ![s] = 2 * VerifyTimeout]
  /\ UNCHANGED <<phase, failures, server, cut, gone>>

HeartbeatStarts(s) ==
  /\ phase[s] = "leading" /\ wire[s] = "none" /\ timer[s] = 0
  /\ Sends(s, "leading")
  /\ UNCHANGED <<failures, server, cut, gone>>

afterCheckOk(s) ==
  /\ failures' = [failures EXCEPT ![s] = 0]
  /\ Rests(s, "leading", Heartbeat)

afterCheckFailed(s) ==
  /\ failures' = [failures EXCEPT ![s] = @ + 1]
  /\ IF failures[s] + 1 >= FailuresBeforeLost
     THEN Rests(s, "lost", 0)
     ELSE Rests(s, "leading", Heartbeat)

CheckAnswered(s) ==
  /\ phase[s] = "leading"
  /\ \/ Answer(s, "yes") /\ afterCheckOk(s)
     \/ Answer(s, "no") /\ afterCheckFailed(s)
  /\ UNCHANGED <<server, cut, gone>>

\* A late check has failed; its statement is interrupted, and the server ran
\* it just now or never will.
CheckTimedOut(s) ==
  /\ phase[s] = "leading" /\ wire[s] # "none" /\ timer[s] = 0
  /\ afterCheckFailed(s)
  /\ \/ UNCHANGED idle
     \/ wire[s] = "sent" /\ s \in alive \ cut /\ idle' = [idle EXCEPT ![s] = 0]
  /\ UNCHANGED <<holder, alive, lease, cut, gone>>

\* A leader that stops, or the release forked for a lost one: it is no leader
\* from here on, and the unlock is sent.
Release(s) ==
  /\ phase[s] \in {"leading", "lost"}
  /\ Sends(s, "releasing")
  /\ UNCHANGED <<failures, server, cut, gone>>

Released(s) ==
  /\ phase[s] = "releasing"
  /\ timer[s] = 0 \/ Answer(s, "yes") \/ Answer(s, "no")
  /\ Rests(s, "closed", 0)
  /\ UNCHANGED <<failures, server, cut, gone>>

-----------------------------------------------------------------------------
(* The server, the network and time.                                          *)

Freed(s) == IF holder = s THEN Nobody ELSE holder

\* A statement reaches the server: the try-lock, the SET, the check or the
\* unlock. A session that was ended answers with an error.
ServerRuns(s) ==
  /\ s \notin cut /\ wire[s] = "sent"
  /\ IF s \in alive
     THEN /\ holder' = CASE phase[s] = "locking" /\ holder = Nobody -> s
                         [] phase[s] = "releasing" -> Freed(s)
                         [] OTHER -> holder
          /\ lease' = IF phase[s] = "leasing" THEN lease \cup {s} ELSE lease
          /\ idle' = [idle EXCEPT ![s] = 0]
          /\ wire' = [wire EXCEPT ![s] =
                        IF phase[s] = "releasing" \/ holder' = s
                        THEN "yes" ELSE "no"]
     ELSE /\ wire' = [wire EXCEPT ![s] = "no"]
          /\ UNCHANGED <<holder, lease, idle>>
  /\ UNCHANGED <<phase, failures, timer, alive, cut, gone>>

EndsAtServer(s) ==
  /\ alive' = alive \ {s} /\ holder' = Freed(s)
  /\ UNCHANGED <<client, lease, idle, cut, gone>>

\* idle_session_timeout: the server is never late either.
ServerEndsIdle(s) ==
  s \in alive \cap lease /\ idle[s] >= ServerIdle /\ EndsAtServer(s)

\* A connection that was given up is closed, and the server hears of it.
ConnectionCloses(s) ==
  s \in alive \ cut /\ phase[s] \in {"closed", "failed"} /\ EndsAtServer(s)

\* pg_terminate_backend, a restart, a failover.
ServerKills(s) ==
  s \in alive /\ phase[s] # "unused" /\ EndsAtServer(s)

\* A silent partition: nothing passes any more, and neither side is told.
Cut(s) ==
  /\ s \notin cut /\ phase[s] # "unused"
  /\ cut' = cut \cup {s}
  /\ UNCHANGED <<client, server, gone>>

Running(s) == phase[s] \in Waiting \cup {"leading"}
\* gone is counted as far as the properties compare it.
Horizon == ServerIdle + VerifyTimeout + 1

Tick ==
  /\ \A s \in Session : Running(s) => timer[s] > 0
  /\ \A s \in alive \cap lease : idle[s] < ServerIdle
  /\ timer' = [s \in Session |-> IF Running(s) THEN timer[s] - 1 ELSE timer[s]]
  /\ idle' = [s \in Session |->
                IF s \in alive \cap lease THEN idle[s] + 1 ELSE idle[s]]
  /\ gone' = [s \in Session |->
                IF (s \in cut \/ s \notin alive) /\ gone[s] < Horizon
                THEN gone[s] + 1 ELSE gone[s]]
  /\ UNCHANGED <<phase, failures, wire, holder, alive, lease, cut>>

Of(s) ==
  \/ Attempt(s) \/ TakesTheLock(s) \/ TakesTheLease(s) \/ AttemptFails(s)
  \/ HeartbeatStarts(s) \/ CheckAnswered(s) \/ CheckTimedOut(s)
  \/ Release(s) \/ Released(s)
  \/ ServerRuns(s) \/ ServerEndsIdle(s) \/ ConnectionCloses(s)
  \/ ServerKills(s) \/ Cut(s)
Next == Tick \/ \E s \in Session : Of(s)
Spec == Init /\ [][Next]_vars

-----------------------------------------------------------------------------
(* Properties.                                                                *)

isLeader(s) == phase[s] = "leading"

(* A leader whose session was cut off has stopped within the loss detection   *)
(* bound (Leader.ts:55-60), whatever check was in flight; one whose session   *)
(* the server ended, within one answer more: the last good one may still have *)
(* been under way.                                                            *)
StopsInTime ==
  \A s \in Session : isLeader(s) =>
    gone[s] <= lossDetectionBound + (IF s \in alive THEN 0 ELSE VerifyTimeout)

(* Was the session ended for another reason than its silence.                 *)
Killed(s) == s \notin alive /\ ~ (s \in lease /\ idle[s] >= ServerIdle)

(* No two instances lead at the same time: the old leader has stopped before  *)
(* the server frees its lock (ADR-0045, decision 3), unless its session was   *)
(* killed.                                                                    *)
OneLeader ==
  \A s, t \in Session :
    isLeader(s) /\ isLeader(t) /\ ~ Killed(s) /\ ~ Killed(t) => s = t
=============================================================================
