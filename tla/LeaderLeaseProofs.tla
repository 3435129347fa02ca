------------------------- MODULE LeaderLeaseProofs -------------------------
(* When a leader has stopped, and when no second one can start, for every    *)
(* accepted setting of the options.                                           *)
(*                                                                            *)
(* Both arguments count the time a leader has left: Until(s) falls by one     *)
(* with every tick and is set back only by a good check. Every clock of the   *)
(* other side (how long the session is gone, how long the server found it     *)
(* idle) rises by one with the same tick, so their sum with Until(s) stays    *)
(* what it was when the last answer came in.                                  *)
EXTENDS LeaderLease, TLAPS

\* The time k more failed checks take, each after its sleep.
Rounds(k) == k * (Heartbeat + VerifyTimeout)

\* How long s goes on leading if no check succeeds any more.
Until(s) == timer[s] + (IF wire[s] = "none" THEN VerifyTimeout ELSE 0)
            + Rounds(FailuresBeforeLost - failures[s] - 1)

(* The client alone: a timer never exceeds what it was set to. *)
ClientOK(s) ==
  /\ phase[s] = "leading" => failures[s] < FailuresBeforeLost
  /\ phase[s] = "leading" /\ wire[s] = "none" => timer[s] <= Heartbeat
  /\ phase[s] \in {"leading", "leasing", "locking"} /\ wire[s] # "none" => timer[s] <= VerifyTimeout
  /\ phase[s] \in {"locking", "leasing"} => wire[s] # "none"
  /\ phase[s] \in {"unused", "locking", "leasing"} => failures[s] = 0
  /\ phase[s] = "unused" => wire[s] = "none"

\* The sums that make StopsInTime inductive.
StopOK(s) ==
  /\ s \in alive \ cut => gone[s] = 0
  /\ phase[s] = "leading" /\ s \in alive => gone[s] + Until(s) <= Rounds(FailuresBeforeLost)
  /\ phase[s] = "leading" /\ s \notin alive =>
       gone[s] + Until(s) <= Rounds(FailuresBeforeLost) + VerifyTimeout
  /\ phase[s] \in {"leading", "leasing"} /\ wire[s] = "yes" /\ s \notin alive \cup cut =>
       gone[s] + timer[s] <= VerifyTimeout

\* The sums that make OneLeader inductive: a session the leader still counts
\* on is never idle long enough to be ended.
Counted(s) ==
  /\ phase[s] \in {"unused", "locking", "leasing", "leading"} => s \in alive
  /\ phase[s] \in {"unused", "locking"} => s \notin lease
  /\ phase[s] = "locking" /\ wire[s] = "yes" => holder = s
  /\ phase[s] \in {"leasing", "leading"} => holder = s
  /\ phase[s] = "leasing" => wire[s] # "no" /\ (wire[s] = "sent" => s \notin lease)
  /\ phase[s] = "leading" => s \in lease /\ idle[s] + Until(s) <= Rounds(FailuresBeforeLost) + VerifyTimeout
  /\ phase[s] \in {"leading", "leasing"} /\ wire[s] = "yes" =>
       s \in lease /\ idle[s] + timer[s] <= VerifyTimeout

LeaseOK(s) == Killed(s) \/ Counted(s)

ClientInv == LeaseTypeOK /\ \A s \in Session : ClientOK(s)
StopInv == ClientInv /\ \A s \in Session : StopOK(s)
LeaseInv == ClientInv /\ \A s \in Session : LeaseOK(s)

-----------------------------------------------------------------------------
(* Arithmetic. *)

LEMMA RoundsStep ==
  ASSUME NEW k \in Nat
  PROVE  /\ Rounds(k) \in Nat
         /\ Rounds(k + 1) = Rounds(k) + Heartbeat + VerifyTimeout
  BY AcceptedOptions, SMT DEF Rounds

LEMMA Bound == Rounds(FailuresBeforeLost) = lossDetectionBound
  BY DEF Rounds, lossDetectionBound

\* What is left after one more failed check, and with none failed yet.
LEMMA RoundsLeft ==
  ASSUME NEW f \in Nat, f < FailuresBeforeLost
  PROVE  /\ Rounds(FailuresBeforeLost - f - 1) \in Nat
         /\ f + 1 < FailuresBeforeLost =>
              Rounds(FailuresBeforeLost - f - 1)
                = Rounds(FailuresBeforeLost - (f + 1) - 1) + Heartbeat + VerifyTimeout
  <1>1. FailuresBeforeLost - f - 1 \in Nat
    BY AcceptedOptions
  <1>2. Rounds(FailuresBeforeLost - f - 1) \in Nat
    BY <1>1, RoundsStep
  <1>3. ASSUME f + 1 < FailuresBeforeLost
        PROVE  Rounds(FailuresBeforeLost - f - 1)
                = Rounds(FailuresBeforeLost - (f + 1) - 1) + Heartbeat + VerifyTimeout
    <2>1. FailuresBeforeLost - (f + 1) - 1 \in Nat
      BY <1>3, AcceptedOptions
    <2>2. FailuresBeforeLost - f - 1 = (FailuresBeforeLost - (f + 1) - 1) + 1
      BY AcceptedOptions
    <2> QED
      BY ONLY <2>1, <2>2, RoundsStep
  <1> QED
    BY <1>2, <1>3

LEMMA RoundsAtFirst ==
  Rounds(FailuresBeforeLost) = Rounds(FailuresBeforeLost - 0 - 1) + Heartbeat + VerifyTimeout
  <1>1. FailuresBeforeLost - 0 - 1 \in Nat /\ FailuresBeforeLost = (FailuresBeforeLost - 0 - 1) + 1
    BY AcceptedOptions
  <1> QED
    BY ONLY <1>1, RoundsStep

-----------------------------------------------------------------------------
(* One step disturbs one session. *)

Same(s) ==
  /\ phase'[s] = phase[s] /\ failures'[s] = failures[s]
  /\ timer'[s] = timer[s] /\ wire'[s] = wire[s]
  /\ idle'[s] = idle[s] /\ gone'[s] = gone[s]
  /\ (s \in alive') = (s \in alive) /\ (s \in lease') = (s \in lease)
  /\ (s \in cut') = (s \in cut)
  /\ (holder' = s) = (holder = s)

LEMMA Elsewhere ==
  ASSUME LeaseTypeOK, NEW x \in Session, Of(x), NEW s \in Session, s # x
  PROVE  Same(s)
  <1> USE DEF LeaseTypeOK, Same, Sends, Rests, vars, client, server
  <1>1. CASE Attempt(x) BY <1>1 DEF Attempt
  <1>2. CASE TakesTheLock(x) BY <1>2 DEF TakesTheLock
  <1>3. CASE TakesTheLease(x) BY <1>3 DEF TakesTheLease
  <1>4. CASE AttemptFails(x) BY <1>4 DEF AttemptFails
  <1>5. CASE HeartbeatStarts(x) BY <1>5 DEF HeartbeatStarts
  <1>6. CASE CheckAnswered(x) BY <1>6 DEF CheckAnswered, afterCheckOk, afterCheckFailed
  <1>7. CASE CheckTimedOut(x) BY <1>7 DEF CheckTimedOut, afterCheckFailed
  <1>8. CASE Release(x) BY <1>8 DEF Release
  <1>9. CASE Released(x) BY <1>9 DEF Released
  <1>10. CASE ServerRuns(x)
    <2>1. (holder' = s) = (holder = s)
      BY <1>10, AcceptedOptions DEF ServerRuns, Freed
    <2> QED
      BY <1>10, <2>1 DEF ServerRuns
  <1>11. CASE ServerEndsIdle(x) \/ ConnectionCloses(x) \/ ServerKills(x)
    BY <1>11, AcceptedOptions DEF ServerEndsIdle, ConnectionCloses, ServerKills, EndsAtServer, Freed
  <1>12. CASE Cut(x) BY <1>12 DEF Cut
  <1> QED
    BY <1>1, <1>2, <1>3, <1>4, <1>5, <1>6, <1>7, <1>8, <1>9, <1>10, <1>11, <1>12 DEF Of

LEMMA SameKeeps ==
  ASSUME NEW s \in Session, Same(s)
  PROVE  /\ ClientOK(s) => ClientOK(s)'
         /\ StopOK(s) => StopOK(s)'
         /\ LeaseOK(s) => LeaseOK(s)'
  <1>1. ClientOK(s) => ClientOK(s)'
    BY DEF Same, ClientOK
  <1>2. Until(s)' = Until(s)
    BY DEF Same, Until
  <1>3. StopOK(s) => StopOK(s)'
    BY <1>2 DEF Same, StopOK
  <1>4. LeaseOK(s) => LeaseOK(s)'
    BY <1>2 DEF Same, LeaseOK, Counted, Killed
  <1> QED
    BY <1>1, <1>3, <1>4

-----------------------------------------------------------------------------
(* The client's own bookkeeping. *)

LEMMA ClientInit == Init => ClientInv
  BY AcceptedOptions DEF Init, ClientInv, ClientOK, LeaseTypeOK, Phase

LEMMA TypeOfStep ==
  ASSUME ClientInv, NEW x \in Session, Of(x)
  PROVE  LeaseTypeOK'
  <1> USE AcceptedOptions DEF ClientInv, ClientOK, LeaseTypeOK, Phase, Sends, Rests, vars, client, server
  <1>1. CASE Attempt(x) BY <1>1 DEF Attempt
  <1>2. CASE TakesTheLock(x) BY <1>2 DEF TakesTheLock
  <1>3. CASE TakesTheLease(x) BY <1>3 DEF TakesTheLease
  <1>4. CASE AttemptFails(x) BY <1>4 DEF AttemptFails
  <1>5. CASE HeartbeatStarts(x) BY <1>5 DEF HeartbeatStarts
  <1>6. CASE CheckAnswered(x) BY <1>6 DEF CheckAnswered, afterCheckOk, afterCheckFailed
  <1>7. CASE CheckTimedOut(x) BY <1>7 DEF CheckTimedOut, afterCheckFailed
  <1>8. CASE Release(x) BY <1>8 DEF Release
  <1>9. CASE Released(x) BY <1>9 DEF Released
  <1>10. CASE ServerRuns(x)
    <2>1. holder' \in Session \cup {Nobody}
      BY <1>10 DEF ServerRuns, Freed
    <2>2. wire' \in [Session -> {"none", "sent", "yes", "no"}]
      BY <1>10 DEF ServerRuns
    <2> QED
      BY <1>10, <2>1, <2>2 DEF ServerRuns
  <1>11. CASE ServerEndsIdle(x) \/ ConnectionCloses(x) \/ ServerKills(x)
    BY <1>11 DEF ServerEndsIdle, ConnectionCloses, ServerKills, EndsAtServer, Freed
  <1>12. CASE Cut(x) BY <1>12 DEF Cut
  <1> QED
    BY <1>1, <1>2, <1>3, <1>4, <1>5, <1>6, <1>7, <1>8, <1>9, <1>10, <1>11, <1>12 DEF Of

LEMMA TypeOfTick ==
  ASSUME ClientInv, Tick
  PROVE  LeaseTypeOK'
  <1>1. \A s \in Session : Running(s) => timer[s] - 1 \in Nat
    BY DEF ClientInv, LeaseTypeOK, Tick
  <1>2. timer' \in [Session -> Nat]
    BY <1>1 DEF ClientInv, LeaseTypeOK, Tick
  <1> QED
    BY <1>2 DEF ClientInv, LeaseTypeOK, Tick

LEMMA ClientOfStep ==
  ASSUME ClientInv, NEW x \in Session, Of(x)
  PROVE  ClientOK(x)'
  <1> USE AcceptedOptions DEF ClientInv, ClientOK, LeaseTypeOK, Sends, Rests, vars, client, server
  <1>1. CASE Attempt(x) BY <1>1 DEF Attempt
  <1>2. CASE TakesTheLock(x) BY <1>2 DEF TakesTheLock
  <1>3. CASE TakesTheLease(x) BY <1>3 DEF TakesTheLease
  <1>4. CASE AttemptFails(x) BY <1>4 DEF AttemptFails
  <1>5. CASE HeartbeatStarts(x) BY <1>5 DEF HeartbeatStarts
  <1>6. CASE CheckAnswered(x) BY <1>6 DEF CheckAnswered, afterCheckOk, afterCheckFailed
  <1>7. CASE CheckTimedOut(x) BY <1>7 DEF CheckTimedOut, afterCheckFailed
  <1>8. CASE Release(x) BY <1>8 DEF Release
  <1>9. CASE Released(x) BY <1>9 DEF Released
  <1>10. CASE ServerRuns(x)
    <2>1. wire'[x] \in {"yes", "no"}
      BY <1>10 DEF ServerRuns
    <2> QED
      BY <1>10, <2>1 DEF ServerRuns
  <1>11. CASE ServerEndsIdle(x) \/ ConnectionCloses(x) \/ ServerKills(x)
    BY <1>11 DEF ServerEndsIdle, ConnectionCloses, ServerKills, EndsAtServer
  <1>12. CASE Cut(x) BY <1>12 DEF Cut
  <1> QED
    BY <1>1, <1>2, <1>3, <1>4, <1>5, <1>6, <1>7, <1>8, <1>9, <1>10, <1>11, <1>12 DEF Of

LEMMA ClientOfTick ==
  ASSUME ClientInv, Tick, NEW s \in Session
  PROVE  ClientOK(s)'
  BY AcceptedOptions DEF ClientInv, ClientOK, LeaseTypeOK, Tick, Running, Waiting

LEMMA ClientUnchanged ==
  ASSUME ClientInv, UNCHANGED vars
  PROVE  ClientInv' /\ \A s \in Session : Same(s)
  BY DEF ClientInv, ClientOK, LeaseTypeOK, Same, vars, client, server

LEMMA ClientStep == ClientInv /\ [Next]_vars => ClientInv'
  <1> SUFFICES ASSUME ClientInv, [Next]_vars PROVE ClientInv'
    OBVIOUS
  <1>1. CASE Tick
    BY <1>1, TypeOfTick, ClientOfTick DEF ClientInv
  <1>2. ASSUME NEW x \in Session, Of(x) PROVE ClientInv'
    <2>1. LeaseTypeOK'
      BY <1>2, TypeOfStep
    <2>2. ASSUME NEW s \in Session PROVE ClientOK(s)'
      <3>1. CASE s = x
        BY <1>2, <3>1, ClientOfStep
      <3>2. CASE s # x
        BY <1>2, <3>2, Elsewhere, SameKeeps DEF ClientInv
      <3> QED
        BY <3>1, <3>2
    <2> QED
      BY <2>1, <2>2 DEF ClientInv
  <1>3. CASE UNCHANGED vars
    BY <1>3, ClientUnchanged
  <1> QED
    BY <1>1, <1>2, <1>3 DEF Next

-----------------------------------------------------------------------------
(* The time a leader has left, step by step. *)

LEMMA UntilIsNat ==
  ASSUME ClientInv, NEW s \in Session, phase[s] = "leading"
  PROVE  Until(s) \in Nat /\ timer[s] \in Nat
  <1>1. failures[s] \in Nat /\ failures[s] < FailuresBeforeLost /\ timer[s] \in Nat
    BY AcceptedOptions DEF ClientInv, ClientOK, LeaseTypeOK
  <1>2. Rounds(FailuresBeforeLost - failures[s] - 1) \in Nat
    BY <1>1, RoundsLeft
  <1> QED
    BY <1>1, <1>2, AcceptedOptions DEF Until

\* A leader that has just started, or just had a good check, has it all.
LEMMA UntilAtFirst ==
  ASSUME NEW s \in Session, LeaseTypeOK', failures'[s] = 0, wire'[s] = "none", timer'[s] = Heartbeat
  PROVE  Until(s)' = Rounds(FailuresBeforeLost)
  <1>1. Until(s)' = Heartbeat + VerifyTimeout + Rounds(FailuresBeforeLost - 0 - 1)
    BY DEF Until
  <1>2. Rounds(FailuresBeforeLost - 0 - 1) \in Nat
    BY RoundsLeft, AcceptedOptions
  <1> QED
    BY <1>1, <1>2, RoundsAtFirst, AcceptedOptions

\* A failed check that does not end it takes its round.
LEMMA UntilAfterFailure ==
  ASSUME ClientInv, NEW s \in Session, phase[s] = "leading", wire[s] # "none",
         failures'[s] = failures[s] + 1, failures[s] + 1 < FailuresBeforeLost,
         wire'[s] = "none", timer'[s] = Heartbeat
  PROVE  Until(s)' <= Until(s)
  <1>1. failures[s] \in Nat /\ failures[s] < FailuresBeforeLost /\ timer[s] \in Nat
    BY AcceptedOptions DEF ClientInv, ClientOK, LeaseTypeOK
  <1> DEFINE r == Rounds(FailuresBeforeLost - failures[s] - 1)
             q == Rounds(FailuresBeforeLost - (failures[s] + 1) - 1)
  <1>2. r \in Nat /\ r = q + Heartbeat + VerifyTimeout
    BY <1>1, RoundsLeft
  <1>3. q \in Nat
    BY <1>1, RoundsLeft
  <1>4. Until(s) = timer[s] + r
    BY <1>1, <1>2 DEF Until
  <1>5. Until(s)' = Heartbeat + VerifyTimeout + q
    BY DEF Until
  <1> HIDE DEF r, q
  <1> QED
    BY <1>1, <1>2, <1>3, <1>4, <1>5, AcceptedOptions

LEMMA UntilInTick ==
  ASSUME ClientInv, Tick, NEW s \in Session, phase[s] = "leading"
  PROVE  Until(s)' = Until(s) - 1
  <1>1. timer[s] \in Nat /\ timer[s] > 0 /\ timer'[s] = timer[s] - 1
    BY DEF ClientInv, LeaseTypeOK, Tick, Running
  <1>2. wire' = wire /\ failures' = failures
    BY DEF Tick
  <1>3. failures[s] \in Nat /\ failures[s] < FailuresBeforeLost
    BY AcceptedOptions DEF ClientInv, ClientOK, LeaseTypeOK
  <1>4. Rounds(FailuresBeforeLost - failures[s] - 1) \in Nat
    BY <1>3, RoundsLeft
  <1> QED
    BY <1>1, <1>2, <1>4, AcceptedOptions DEF Until

\* In the steps that leave the leader's timer, failures and wait alone.
LEMMA UntilUnchanged ==
  ASSUME NEW s \in Session, timer'[s] = timer[s], failures'[s] = failures[s],
         (wire'[s] = "none") = (wire[s] = "none")
  PROVE  Until(s)' = Until(s)
  BY DEF Until

LEMMA RoundsAreNat == Rounds(FailuresBeforeLost) \in Nat /\ Heartbeat \in Nat /\ VerifyTimeout \in Nat
  BY AcceptedOptions, RoundsStep

-----------------------------------------------------------------------------
(* StopsInTime *)

LEMMA StopOfStep ==
  ASSUME StopInv, LeaseTypeOK', NEW x \in Session, Of(x)
  PROVE  StopOK(x)'
  <1> USE RoundsAreNat DEF Sends, Rests, vars, client, server
  <1>0. /\ LeaseTypeOK /\ StopOK(x) /\ ClientOK(x) /\ ClientInv
        /\ gone[x] \in Nat /\ timer[x] \in Nat /\ gone'[x] = gone[x]
    <2>1. gone' = gone
      BY DEF Of, Attempt, TakesTheLock, TakesTheLease, AttemptFails, HeartbeatStarts, CheckAnswered,
             CheckTimedOut, Release, Released, ServerRuns, ServerEndsIdle, ConnectionCloses,
             ServerKills, EndsAtServer, Cut
    <2> QED
      BY <2>1 DEF StopInv, ClientInv, LeaseTypeOK
  <1>1. CASE Attempt(x) BY <1>0, <1>1 DEF Attempt, StopOK, LeaseTypeOK
  <1>2. CASE TakesTheLock(x) BY <1>0, <1>2 DEF TakesTheLock, StopOK, LeaseTypeOK
  <1>3. CASE TakesTheLease(x)
    <2>1. Until(x)' = Rounds(FailuresBeforeLost)
      <3>1. failures'[x] = 0 /\ wire'[x] = "none" /\ timer'[x] = Heartbeat
        BY <1>0, <1>3 DEF TakesTheLease, LeaseTypeOK, ClientOK
      <3> QED
        BY <3>1, UntilAtFirst
    <2>2. phase[x] = "leasing" /\ wire[x] = "yes" /\ x \notin cut /\ wire'[x] = "none"
          /\ alive' = alive /\ cut' = cut
      BY <1>0, <1>3 DEF TakesTheLease, Answer, LeaseTypeOK
    <2> QED
      BY <1>0, <2>1, <2>2 DEF StopOK
  <1>4. CASE AttemptFails(x) BY <1>0, <1>4 DEF AttemptFails, StopOK, LeaseTypeOK
  <1>5. CASE HeartbeatStarts(x)
    <2>1. Until(x)' = Until(x)
      BY <1>0, <1>5, AcceptedOptions DEF HeartbeatStarts, Until, LeaseTypeOK
    <2> QED
      BY <1>0, <1>5, <2>1 DEF HeartbeatStarts, StopOK, LeaseTypeOK
  <1>6. CASE Answer(x, "yes") /\ phase[x] = "leading" /\ afterCheckOk(x) /\ UNCHANGED <<server, cut, gone>>
    <2>1. Until(x)' = Rounds(FailuresBeforeLost)
      <3>1. failures'[x] = 0 /\ wire'[x] = "none" /\ timer'[x] = Heartbeat
        BY <1>0, <1>6 DEF afterCheckOk, LeaseTypeOK
      <3> QED
        BY <3>1, UntilAtFirst
    <2>2. wire[x] = "yes" /\ x \notin cut /\ wire'[x] = "none" /\ alive' = alive /\ cut' = cut
      BY <1>0, <1>6 DEF afterCheckOk, Answer, LeaseTypeOK
    <2> QED
      BY <1>0, <1>6, <2>1, <2>2 DEF StopOK
  <1>7. CASE phase[x] = "leading" /\ wire[x] # "none" /\ afterCheckFailed(x)
             /\ UNCHANGED <<alive, cut, gone>>
    <2>1. CASE failures[x] + 1 >= FailuresBeforeLost
      BY <1>0, <1>7, <2>1 DEF afterCheckFailed, StopOK, LeaseTypeOK
    <2>2. CASE ~ (failures[x] + 1 >= FailuresBeforeLost)
      <3>1. /\ phase'[x] = "leading" /\ wire'[x] = "none" /\ timer'[x] = Heartbeat
            /\ failures'[x] = failures[x] + 1 /\ failures[x] + 1 < FailuresBeforeLost
        BY <1>0, <1>7, <2>2, AcceptedOptions DEF afterCheckFailed, LeaseTypeOK
      <3>2. Until(x)' <= Until(x)
        BY <1>0, <1>7, <3>1, UntilAfterFailure
      <3>3. Until(x) \in Nat /\ Until(x)' \in Nat
        <4>1. Rounds(FailuresBeforeLost - failures'[x] - 1) \in Nat
          BY <1>0, <3>1, RoundsLeft, AcceptedOptions DEF LeaseTypeOK
        <4> QED
          BY <1>0, <1>7, <3>1, <4>1, UntilIsNat DEF Until
      <3> QED
        BY <1>0, <1>7, <3>1, <3>2, <3>3 DEF StopOK
    <2> QED
      BY <2>1, <2>2
  <1>8. CASE Release(x) BY <1>0, <1>8 DEF Release, StopOK, LeaseTypeOK
  <1>9. CASE Released(x) BY <1>0, <1>9 DEF Released, StopOK, LeaseTypeOK
  <1>10. CASE ServerRuns(x)
    <2>1. /\ wire[x] = "sent" /\ wire'[x] \in {"yes", "no"}
          /\ x \notin alive => wire'[x] = "no"
          /\ phase' = phase /\ timer' = timer /\ failures' = failures /\ alive' = alive /\ cut' = cut
      BY <1>0, <1>10 DEF ServerRuns, LeaseTypeOK
    <2>2. Until(x)' = Until(x)
      BY <2>1, UntilUnchanged
    <2> QED
      BY <1>0, <2>1, <2>2 DEF StopOK
  <1>11. CASE ServerEndsIdle(x) \/ ConnectionCloses(x) \/ ServerKills(x)
    <2>1. /\ x \in alive /\ x \notin alive' /\ cut' = cut
          /\ phase' = phase /\ timer' = timer /\ failures' = failures /\ wire' = wire
      BY <1>11 DEF ServerEndsIdle, ConnectionCloses, ServerKills, EndsAtServer
    <2>2. Until(x)' = Until(x)
      BY <2>1, UntilUnchanged
    <2>3. phase[x] = "leading" => Until(x) \in Nat
      BY <1>0, UntilIsNat
    <2> QED
      BY <1>0, <2>1, <2>2, <2>3 DEF StopOK, ClientOK
  <1>12. CASE Cut(x)
    <2>1. /\ cut' = cut \cup {x} /\ alive' = alive
          /\ phase' = phase /\ timer' = timer /\ failures' = failures /\ wire' = wire
      BY <1>12 DEF Cut
    <2>2. Until(x)' = Until(x)
      BY <2>1, UntilUnchanged
    <2> QED
      BY <1>0, <2>1, <2>2 DEF StopOK
  <1> QED
    BY <1>1, <1>2, <1>3, <1>4, <1>5, <1>6, <1>7, <1>8, <1>9, <1>10, <1>11, <1>12
    DEF Of, CheckAnswered, CheckTimedOut, Answer

LEMMA StopOfTick ==
  ASSUME StopInv, Tick, NEW s \in Session
  PROVE  StopOK(s)'
  <1>1. ClientInv /\ LeaseTypeOK /\ StopOK(s) /\ ClientOK(s)
    BY DEF StopInv, ClientInv
  <1>2. /\ phase' = phase /\ wire' = wire /\ alive' = alive /\ cut' = cut
        /\ gone[s] \in Nat /\ gone'[s] \in Nat /\ gone'[s] <= gone[s] + 1
        /\ s \in alive \ cut => gone'[s] = gone[s]
    BY <1>1 DEF Tick, LeaseTypeOK
  <1>3. CASE phase[s] = "leading"
    <2>1. Until(s)' = Until(s) - 1 /\ Until(s) \in Nat
      BY <1>1, <1>3, UntilInTick, UntilIsNat
    <2>2. timer[s] \in Nat /\ timer'[s] = timer[s] - 1
      BY <1>1, <1>3 DEF Tick, Running, LeaseTypeOK
    <2> QED
      BY <1>1, <1>2, <1>3, <2>1, <2>2, RoundsAreNat DEF StopOK
  <1>4. CASE phase[s] # "leading"
    <2>1. phase[s] = "leasing" => timer[s] \in Nat /\ timer'[s] = timer[s] - 1
      BY <1>1 DEF Tick, Running, Waiting, LeaseTypeOK
    <2> QED
      BY <1>1, <1>2, <1>4, <2>1, RoundsAreNat DEF StopOK
  <1> QED
    BY <1>3, <1>4

LEMMA StopStep == StopInv /\ [Next]_vars => StopInv'
  <1> SUFFICES ASSUME StopInv, [Next]_vars PROVE StopInv'
    OBVIOUS
  <1>0. ClientInv /\ ClientInv' /\ LeaseTypeOK /\ LeaseTypeOK'
    BY ClientStep DEF StopInv, ClientInv
  <1>1. ASSUME NEW s \in Session PROVE StopOK(s)'
    <2>1. CASE Tick
      BY <2>1, StopOfTick
    <2>2. ASSUME NEW x \in Session, Of(x) PROVE StopOK(s)'
      <3>1. CASE s = x
        BY <1>0, <2>2, <3>1, StopOfStep
      <3>2. CASE s # x
        BY <1>0, <2>2, <3>2, Elsewhere, SameKeeps DEF StopInv
      <3> QED
        BY <3>1, <3>2
    <2>3. CASE UNCHANGED vars
      BY <1>0, <2>3, ClientUnchanged, SameKeeps DEF StopInv
    <2> QED
      BY <2>1, <2>2, <2>3 DEF Next
  <1> QED
    BY <1>0, <1>1 DEF StopInv

(* A leader whose session was cut off or ended has stopped within            *)
(* failuresBeforeLost * (heartbeat + verifyTimeout), or one answer later:     *)
(* whatever the options are, and however the answers are delayed.             *)
THEOREM LeadersStopInTime == Spec => []StopsInTime
  <1>1. Init => StopInv
    BY ClientInit DEF Init, StopInv, StopOK
  <1>2. StopInv /\ [Next]_vars => StopInv'
    BY StopStep
  <1>3. StopInv => StopsInTime
    <2> SUFFICES ASSUME StopInv, NEW s \in Session, isLeader(s)
                 PROVE  gone[s] <= lossDetectionBound + (IF s \in alive THEN 0 ELSE VerifyTimeout)
      BY DEF StopsInTime
    <2>1. Until(s) \in Nat /\ gone[s] \in Nat /\ StopOK(s) /\ phase[s] = "leading"
      BY UntilIsNat DEF StopInv, ClientInv, LeaseTypeOK, isLeader
    <2> QED
      BY <2>1, Bound, RoundsAreNat DEF StopOK
  <1> QED
    BY <1>1, <1>2, <1>3, PTL DEF Spec

(* The variables have their types: no timer is ever run past zero, and no     *)
(* leader counts more failures than make it lost.                             *)
THEOREM LeaseTypeCorrect == Spec => []LeaseTypeOK
  <1>1. ClientInv => LeaseTypeOK
    BY DEF ClientInv
  <1> QED
    BY <1>1, ClientInit, ClientStep, PTL DEF Spec

-----------------------------------------------------------------------------
(* OneLeader *)

\* The rule that keeps two leaders apart: the last answer the leader counts
\* from may have been under way for VerifyTimeout.
Margin == ServerIdle > lossDetectionBound + VerifyTimeout

LEMMA CountedOfStep ==
  ASSUME Margin, LeaseInv, LeaseTypeOK', NEW x \in Session, Of(x), ~ Killed(x), ~ Killed(x)'
  PROVE  Counted(x)'
  <1> USE RoundsAreNat DEF Sends, Rests, vars, client, server
  <1>0. /\ LeaseTypeOK /\ Counted(x) /\ ClientOK(x) /\ ClientInv
        /\ idle[x] \in Nat /\ timer[x] \in Nat /\ x # Nobody
    BY AcceptedOptions DEF LeaseInv, LeaseOK, ClientInv, LeaseTypeOK
  <1>1. CASE Attempt(x) BY <1>0, <1>1 DEF Attempt, Counted, LeaseTypeOK
  <1>2. CASE TakesTheLock(x) BY <1>0, <1>2 DEF TakesTheLock, Answer, Counted, LeaseTypeOK
  <1>3. CASE TakesTheLease(x)
    <2>1. Until(x)' = Rounds(FailuresBeforeLost)
      <3>1. failures'[x] = 0 /\ wire'[x] = "none" /\ timer'[x] = Heartbeat
        BY <1>0, <1>3 DEF TakesTheLease, LeaseTypeOK, ClientOK
      <3> QED
        BY <3>1, UntilAtFirst
    <2>2. /\ phase[x] = "leasing" /\ wire[x] = "yes" /\ wire'[x] = "none" /\ phase'[x] = "leading"
          /\ alive' = alive /\ lease' = lease /\ idle' = idle /\ holder' = holder
      BY <1>0, <1>3 DEF TakesTheLease, Answer, LeaseTypeOK
    <2> QED
      BY <1>0, <2>1, <2>2 DEF Counted
  <1>4. CASE AttemptFails(x) BY <1>0, <1>4 DEF AttemptFails, Counted, LeaseTypeOK
  <1>5. CASE HeartbeatStarts(x)
    <2>1. Until(x)' = Until(x)
      BY <1>0, <1>5, AcceptedOptions DEF HeartbeatStarts, Until, LeaseTypeOK
    <2> QED
      BY <1>0, <1>5, <2>1 DEF HeartbeatStarts, Counted, LeaseTypeOK
  <1>6. CASE Answer(x, "yes") /\ phase[x] = "leading" /\ afterCheckOk(x) /\ UNCHANGED <<server, cut, gone>>
    <2>1. Until(x)' = Rounds(FailuresBeforeLost)
      <3>1. failures'[x] = 0 /\ wire'[x] = "none" /\ timer'[x] = Heartbeat
        BY <1>0, <1>6 DEF afterCheckOk, LeaseTypeOK
      <3> QED
        BY <3>1, UntilAtFirst
    <2>2. /\ wire[x] = "yes" /\ wire'[x] = "none" /\ phase'[x] = "leading"
          /\ alive' = alive /\ lease' = lease /\ idle' = idle /\ holder' = holder
      BY <1>0, <1>6 DEF afterCheckOk, Answer, LeaseTypeOK
    <2> QED
      BY <1>0, <1>6, <2>1, <2>2 DEF Counted
  <1>7. CASE /\ phase[x] = "leading" /\ wire[x] # "none" /\ afterCheckFailed(x)
             /\ idle'[x] \in {idle[x], 0} /\ UNCHANGED <<holder, alive, lease>>
    <2>1. CASE failures[x] + 1 >= FailuresBeforeLost
      BY <1>0, <1>7, <2>1 DEF afterCheckFailed, Counted, LeaseTypeOK
    <2>2. CASE ~ (failures[x] + 1 >= FailuresBeforeLost)
      <3>1. /\ phase'[x] = "leading" /\ wire'[x] = "none" /\ timer'[x] = Heartbeat
            /\ failures'[x] = failures[x] + 1 /\ failures[x] + 1 < FailuresBeforeLost
        BY <1>0, <1>7, <2>2, AcceptedOptions DEF afterCheckFailed, LeaseTypeOK
      <3>2. Until(x)' <= Until(x)
        BY <1>0, <1>7, <3>1, UntilAfterFailure
      <3>3. Until(x) \in Nat /\ Until(x)' \in Nat
        <4>1. Rounds(FailuresBeforeLost - failures'[x] - 1) \in Nat
          BY <1>0, <3>1, RoundsLeft, AcceptedOptions DEF LeaseTypeOK
        <4> QED
          BY <1>0, <1>7, <3>1, <4>1, UntilIsNat DEF Until
      <3> QED
        BY <1>0, <1>7, <3>1, <3>2, <3>3 DEF Counted
    <2> QED
      BY <2>1, <2>2
  <1>8. CASE Release(x) BY <1>0, <1>8 DEF Release, Counted, LeaseTypeOK
  <1>9. CASE Released(x) BY <1>0, <1>9 DEF Released, Counted, LeaseTypeOK
  <1>10. CASE ServerRuns(x)
    <2>1. /\ wire[x] = "sent" /\ phase' = phase /\ timer' = timer /\ failures' = failures /\ alive' = alive
      BY <1>0, <1>10 DEF ServerRuns, LeaseTypeOK
    <2>2. ASSUME phase[x] \in {"locking", "leasing", "leading"}
          PROVE  /\ x \in alive /\ idle'[x] = 0
                 /\ lease' = IF phase[x] = "leasing" THEN lease \cup {x} ELSE lease
                 /\ holder' = IF phase[x] = "locking" /\ holder = Nobody THEN x ELSE holder
                 /\ wire'[x] = IF holder' = x THEN "yes" ELSE "no"
      <3>1. x \in alive
        BY <1>0, <2>2 DEF Counted
      <3>2. holder' = IF phase[x] = "locking" /\ holder = Nobody THEN x ELSE holder
        BY <1>0, <1>10, <2>2, <3>1 DEF ServerRuns
      <3> QED
        BY <1>0, <1>10, <2>2, <3>1, <3>2 DEF ServerRuns, LeaseTypeOK
    <2>3. Until(x)' = Until(x)
      <3>1. wire'[x] \in {"yes", "no"}
        BY <1>0, <1>10 DEF ServerRuns, LeaseTypeOK
      <3> QED
        BY <2>1, <3>1, UntilUnchanged
    <2>4. CASE phase[x] = "leading"
      <3>1. Until(x) \in Nat
        BY <1>0, <2>4, UntilIsNat
      <3>2. Until(x) <= Rounds(FailuresBeforeLost) + VerifyTimeout
        BY <1>0, <2>4, <3>1 DEF Counted
      <3>3. timer[x] <= VerifyTimeout
        BY <1>0, <2>1, <2>4 DEF ClientOK
      <3> QED
        BY <1>0, <2>1, <2>2, <2>3, <2>4, <3>1, <3>2, <3>3 DEF Counted
    <2>5. CASE phase[x] \in {"locking", "leasing"}
      <3>1. timer[x] <= VerifyTimeout
        BY <1>0, <2>1, <2>5 DEF ClientOK
      <3> QED
        BY <1>0, <2>1, <2>2, <2>5, <3>1 DEF Counted
    <2>6. CASE phase[x] \notin {"locking", "leasing", "leading"}
      BY <1>0, <2>1, <2>6 DEF Counted, ClientOK
    <2> QED
      BY <2>4, <2>5, <2>6
  <1>11. CASE ServerEndsIdle(x) \/ ConnectionCloses(x) \/ ServerKills(x)
    <2>1. /\ phase' = phase /\ wire' = wire /\ lease' = lease
          /\ phase[x] \in {"closed", "failed"} \/ (x \in lease /\ idle[x] >= ServerIdle)
      BY <1>11 DEF ServerEndsIdle, ConnectionCloses, ServerKills, EndsAtServer, Killed
    <2>2. ASSUME phase[x] = "leading" PROVE idle[x] < ServerIdle
      <3>1. Until(x) \in Nat
        BY <1>0, <2>2, UntilIsNat
      <3> QED
        BY <1>0, <2>2, <3>1, Bound, AcceptedOptions DEF Counted, Margin
    <2>3. ASSUME phase[x] = "leasing", x \in lease PROVE idle[x] < ServerIdle
      <3>1. CASE wire[x] = "yes"
        BY <1>0, <2>3, <3>1, Bound, AcceptedOptions DEF Counted, Margin
      <3> QED
        BY <1>0, <2>3, <3>1 DEF Counted, ClientOK, LeaseTypeOK
    <2>4. phase[x] \notin {"unused", "locking", "leasing", "leading"}
      BY <1>0, <2>1, <2>2, <2>3, AcceptedOptions DEF Counted
    <2> QED
      BY <2>1, <2>4 DEF Counted
  <1>12. CASE Cut(x)
    <2>1. /\ phase' = phase /\ wire' = wire /\ timer' = timer /\ failures' = failures
          /\ alive' = alive /\ lease' = lease /\ holder' = holder /\ idle' = idle
      BY <1>12 DEF Cut
    <2>2. Until(x)' = Until(x)
      BY <2>1, UntilUnchanged
    <2> QED
      BY <1>0, <2>1, <2>2 DEF Counted
  <1> QED
    BY <1>0, <1>1, <1>2, <1>3, <1>4, <1>5, <1>6, <1>7, <1>8, <1>9, <1>10, <1>11, <1>12
    DEF Of, CheckAnswered, CheckTimedOut, Answer, LeaseTypeOK

\* A session that was killed stays so.
LEMMA KilledStays ==
  ASSUME LeaseTypeOK, NEW x \in Session, Of(x), Killed(x)
  PROVE  Killed(x)'
  <1>1. x \notin alive /\ alive' \subseteq alive
    BY DEF Killed, Of, Attempt, TakesTheLock, TakesTheLease, AttemptFails, HeartbeatStarts, CheckAnswered,
           CheckTimedOut, Release, Released, ServerRuns, ServerEndsIdle, ConnectionCloses,
           ServerKills, EndsAtServer, Cut, Sends, Rests, vars, client, server
  <1>2. lease' = lease /\ idle' = idle
    BY <1>1 DEF Of, Attempt, TakesTheLock, TakesTheLease, AttemptFails, HeartbeatStarts, CheckAnswered,
           CheckTimedOut, Release, Released, ServerRuns, ServerEndsIdle, ConnectionCloses,
           ServerKills, EndsAtServer, Cut, Sends, Rests, vars, client, server
  <1> QED
    BY <1>1, <1>2 DEF Killed

LEMMA LeaseOfStep ==
  ASSUME Margin, LeaseInv, LeaseTypeOK', NEW x \in Session, Of(x)
  PROVE  LeaseOK(x)'
  BY CountedOfStep, KilledStays DEF LeaseOK, LeaseInv, ClientInv

LEMMA LeaseOfTick ==
  ASSUME LeaseInv, LeaseTypeOK', Tick, NEW s \in Session
  PROVE  LeaseOK(s)'
  <1>1. ClientInv /\ LeaseTypeOK /\ LeaseOK(s) /\ ClientOK(s)
    BY DEF LeaseInv, ClientInv
  <1>2. /\ phase' = phase /\ wire' = wire /\ alive' = alive /\ lease' = lease /\ holder' = holder
        /\ idle[s] \in Nat /\ idle'[s] \in Nat /\ idle'[s] <= idle[s] + 1
    BY <1>1 DEF Tick, LeaseTypeOK
  <1>3. phase[s] = "leading" => Until(s)' = Until(s) - 1 /\ Until(s) \in Nat
    BY <1>1, UntilInTick, UntilIsNat
  <1>4. phase[s] \in {"leading", "leasing"} => timer[s] \in Nat /\ timer'[s] = timer[s] - 1
    BY <1>1 DEF Tick, Running, Waiting, LeaseTypeOK
  <1>5. CASE Killed(s)
    <2>1. s \notin alive
      BY <1>5 DEF Killed
    <2>2. idle'[s] = idle[s]
      BY <1>1, <2>1 DEF Tick, LeaseTypeOK
    <2> QED
      BY <1>2, <1>5, <2>2 DEF Killed, LeaseOK
  <1>6. CASE Counted(s)
    BY <1>1, <1>2, <1>3, <1>4, <1>6, RoundsAreNat DEF LeaseOK, Counted
  <1> QED
    BY <1>1, <1>5, <1>6 DEF LeaseOK

LEMMA LeaseStep ==
  ASSUME Margin, LeaseInv, [Next]_vars
  PROVE  LeaseInv'
  <1>0. ClientInv /\ ClientInv' /\ LeaseTypeOK /\ LeaseTypeOK'
    BY ClientStep DEF LeaseInv, ClientInv
  <1>1. ASSUME NEW s \in Session PROVE LeaseOK(s)'
    <2>1. CASE Tick
      BY <1>0, <2>1, LeaseOfTick
    <2>2. ASSUME NEW x \in Session, Of(x) PROVE LeaseOK(s)'
      <3>1. CASE s = x
        BY <1>0, <2>2, <3>1, LeaseOfStep
      <3>2. CASE s # x
        BY <1>0, <2>2, <3>2, Elsewhere, SameKeeps DEF LeaseInv
      <3> QED
        BY <3>1, <3>2
    <2>3. CASE UNCHANGED vars
      BY <1>0, <2>3, ClientUnchanged, SameKeeps DEF LeaseInv
    <2> QED
      BY <2>1, <2>2, <2>3 DEF Next
  <1> QED
    BY <1>0, <1>1 DEF LeaseInv

(* With a margin of one more verifyTimeout over the rule the code checks,     *)
(* no two instances whose sessions were not killed ever lead at the same      *)
(* time, however the answers are delayed and whenever the network goes        *)
(* silent.                                                                    *)
THEOREM OneLeaderWithMargin ==
  ASSUME Margin
  PROVE  Spec => []OneLeader
  <1>1. Init => LeaseInv
    BY ClientInit DEF Init, LeaseInv, LeaseOK, Counted
  <1>2. LeaseInv /\ [Next]_vars => LeaseInv'
    BY LeaseStep
  <1>3. LeaseInv => OneLeader
    BY DEF LeaseInv, LeaseOK, Counted, OneLeader, isLeader
  <1> QED
    BY <1>1, <1>2, <1>3, PTL DEF Spec
=============================================================================
