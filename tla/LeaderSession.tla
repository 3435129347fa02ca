--------------------------- MODULE LeaderSession ---------------------------
(* The session a process shares between its leaders                           *)
(* (packages/eventstore/src/Leader.ts, ADR-0046), step by step.               *)
(*                                                                            *)
(* Every module of a process tries for its lock in a loop and holds a handle  *)
(* while it leads. Attempts and releases take turns under one permit; the     *)
(* heartbeat, the fence's checks, the server and the stop of a module do not. *)
(* A connection is identified with the session made on it, one at a time; the *)
(* server grants a lock to a connection, to another process, or to nobody.    *)
EXTENDS FiniteSets, Integers

CONSTANTS Module,       \* the processors' retry loops in this process
          Key, KeyOf,   \* the lock each of them tries for
          MaxConns,     \* bound: the connections the pool can give
          MaxHandles,   \* bound: the leaders (members) that are ever made
          Nobody, AnotherProcess,
          FailuresBeforeLost,
          MaxFaults,    \* bound: connections that fail, or are not given
          MaxTurns,     \* bound: turns of another process at the locks
          MayStop       \* are modules stopped

Conn == 1 .. MaxConns
Handle == 1 .. MaxHandles

ASSUME SessionOptions ==
  /\ KeyOf \in [Module -> Key] /\ MayStop \in BOOLEAN
  /\ FailuresBeforeLost \in Nat \ {0} /\ MaxFaults \in Nat /\ MaxTurns \in Nat
  /\ Nobody \notin Conn \cup Handle /\ AnotherProcess \notin Conn \cup {Nobody}

VARIABLES
  module,   \* [pc, ref]: where the loop is, and its leaderRef
  op,       \* what runs under the permit
  current,  \* Sessions.current
  session,  \* [phase, members, leased, abandoned] of each connection
  handle,   \* [key, conn, status, failures] of each member
  forked,   \* handles with a forked release that waits for the permit
  checks,   \* checks in flight: [by, conn, members, seen, keys]
  link,     \* of each connection: "up", "silent" or "dead"
  late,     \* of each connection: statements nobody waits for any more
  lock,     \* of each key: whom the server granted it to
  used      \* the bounded counters
here == <<module, op, current, session, handle, forked, checks>>
there == <<link, late, lock, used>>
vars == <<here, there>>

Unmade == [key |-> Nobody, conn |-> Nobody, status |-> "none", failures |-> 0]
Unused == [phase |-> "unused", members |-> {}, leased |-> FALSE, abandoned |-> FALSE]
NoOp == [kind |-> "none"]

Attempting == [kind : {"attempt"}, by : Module, pc : {"begin", "reserve", "lock", "lease"},
               conn : Conn \cup {Nobody}, fresh : BOOLEAN, retried : BOOLEAN]
Releasing == [kind : {"release"}, by : Module \cup {Nobody}, conn : Conn, key : Key,
              pc : {"unlock", "close"}]

SessionTypeOK ==
  /\ module \in [Module -> [pc : {"loop", "release", "attempt", "got", "stopping", "stopped"},
                            ref : Handle \cup {Nobody}, got : Handle \cup {Nobody}]]
  /\ op \in Attempting \cup Releasing \cup {NoOp}
  /\ current \in Conn \cup {Nobody}
  /\ session \in [Conn -> [phase : {"unused", "open", "pooled", "retired"}, members : SUBSET Handle,
                           leased : BOOLEAN, abandoned : BOOLEAN]]
  /\ handle \in [Handle -> [key : Key \cup {Nobody}, conn : Conn \cup {Nobody},
                            status : {"none", "leading", "lost", "closed"},
                            failures : 0 .. FailuresBeforeLost]]
  /\ forked \subseteq Handle
  /\ \A c \in checks : /\ c.by \in {"heartbeat", "fence"} /\ c.conn \in Conn
                       /\ c.members \subseteq Handle /\ c.seen \in {"sent", "keys", "none"}
                       /\ c.keys \subseteq Key
  /\ link \in [Conn -> {"up", "silent", "dead"}]
  /\ late \in [Conn -> SUBSET ({"lock", "unlock"} \X Key)]
  /\ lock \in [Key -> Conn \cup {Nobody, AnotherProcess}]
  /\ used \in [faults : 0 .. MaxFaults, turns : 0 .. MaxTurns]

Init ==
  /\ module = [m \in Module |-> [pc |-> "loop", ref |-> Nobody, got |-> Nobody]]
  /\ op = NoOp /\ current = Nobody
  /\ session = [c \in Conn |-> Unused]
  /\ handle = [h \in Handle |-> Unmade]
  /\ forked = {} /\ checks = {}
  /\ link = [c \in Conn |-> "up"] /\ late = [c \in Conn |-> {}]
  /\ lock = [k \in Key |-> Nobody]
  /\ used = [faults |-> 0, turns |-> 0]

isLeader(h) == handle[h].status = "leading"
Leaders(c) == {h \in session[c].members : isLeader(h)}
Goes(m, pc) == module' = [module EXCEPT ![m].pc = pc]

-----------------------------------------------------------------------------
(* leaderRetryLoop: a lost handle is released first, then the lock is tried.  *)

Retries(m) ==
  /\ module[m].pc = "loop"
  /\ module[m].ref # Nobody => ~ isLeader(module[m].ref)
  /\ Goes(m, IF module[m].ref = Nobody THEN "attempt" ELSE "release")
  /\ UNCHANGED <<op, current, session, handle, forked, checks, there>>

\* The attempt has answered a handle; it is put into leaderRef.
SetsRef(m) ==
  /\ module[m].pc = "got"
  /\ module' = [module EXCEPT ![m] = [pc |-> "loop", ref |-> @.got, got |-> Nobody]]
  /\ UNCHANGED <<op, current, session, handle, forked, checks, there>>

-----------------------------------------------------------------------------
(* An attempt, under the permit.                                              *)

TakesPermit(m) ==
  /\ op = NoOp /\ module[m].pc = "attempt"
  /\ op' = [kind |-> "attempt", by |-> m, pc |-> "begin", conn |-> Nobody,
            fresh |-> FALSE, retried |-> FALSE]
  /\ UNCHANGED <<module, current, session, handle, forked, checks, there>>

Trying(pc) == op.kind = "attempt" /\ op.pc = pc

\* The attempt ends with no handle: refused, not acquired, or failed.
EndsEmpty == op' = NoOp /\ Goes(op.by, "loop")

\* A mutated form: the current session, whatever became of its leaders.
AnyLive == current

\* The session to use: one with no leader left is not taken any more.
Live == IF current # Nobody /\ Leaders(current) = {} THEN Nobody ELSE current
\* A mutated form: no guard against a re-entrant lock.
NeverRefused == FALSE

Refused == Live # Nobody /\ \E h \in session[Live].members : handle[h].key = KeyOf[op.by]

Begins ==
  /\ Trying("begin")
  /\ current' = Live
  /\ IF Refused THEN EndsEmpty
     ELSE /\ op' = [op EXCEPT !.pc = IF Live = Nobody THEN "reserve" ELSE "lock", !.conn = Live]
          /\ UNCHANGED module
  /\ UNCHANGED <<session, handle, forked, checks, there>>

\* The first of those there are.
Fresh(x, S) == x \in S /\ \A y \in S : x <= y
InPool == {c \in Conn : session[c].phase \in {"unused", "pooled"} /\ link[c] = "up"}

Reserves ==
  /\ Trying("reserve")
  /\ \E c \in Conn :
       /\ Fresh(c, InPool)
       /\ session' = [session EXCEPT ![c] = [Unused EXCEPT !.phase = "open"]]
       /\ op' = [op EXCEPT !.pc = "lock", !.conn = c, !.fresh = TRUE]
  /\ UNCHANGED <<module, current, handle, forked, checks, there>>

Faults == used.faults < MaxFaults /\ used' = [used EXCEPT !.faults = @ + 1]

\* The pool gave no connection within reserveTimeout.
ReserveTimesOut ==
  /\ Trying("reserve") /\ EndsEmpty /\ Faults
  /\ UNCHANGED <<current, session, handle, forked, checks, link, late, lock>>

\* A mutated form: the lease stays on the connection.
closeLeased(c) ==
  session' = [session EXCEPT ![c].phase = IF link[c] = "up" THEN "pooled" ELSE "retired"]

\* What becomes of a closed connection: one with a statement that failed or
\* never answered is not used again.
closeSession(c) ==
  session' = [session EXCEPT ![c].phase = IF link[c] = "up" THEN "pooled" ELSE "retired",
                             ![c].leased = @ /\ link[c] # "up"]

\* The connection answers, after what was sent on it before.
Answers(c) == link[c] = "up" /\ late[c] = {}
Late(c, what, k) == late' = [late EXCEPT ![c] = @ \cup {<<what, k>>}]

\* The session's leaders are lost, and the release of each is forked.
loseAll(c) ==
  /\ handle' = [h \in Handle |-> IF h \in Leaders(c)
                                 THEN [handle[h] EXCEPT !.status = "lost"] ELSE handle[h]]
  /\ forked' = forked \cup Leaders(c)

\* The lock and, on a fresh session, the lease are there: the member is made.
Leads ==
  \E h \in Handle :
    /\ Fresh(h, {i \in Handle : handle[i].status = "none"})
    /\ handle' = [handle EXCEPT ![h] = [key |-> KeyOf[op.by], conn |-> op.conn,
                                        status |-> "leading", failures |-> 0]]
    /\ session' = [session EXCEPT ![op.conn].members = @ \cup {h},
                                  ![op.conn].leased = @ \/ op.fresh]
    /\ current' = op.conn
    /\ module' = [module EXCEPT ![op.by].pc = "got", ![op.by].got = h]
    /\ op' = NoOp

\* A session-level lock is re-entrant.
Grants(c, k) == lock[k] \in {Nobody, c}

LockAnswered ==
  /\ Trying("lock") /\ Answers(op.conn)
  /\ IF Grants(op.conn, KeyOf[op.by])
     THEN /\ lock' = [lock EXCEPT ![KeyOf[op.by]] = op.conn]
          /\ IF op.fresh
             THEN op' = [op EXCEPT !.pc = "lease"] /\ UNCHANGED <<module, current, session, handle>>
             ELSE Leads
     ELSE /\ EndsEmpty /\ UNCHANGED <<lock, current, handle>>
          /\ IF op.fresh THEN closeSession(op.conn) ELSE UNCHANGED session
  /\ UNCHANGED <<forked, checks, link, late, used>>

LeaseAnswered ==
  /\ Trying("lease") /\ Answers(op.conn)
  /\ Leads
  /\ UNCHANGED <<forked, checks, there>>

\* A statement fails. On a shared session that loses its leaders, and the
\* attempt is made once more, on a new session.
StatementFails ==
  /\ Trying("lock") \/ Trying("lease")
  /\ link[op.conn] = "dead"
  /\ IF op.fresh
     THEN /\ closeSession(op.conn) /\ EndsEmpty
          /\ UNCHANGED <<handle, forked>>
     ELSE /\ loseAll(op.conn)
          /\ IF op.retried THEN EndsEmpty
             ELSE /\ op' = [op EXCEPT !.pc = "begin", !.conn = Nobody, !.retried = TRUE]
                  /\ UNCHANGED module
          /\ UNCHANGED session
  /\ UNCHANGED <<current, checks, there>>

\* No answer within verifyTimeout: the session is abandoned, and the late
\* statement may still take effect.
Abandons ==
  /\ Trying("lock") \/ Trying("lease")
  /\ link[op.conn] = "silent"
  /\ session' = [session EXCEPT ![op.conn].abandoned = TRUE]
  /\ IF op.pc = "lock" THEN Late(op.conn, "lock", KeyOf[op.by]) ELSE UNCHANGED late
  /\ loseAll(op.conn)
  /\ EndsEmpty
  /\ UNCHANGED <<current, checks, link, lock, used>>

\* In the background, the late statement is interrupted and the driver retires
\* the connection.
Retires(c) ==
  /\ session[c].phase = "open" /\ session[c].abandoned
  /\ session' = [session EXCEPT ![c].phase = "retired"]
  /\ UNCHANGED <<module, op, current, handle, forked, checks, there>>

-----------------------------------------------------------------------------
(* A release, under the permit: by its module, or forked when it was lost.    *)

Asks(h, by) == IF by = Nobody THEN h \in forked
               ELSE module[by].ref = h /\ module[by].pc \in {"release", "stopping"}

\* The one who asked goes on.
AfterRelease(by) ==
  IF by = Nobody THEN UNCHANGED module
  ELSE module' = [module EXCEPT ![by].pc = IF @ = "release" THEN "attempt" ELSE "stopped",
                                ![by].ref = Nobody]

\* A closed member is left alone, a closed session too.
Releases(h, by) ==
  /\ op = NoOp /\ Asks(h, by)
  /\ forked' = IF by = Nobody THEN forked \ {h} ELSE forked
  /\ handle' = [handle EXCEPT ![h] = [Unmade EXCEPT !.status = "closed"]]
  /\ LET c == handle[h].conn
         again == handle[h].status = "closed"
     IN /\ session' = IF again THEN session ELSE [session EXCEPT ![c].members = @ \ {h}]
        /\ IF again \/ session[c].abandoned
           THEN UNCHANGED op /\ AfterRelease(by)
           ELSE /\ op' = [kind |-> "release", by |-> by, conn |-> c, key |-> handle[h].key, pc |-> "unlock"]
                /\ UNCHANGED module
  /\ UNCHANGED <<current, checks, there>>

Freed(c) == [k \in Key |-> IF lock[k] = c THEN Nobody ELSE lock[k]]

Unlocked(c, k) == IF lock[k] = c THEN [lock EXCEPT ![k] = Nobody] ELSE lock

\* The unlock is answered, fails, or does not answer: the release goes on.
Unlocks ==
  /\ op.kind = "release" /\ op.pc = "unlock"
  /\ LET c == op.conn
         k == op.key
     IN /\ \/ Answers(c) /\ lock' = Unlocked(c, k) /\ UNCHANGED late
           \/ link[c] = "silent" /\ UNCHANGED lock /\ Late(c, "unlock", k)
           \/ link[c] = "dead" /\ UNCHANGED <<lock, late>>
        /\ IF session[c].members = {}
           THEN op' = [op EXCEPT !.pc = "close"] /\ UNCHANGED module
           ELSE op' = NoOp /\ AfterRelease(op.by)
  /\ UNCHANGED <<current, session, handle, forked, checks, link, used>>

\* The last one gives the session back, without its lease.
Closes ==
  /\ op.kind = "release" /\ op.pc = "close"
  /\ Answers(op.conn) \/ link[op.conn] # "up"
  /\ closeSession(op.conn)
  /\ op' = NoOp /\ AfterRelease(op.by)
  /\ UNCHANGED <<current, handle, forked, checks, there>>

-----------------------------------------------------------------------------
(* Checks: the heartbeat's of every member the session has when it starts,    *)
(* the fence's of its own. (Bound: one fence at a time on a session.)         *)

Checks(c, by, members) ==
  /\ \A q \in checks : ~ (q.by = by /\ q.conn = c)
  /\ checks' = checks \cup {[by |-> by, conn |-> c, members |-> members,
                             seen |-> "sent", keys |-> {}]}
  /\ UNCHANGED <<module, op, current, session, handle, forked, there>>

Heartbeat(c) ==
  session[c].members # {} /\ Checks(c, "heartbeat", session[c].members)

Verify(h) == isLeader(h) /\ Checks(handle[h].conn, "fence", {h})

\* The server answers the keys the session holds, or nothing answers.
ServerAnswers(q) ==
  /\ q.seen = "sent"
  /\ Answers(q.conn) \/ link[q.conn] # "up"
  /\ checks' = (checks \ {q}) \cup
       {IF link[q.conn] = "up"
        THEN [q EXCEPT !.seen = "keys", !.keys = {k \in Key : lock[k] = q.conn}]
        ELSE [q EXCEPT !.seen = "none"]}
  /\ UNCHANGED <<module, op, current, session, handle, forked, there>>

\* A good check resets the count; the last of enough bad ones in a row loses.
afterCheck(state, alive) ==
  IF state.status # "leading" THEN state
  ELSE IF alive THEN [state EXCEPT !.failures = 0]
  ELSE [state EXCEPT !.failures = @ + 1,
                     !.status = IF state.failures + 1 >= FailuresBeforeLost THEN "lost" ELSE @]

\* A mutated form: the members the session has when the answer comes.
MembersByNow(q) == session[q.conn].members

CheckedMembers(q) == q.members

CheckApplies(q) ==
  /\ q.seen # "sent"
  /\ handle' = [h \in Handle |-> IF h \in CheckedMembers(q)
                                 THEN afterCheck(handle[h], handle[h].key \in q.keys)
                                 ELSE handle[h]]
  /\ forked' = forked \cup {h \in CheckedMembers(q) : isLeader(h) /\ handle'[h].status = "lost"}
  /\ checks' = checks \ {q}
  /\ UNCHANGED <<module, op, current, session, there>>

-----------------------------------------------------------------------------
(* The stop of a module: its fibers are interrupted where they are, then its  *)
(* leader is released.                                                        *)

\* An interrupted attempt closes a fresh session, or loses a shared one's
\* leaders; its statement was forked on its own and is not interrupted.
Interrupts(m) ==
  IF op.kind = "attempt" /\ op.by = m
  THEN /\ op' = NoOp
       /\ IF op.pc = "lock" THEN Late(op.conn, "lock", KeyOf[m]) ELSE UNCHANGED late
       /\ IF op.pc \in {"lock", "lease"} /\ op.fresh
          THEN closeSession(op.conn) /\ UNCHANGED <<handle, forked>>
          ELSE /\ UNCHANGED session
               /\ IF op.pc = "lock" THEN loseAll(op.conn) ELSE UNCHANGED <<handle, forked>>
  ELSE /\ op' = IF op.kind = "release" /\ op.by = m THEN NoOp ELSE op
       /\ UNCHANGED <<late, session, handle, forked>>

Stops(m) ==
  /\ MayStop /\ module[m].pc \notin {"stopping", "stopped"}
  /\ Interrupts(m)
  /\ module' = [module EXCEPT ![m].pc = IF module[m].ref = Nobody THEN "stopped" ELSE "stopping",
                              ![m].got = Nobody]
  /\ UNCHANGED <<current, checks, link, lock, used>>

-----------------------------------------------------------------------------
(* The server, the network and the other processes.                           *)

LateRuns(c) ==
  /\ link[c] = "up"
  /\ \E what \in {"lock", "unlock"}, k \in Key :
       /\ <<what, k>> \in late[c]
       /\ lock' = IF what = "unlock" THEN Unlocked(c, k)
                  ELSE IF Grants(c, k) THEN [lock EXCEPT ![k] = c] ELSE lock
       /\ late' = [late EXCEPT ![c] = @ \ {<<what, k>>}]
  /\ UNCHANGED <<here, link, used>>

\* The server ends a session: it was killed, or a silent one was idle too long.
Dies(c) ==
  /\ session[c].phase # "unused" /\ link[c] # "dead"
  /\ IF link[c] = "silent" THEN UNCHANGED used ELSE Faults
  /\ link' = [link EXCEPT ![c] = "dead"]
  /\ lock' = Freed(c) /\ late' = [late EXCEPT ![c] = {}]
  /\ UNCHANGED here

FallsSilent(c) ==
  /\ session[c].phase = "open" /\ link[c] = "up" /\ Faults
  /\ link' = [link EXCEPT ![c] = "silent"]
  /\ UNCHANGED <<here, late, lock>>

\* A stall, no partition: the connection answers again.
Recovers(c) ==
  /\ link[c] = "silent"
  /\ link' = [link EXCEPT ![c] = "up"]
  /\ UNCHANGED <<here, late, lock, used>>

\* The server hears that a connection was retired.
HearsOfEnd(c) ==
  /\ session[c].phase = "retired" /\ link[c] = "up"
  /\ link' = [link EXCEPT ![c] = "dead"]
  /\ lock' = Freed(c) /\ late' = [late EXCEPT ![c] = {}]
  /\ UNCHANGED <<here, used>>

AnotherTakes(k) ==
  /\ lock[k] = Nobody /\ used.turns < MaxTurns
  /\ lock' = [lock EXCEPT ![k] = AnotherProcess]
  /\ used' = [used EXCEPT !.turns = @ + 1]
  /\ UNCHANGED <<here, link, late>>

AnotherGives(k) ==
  /\ lock[k] = AnotherProcess
  /\ lock' = [lock EXCEPT ![k] = Nobody]
  /\ UNCHANGED <<here, link, late, used>>

UnderPermit ==
  \/ Begins \/ Reserves \/ ReserveTimesOut \/ LockAnswered \/ LeaseAnswered \/ StatementFails \/ Abandons
  \/ Unlocks \/ Closes
OfModule(m) == Retries(m) \/ SetsRef(m) \/ TakesPermit(m)
OfHandle(h) == Verify(h) \/ \E by \in Module \cup {Nobody} : Releases(h, by)
OfCheck(q) == ServerAnswers(q) \/ CheckApplies(q)
OfConn(c) == Retires(c) \/ Heartbeat(c) \/ LateRuns(c) \/ HearsOfEnd(c) \/ Dies(c)
             \/ FallsSilent(c) \/ Recovers(c)

Next ==
  \/ UnderPermit
  \/ \E m \in Module : OfModule(m) \/ Stops(m)
  \/ \E h \in Handle : OfHandle(h)
  \/ \E q \in checks : OfCheck(q)
  \/ \E c \in Conn : OfConn(c)
  \/ \E k \in Key : AnotherTakes(k) \/ AnotherGives(k)
Spec == Init /\ [][Next]_vars

\* The fibers run, those that wait for the permit get it in turn, a session
\* with leaders is checked, and what runs by itself on a connection ends.
HeartbeatRuns(c) ==
  Heartbeat(c) \/ \E q \in checks : q.conn = c /\ q.by = "heartbeat" /\ OfCheck(q)
Settles(c) ==
  Retires(c) \/ LateRuns(c) \/ HearsOfEnd(c) \/ (link[c] = "silent" /\ Dies(c))

Fairness ==
  /\ WF_vars(UnderPermit)
  /\ SF_vars(\E h \in Handle, by \in Module \cup {Nobody} : Releases(h, by))
  /\ WF_vars(\E m \in Module : OfModule(m))
  /\ WF_vars(\E c \in Conn : Settles(c))
  /\ \A c \in Conn : WF_vars(HeartbeatRuns(c))
FairSpec == Spec /\ Fairness

-----------------------------------------------------------------------------
(* Properties.                                                                *)

(* Two processors over one client never both lead on one lock, although a     *)
(* session-level lock would be granted to their session twice (ADR-0046,      *)
(* decision 2).                                                               *)
OneLeaderOfAKey ==
  \A h, i \in Handle : isLeader(h) /\ isLeader(i) /\ handle[h].key = handle[i].key => h = i

(* A leader whose connection never failed is never taken for lost: a check    *)
(* that began before it took its lock does not count against it.              *)
LostMeansFailed ==
  \A h \in Handle : handle[h].status = "lost" => used.faults > 0

(* A connection goes back to the pool with no lock, no lease that would end   *)
(* it there, and no leader that counts on it; nor is there one on a session   *)
(* that is closed.                                                            *)
PooledIsClean ==
  /\ SessionTypeOK
  /\ \A h \in Handle : isLeader(h) => session[handle[h].conn].phase = "open"
  /\ \A c \in Conn : session[c].phase = "pooled" =>
       ~ session[c].leased /\ \A k \in Key : lock[k] # c

(* Whatever failed, once nothing fails any more every module leads again and  *)
(* goes on leading, unless another process holds its lock or a module of this *)
(* one was stopped: neither a lost session nor its pending releases keep the  *)
(* permit or the key for good.                                                *)
LedInTheEnd ==
  \A m \in Module :
    []<>(\/ \E h \in Handle : isLeader(h) /\ handle[h].key = KeyOf[m] /\ lock[KeyOf[m]] = handle[h].conn
         \/ lock[KeyOf[m]] = AnotherProcess
         \/ \E n \in Module : module[n].pc \in {"stopping", "stopped"})

(* A module that has stopped leaves its lock to the others.                   *)
StoppedHoldsNothing ==
  (\A m \in Module : module[m].pc = "stopped") /\ op = NoOp /\ forked = {}
    => \A k \in Key : lock[k] \in {Nobody, AnotherProcess}
=============================================================================
