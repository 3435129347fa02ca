------------------------ MODULE LeaderSessionProofs ------------------------
(* The session a process shares between its leaders, for every set of modules *)
(* and keys, and every bound on connections, handles, faults and turns.       *)
EXTENDS LeaderSession, TLAPS

ModuleRecord == [pc : {"loop", "release", "attempt", "got", "stopping", "stopped"},
                 ref : Handle \cup {Nobody}, got : Handle \cup {Nobody}]
SessionRecord == [phase : {"unused", "open", "pooled", "retired"}, members : SUBSET Handle,
                  leased : BOOLEAN, abandoned : BOOLEAN]
HandleRecord == [key : Key \cup {Nobody}, conn : Conn \cup {Nobody},
                 status : {"none", "leading", "lost", "closed"},
                 failures : 0 .. FailuresBeforeLost]
IsCheck(q) == /\ q.by \in {"heartbeat", "fence"} /\ q.conn \in Conn
              /\ q.members \subseteq Handle /\ q.seen \in {"sent", "keys", "none"}
              /\ q.keys \subseteq Key

(* The type invariant in two halves: what the process holds, and the rest.    *)
HereOK == /\ module \in [Module -> ModuleRecord]
          /\ op \in Attempting \cup Releasing \cup {NoOp}
          /\ current \in Conn \cup {Nobody}
          /\ session \in [Conn -> SessionRecord]
          /\ handle \in [Handle -> HandleRecord]
          /\ forked \subseteq Handle
          /\ \A q \in checks : IsCheck(q)
ThereOK == /\ link \in [Conn -> {"up", "silent", "dead"}]
           /\ late \in [Conn -> SUBSET ({"lock", "unlock"} \X Key)]
           /\ lock \in [Key -> Conn \cup {Nobody, AnotherProcess}]
           /\ used \in [faults : 0 .. MaxFaults, turns : 0 .. MaxTurns]

LEMMA TypeHalves == SessionTypeOK <=> HereOK /\ ThereOK
BY DEF SessionTypeOK, HereOK, ThereOK, ModuleRecord, SessionRecord, HandleRecord, IsCheck

-----------------------------------------------------------------------------
(* The invariant.                                                             *)

(* A member that is not released: made on the connection it is a member of.   *)
IsMember(h) == handle[h].status \in {"leading", "lost"}

MadeInv ==
  /\ \A m \in Module : \A h \in {module[m].ref, module[m].got} \ {Nobody} : handle[h].status # "none"
  /\ \A h \in forked : handle[h].status # "none"
  /\ \A h \in Handle : IsMember(h) => /\ handle[h].conn \in Conn /\ handle[h].key \in Key
                                      /\ h \in session[handle[h].conn].members
  /\ \A h \in Handle : isLeader(h) => handle[h].failures < FailuresBeforeLost
  /\ \A c \in Conn : \A h \in session[c].members : IsMember(h) /\ handle[h].conn = c
  /\ \A q \in checks : \A h \in q.members : /\ handle[h].status # "none"
                                            /\ IsMember(h) => handle[h].conn = q.conn

(* In use: open, and not given up on.                                         *)
InUse(c) == session[c].phase = "open" /\ ~ session[c].abandoned

(* The leaders are members of the current session, one for each key; a        *)
(* session with members is open, or was given up on.                          *)
HomeInv ==
  /\ \A h \in Handle : isLeader(h) => handle[h].conn = current /\ InUse(current)
  /\ \A c \in Conn : \A h, i \in session[c].members : handle[h].key = handle[i].key => h = i
  /\ \A c \in Conn : session[c].members # {} =>
       session[c].phase = "open" \/ (session[c].phase = "retired" /\ session[c].abandoned)

(* What is under way under the permit, and what it can count on.              *)
PermitInv ==
  /\ op.kind = "attempt" =>
       /\ op.pc = "begin" => ~ op.fresh
       /\ op.pc = "reserve" => current = Nobody /\ ~ op.fresh
       /\ op.pc \in {"lock", "lease"} => op.conn \in Conn /\ InUse(op.conn)
       /\ op.pc \in {"lock", "lease"} /\ op.fresh => current = Nobody /\ session[op.conn].members = {}
       /\ op.pc = "lease" => op.fresh
       /\ op.pc = "lock" /\ ~ op.fresh =>
            op.conn = current /\ \A h \in session[current].members : handle[h].key # KeyOf[op.by]
  /\ op.kind = "release" =>
       /\ InUse(op.conn)
       /\ op.pc = "unlock" => \A h \in session[op.conn].members : handle[h].key # op.key
       /\ op.pc = "close" => session[op.conn].members = {}

SharedInv == SessionTypeOK /\ MadeInv /\ HomeInv /\ PermitInv

-----------------------------------------------------------------------------
(* The steps, by what they change.                                            *)

LEMMA OpKinds ==
  ASSUME HereOK
  PROVE  /\ op.kind = "attempt" => op \in Attempting
         /\ op.kind = "release" => op \in Releasing
         /\ op = NoOp => op.kind = "none"
BY DEF HereOK, Attempting, Releasing, NoOp

(* A closed connection keeps its members; given back, it has no lease.        *)
LEMMA CloseEffect ==
  ASSUME HereOK, NEW c \in Conn, closeSession(c)
  PROVE  /\ session' \in [Conn -> SessionRecord]
         /\ \A d \in Conn : /\ session'[d].members = session[d].members
                            /\ session'[d].abandoned = session[d].abandoned
                            /\ d # c => session'[d] = session[d]
         /\ session'[c].phase = IF link[c] = "up" THEN "pooled" ELSE "retired"
         /\ link[c] = "up" => ~ session'[c].leased
<1>1. session[c] \in SessionRecord /\ session \in [Conn -> SessionRecord]
  BY DEF HereOK
<1> DEFINE n == [session[c] EXCEPT !.phase = IF link[c] = "up" THEN "pooled" ELSE "retired",
                                   !.leased = @ /\ link[c] # "up"]
<1>2. session' = [session EXCEPT ![c] = n]
  BY <1>1 DEF closeSession
<1>3. /\ n \in SessionRecord /\ n.members = session[c].members /\ n.abandoned = session[c].abandoned
      /\ n.phase = IF link[c] = "up" THEN "pooled" ELSE "retired"
      /\ link[c] = "up" => ~ n.leased
  BY <1>1 DEF SessionRecord
<1> HIDE DEF n
<1> QED
  BY <1>1, <1>2, <1>3

(* Lost leaders stay members, and their releases are asked for.               *)
LEMMA LoseEffect ==
  ASSUME HereOK, NEW c \in Conn, loseAll(c)
  PROVE  /\ handle' \in [Handle -> HandleRecord]
         /\ \A h \in Handle : /\ handle'[h].key = handle[h].key /\ handle'[h].conn = handle[h].conn
                              /\ handle'[h].failures = handle[h].failures
                              /\ handle'[h].status = IF h \in Leaders(c) THEN "lost" ELSE handle[h].status
         /\ forked' = forked \cup Leaders(c)
         /\ \A h \in Leaders(c) : h \in Handle /\ isLeader(h)
<1>1. handle \in [Handle -> HandleRecord] /\ session[c].members \subseteq Handle
  BY DEF HereOK, SessionRecord
<1> QED
  BY <1>1 DEF loseAll, Leaders, HandleRecord

(* A new leader, on the session of the attempt.                               *)
LEMMA LeadsEffect ==
  ASSUME HereOK, op.kind = "attempt", op.conn \in Conn, Leads
  PROVE  \E h \in Handle :
           /\ handle[h].status = "none"
           /\ handle' \in [Handle -> HandleRecord]
           /\ \A i \in Handle : i # h => handle'[i] = handle[i]
           /\ handle'[h].key = KeyOf[op.by] /\ KeyOf[op.by] \in Key /\ handle'[h].conn = op.conn
           /\ handle'[h].status = "leading" /\ handle'[h].failures = 0
           /\ session' \in [Conn -> SessionRecord]
           /\ \A c \in Conn : /\ session'[c].phase = session[c].phase
                              /\ session'[c].abandoned = session[c].abandoned
                              /\ session'[c].members = IF c = op.conn THEN session[c].members \cup {h}
                                                       ELSE session[c].members
           /\ current' = op.conn /\ op' = NoOp
           /\ module' \in [Module -> ModuleRecord]
           /\ \A m \in Module : /\ module'[m].ref = module[m].ref
                                /\ module'[m].got \in {module[m].got, h}
<1>1. PICK h \in Handle :
        /\ Fresh(h, {i \in Handle : handle[i].status = "none"})
        /\ handle' = [handle EXCEPT ![h] = [key |-> KeyOf[op.by], conn |-> op.conn,
                                            status |-> "leading", failures |-> 0]]
        /\ session' = [session EXCEPT ![op.conn].members = @ \cup {h},
                                      ![op.conn].leased = @ \/ op.fresh]
        /\ current' = op.conn
        /\ module' = [module EXCEPT ![op.by].pc = "got", ![op.by].got = h]
        /\ op' = NoOp
  BY DEF Leads
<1>2. /\ handle \in [Handle -> HandleRecord] /\ session \in [Conn -> SessionRecord]
      /\ module \in [Module -> ModuleRecord] /\ op.by \in Module /\ op.fresh \in BOOLEAN
      /\ KeyOf[op.by] \in Key
  BY OpKinds, SessionOptions DEF HereOK, Attempting
<1> DEFINE c == op.conn
           n == [session[c] EXCEPT !.members = @ \cup {h}, !.leased = @ \/ op.fresh]
           g == [module[op.by] EXCEPT !.pc = "got", !.got = h]
           f == [key |-> KeyOf[op.by], conn |-> c, status |-> "leading", failures |-> 0]
<1>3. session' = [session EXCEPT ![c] = n] /\ module' = [module EXCEPT ![op.by] = g]
  BY <1>1, <1>2
<1>4. /\ n \in SessionRecord /\ n.phase = session[c].phase /\ n.abandoned = session[c].abandoned
      /\ n.members = session[c].members \cup {h}
  <2>1. session[c] \in SessionRecord
    BY <1>2
  <2> QED
    BY <1>2, <2>1 DEF SessionRecord
<1>5. g \in ModuleRecord /\ g.ref = module[op.by].ref /\ g.got = h
  <2>1. module[op.by] \in ModuleRecord
    BY <1>2
  <2> QED
    BY <2>1 DEF ModuleRecord
<1>6. f \in HandleRecord /\ handle' = [handle EXCEPT ![h] = f]
  BY <1>1, <1>2, SessionOptions DEF HandleRecord
<1>7. f.key = KeyOf[op.by] /\ f.conn = c /\ f.status = "leading" /\ f.failures = 0
  OBVIOUS
<1>8. handle[h].status = "none"
  BY <1>1 DEF Fresh
<1> HIDE DEF n, g, f
<1>9. /\ session' \in [Conn -> SessionRecord]
      /\ \A d \in Conn : /\ session'[d].phase = session[d].phase
                         /\ session'[d].abandoned = session[d].abandoned
                         /\ session'[d].members = IF d = op.conn THEN session[d].members \cup {h}
                                                  ELSE session[d].members
  BY <1>2, <1>3, <1>4
<1>10. /\ module' \in [Module -> ModuleRecord]
       /\ \A m \in Module : /\ module'[m].ref = module[m].ref
                            /\ module'[m].got \in {module[m].got, h}
  BY <1>2, <1>3, <1>5
<1>11. /\ handle' \in [Handle -> HandleRecord] /\ handle'[h] = f
       /\ \A i \in Handle : i # h => handle'[i] = handle[i]
  BY <1>2, <1>6
<1> QED
  BY <1>1, <1>2, <1>7, <1>8, <1>9, <1>10, <1>11

(* A connection from the pool, as new.                                        *)
LEMMA ReservesEffect ==
  ASSUME HereOK, Reserves
  PROVE  \E c \in Conn :
           /\ op \in Attempting /\ op.pc = "reserve"
           /\ session[c].phase \in {"unused", "pooled"} /\ link[c] = "up"
           /\ session' \in [Conn -> SessionRecord]
           /\ \A d \in Conn : d # c => session'[d] = session[d]
           /\ session'[c].phase = "open" /\ session'[c].members = {}
           /\ ~ session'[c].leased /\ ~ session'[c].abandoned
           /\ op' \in Attempting /\ op'.kind = "attempt" /\ op'.by = op.by
           /\ op'.pc = "lock" /\ op'.conn = c /\ op'.fresh
<1>1. PICK c \in InPool : /\ session' = [session EXCEPT ![c] = [Unused EXCEPT !.phase = "open"]]
                          /\ op' = [op EXCEPT !.pc = "lock", !.conn = c, !.fresh = TRUE]
  BY DEF Reserves, Fresh
<1>2. /\ op \in Attempting /\ op.pc = "reserve" /\ session \in [Conn -> SessionRecord]
      /\ c \in Conn /\ session[c].phase \in {"unused", "pooled"} /\ link[c] = "up"
  BY <1>1, OpKinds DEF Reserves, Trying, HereOK, InPool
<1> DEFINE u == [Unused EXCEPT !.phase = "open"]
<1>3. Unused \in SessionRecord /\ Unused.members = {} /\ ~ Unused.leased /\ ~ Unused.abandoned
  BY DEF Unused, SessionRecord
<1>4. u \in SessionRecord /\ u.phase = "open" /\ u.members = {} /\ ~ u.leased /\ ~ u.abandoned
  BY <1>3 DEF SessionRecord
<1> HIDE DEF u
<1>5. LET n == [op EXCEPT !.pc = "lock", !.conn = c, !.fresh = TRUE]
      IN  n \in Attempting /\ n.kind = "attempt" /\ n.by = op.by /\ n.pc = "lock" /\ n.conn = c /\ n.fresh
  BY <1>2 DEF Attempting
<1>6. session' = [session EXCEPT ![c] = u]
  BY <1>1 DEF u
<1>7. /\ session' \in [Conn -> SessionRecord]
      /\ \A d \in Conn : d # c => session'[d] = session[d]
      /\ session'[c] = u
  BY <1>2, <1>4, <1>6
<1>8. /\ op' \in Attempting /\ op'.kind = "attempt" /\ op'.by = op.by
      /\ op'.pc = "lock" /\ op'.conn = c /\ op'.fresh
  BY <1>1, <1>5
<1> QED
  BY <1>2, <1>4, <1>7, <1>8

(* A release: the member is closed and leaves its session.                    *)
LEMMA ReleasesEffect ==
  ASSUME HereOK, MadeInv, NEW h \in Handle, NEW by \in Module \cup {Nobody}, Releases(h, by)
  PROVE  /\ handle' \in [Handle -> HandleRecord]
         /\ \A i \in Handle : i # h => handle'[i] = handle[i]
         /\ handle'[h].status = "closed" /\ handle[h].status # "none"
         /\ session' \in [Conn -> SessionRecord]
         /\ \A c \in Conn : /\ session'[c].phase = session[c].phase
                            /\ session'[c].abandoned = session[c].abandoned
                            /\ session'[c].leased = session[c].leased
                            /\ session'[c].members = session[c].members \ {h}
         /\ forked' \subseteq forked
         /\ op = NoOp
         /\ \/ op' = NoOp /\ AfterRelease(by)
            \/ /\ UNCHANGED module /\ IsMember(h) /\ ~ session[handle[h].conn].abandoned
               /\ op' = [kind |-> "release", by |-> by, conn |-> handle[h].conn,
                         key |-> handle[h].key, pc |-> "unlock"]
<1>0. /\ handle \in [Handle -> HandleRecord] /\ session \in [Conn -> SessionRecord]
      /\ handle[h] \in HandleRecord
  BY DEF HereOK
<1>1. [Unmade EXCEPT !.status = "closed"]
        = [key |-> Nobody, conn |-> Nobody, status |-> "closed", failures |-> 0]
  BY DEF Unmade
<1>2. [key |-> Nobody, conn |-> Nobody, status |-> "closed", failures |-> 0] \in HandleRecord
  BY SessionOptions DEF HandleRecord
<1>3. handle' = [handle EXCEPT ![h] = [key |-> Nobody, conn |-> Nobody, status |-> "closed", failures |-> 0]]
  BY <1>1 DEF Releases
<1>4. /\ handle' \in [Handle -> HandleRecord] /\ handle'[h].status = "closed"
      /\ \A i \in Handle : i # h => handle'[i] = handle[i]
  BY <1>0, <1>2, <1>3
<1>5. handle[h].status # "none"
  <2>1. CASE by = Nobody
    BY <2>1 DEF Releases, Asks, MadeInv
  <2>2. CASE by # Nobody
    BY <2>2, SessionOptions DEF Releases, Asks, MadeInv
  <2> QED
    BY <2>1, <2>2
<1>6. /\ session' \in [Conn -> SessionRecord]
      /\ \A c \in Conn : /\ session'[c].phase = session[c].phase
                         /\ session'[c].abandoned = session[c].abandoned
                         /\ session'[c].leased = session[c].leased
                         /\ session'[c].members = session[c].members \ {h}
  <2>1. CASE handle[h].status = "closed"
    <3>1. session' = session
      BY <2>1 DEF Releases
    <3>2. \A c \in Conn : h \notin session[c].members
      BY <2>1 DEF MadeInv, IsMember
    <3> QED
      BY <1>0, <3>1, <3>2
  <2>2. CASE handle[h].status # "closed"
    <3> DEFINE d == handle[h].conn
    <3>1. IsMember(h)
      BY <1>0, <1>5, <2>2 DEF IsMember, HandleRecord
    <3>2. d \in Conn /\ \A c \in Conn : c # d => h \notin session[c].members
      BY <3>1 DEF MadeInv
    <3> DEFINE n == [session[d] EXCEPT !.members = @ \ {h}]
    <3>3. session' = [session EXCEPT ![d] = n]
      BY <1>0, <2>2, <3>2 DEF Releases
    <3>4. /\ n \in SessionRecord /\ n.phase = session[d].phase /\ n.abandoned = session[d].abandoned
          /\ n.leased = session[d].leased /\ n.members = session[d].members \ {h}
      <4>1. session[d] \in SessionRecord
        BY <1>0, <3>2
      <4> QED
        BY <4>1 DEF SessionRecord
    <3> HIDE DEF n, d
    <3> QED
      BY <1>0, <3>2, <3>3, <3>4
  <2> QED
    BY <2>1, <2>2
<1>7. /\ forked' \subseteq forked /\ op = NoOp
      /\ \/ op' = NoOp /\ AfterRelease(by)
         \/ /\ UNCHANGED module /\ handle[h].status # "closed" /\ ~ session[handle[h].conn].abandoned
            /\ op' = [kind |-> "release", by |-> by, conn |-> handle[h].conn,
                      key |-> handle[h].key, pc |-> "unlock"]
  BY DEF Releases
<1>8. handle[h].status # "closed" => IsMember(h)
  BY <1>0, <1>5 DEF IsMember, HandleRecord
<1> QED
  BY <1>4, <1>5, <1>6, <1>7, <1>8

(* A check that applies: leaders stay, or are lost.                           *)
LEMMA CheckEffect ==
  ASSUME HereOK, MadeInv, NEW q \in checks, CheckApplies(q)
  PROVE  /\ handle' \in [Handle -> HandleRecord]
         /\ \A h \in Handle :
              /\ handle'[h].key = handle[h].key /\ handle'[h].conn = handle[h].conn
              /\ handle'[h].status = handle[h].status \/ (isLeader(h) /\ handle'[h].status = "lost")
              /\ handle'[h].status = "leading" => handle'[h].failures < FailuresBeforeLost
              /\ handle'[h].status = handle[h].status
                   \/ (h \in q.members /\ handle[h].key \notin q.keys)
         /\ forked' \subseteq Handle
         /\ \A h \in forked' : h \in forked \/ handle'[h].status = "lost"
         /\ checks' = checks \ {q}
<1>0. handle \in [Handle -> HandleRecord] /\ IsCheck(q) /\ forked \subseteq Handle
  BY DEF HereOK
<1>1. handle' = [h \in Handle |-> IF h \in q.members THEN afterCheck(handle[h], handle[h].key \in q.keys)
                                  ELSE handle[h]]
  BY DEF CheckApplies, CheckedMembers
<1>2. ASSUME NEW h \in Handle
      PROVE  LET n == afterCheck(handle[h], handle[h].key \in q.keys)
             IN  /\ n \in HandleRecord /\ n.key = handle[h].key /\ n.conn = handle[h].conn
                 /\ n.status = handle[h].status \/ (isLeader(h) /\ n.status = "lost")
                 /\ n.status = "leading" => n.failures < FailuresBeforeLost
                 /\ n.status = handle[h].status \/ handle[h].key \notin q.keys
  <2> DEFINE t == handle[h]
  <2>0. t \in HandleRecord /\ (t.status = "leading" => t.failures < FailuresBeforeLost)
    BY <1>0 DEF MadeInv, isLeader
  <2>1. CASE t.status # "leading"
    BY <2>0, <2>1 DEF afterCheck
  <2>2. CASE t.status = "leading" /\ t.key \in q.keys
    BY <2>0, <2>2, SessionOptions DEF afterCheck, HandleRecord
  <2>3. CASE t.status = "leading" /\ t.key \notin q.keys
    <3> DEFINE f == t.failures + 1
               w == IF f >= FailuresBeforeLost THEN "lost" ELSE t.status
               n == [t EXCEPT !.failures = f, !.status = w]
    <3>1. f \in 0 .. FailuresBeforeLost
      BY <2>0, <2>3, SessionOptions DEF HandleRecord
    <3>2. w = "lost" \/ (w = "leading" /\ f < FailuresBeforeLost)
      BY <2>0, <2>3, <3>1, SessionOptions
    <3>3. afterCheck(t, t.key \in q.keys) = n
      BY <2>3 DEF afterCheck
    <3> HIDE DEF f, w
    <3>4. /\ n \in HandleRecord /\ n.key = t.key /\ n.conn = t.conn /\ n.status = w /\ n.failures = f
      BY <2>0, <3>1, <3>2 DEF HandleRecord
    <3> HIDE DEF n
    <3> QED
      BY <2>3, <3>2, <3>3, <3>4 DEF isLeader
  <2> QED
    BY <2>1, <2>2, <2>3
<1>3. \A h \in Handle : handle'[h] = IF h \in q.members THEN afterCheck(handle[h], handle[h].key \in q.keys)
                                     ELSE handle[h]
  BY <1>1
<1>4. handle' \in [Handle -> HandleRecord]
  <2>1. \A h \in Handle : handle'[h] \in HandleRecord
    BY <1>0, <1>2, <1>3
  <2> QED
    BY <1>1, <2>1
<1>5. ASSUME NEW h \in Handle
      PROVE  /\ handle'[h].key = handle[h].key /\ handle'[h].conn = handle[h].conn
             /\ handle'[h].status = handle[h].status \/ (isLeader(h) /\ handle'[h].status = "lost")
             /\ handle'[h].status = "leading" => handle'[h].failures < FailuresBeforeLost
             /\ handle'[h].status = handle[h].status
                  \/ (h \in q.members /\ handle[h].key \notin q.keys)
  <2>1. CASE h \in q.members
    BY <1>2, <1>3, <2>1
  <2>2. CASE h \notin q.members
    BY <1>3, <2>2 DEF MadeInv, isLeader
  <2> QED
    BY <2>1, <2>2
<1>6. /\ forked' = forked \cup {h \in q.members : isLeader(h) /\ handle'[h].status = "lost"}
      /\ checks' = checks \ {q} /\ q.members \subseteq Handle
  BY <1>0 DEF CheckApplies, CheckedMembers, IsCheck
<1> QED
  BY <1>0, <1>4, <1>5, <1>6

-----------------------------------------------------------------------------
(* The types.                                                                 *)

LEMMA GoesType ==
  ASSUME HereOK, NEW m \in Module, NEW pc \in {"loop", "release", "attempt"}, Goes(m, pc)
  PROVE  /\ module' \in [Module -> ModuleRecord]
         /\ \A n \in Module : module'[n].ref = module[n].ref /\ module'[n].got = module[n].got
<1> DEFINE g == [module[m] EXCEPT !.pc = pc]
<1>1. module \in [Module -> ModuleRecord] /\ module[m] \in ModuleRecord
  BY DEF HereOK
<1>2. module' = [module EXCEPT ![m] = g]
  BY <1>1 DEF Goes
<1>3. g \in ModuleRecord /\ g.ref = module[m].ref /\ g.got = module[m].got
  BY <1>1 DEF ModuleRecord
<1> HIDE DEF g
<1> QED
  BY <1>1, <1>2, <1>3

LEMMA AfterReleaseType ==
  ASSUME HereOK, NEW by \in Module \cup {Nobody}, AfterRelease(by)
  PROVE  /\ module' \in [Module -> ModuleRecord]
         /\ \A n \in Module : /\ module'[n].ref \in {module[n].ref, Nobody}
                              /\ module'[n].got = module[n].got
<1>0. module \in [Module -> ModuleRecord]
  BY DEF HereOK
<1>1. CASE by = Nobody
  BY <1>0, <1>1 DEF AfterRelease
<1>2. CASE by # Nobody
  <2> DEFINE g == [module[by] EXCEPT !.pc = IF @ = "release" THEN "attempt" ELSE "stopped", !.ref = Nobody]
  <2>1. module' = [module EXCEPT ![by] = g] /\ module[by] \in ModuleRecord
    BY <1>0, <1>2 DEF AfterRelease
  <2>2. g \in ModuleRecord /\ g.ref = Nobody /\ g.got = module[by].got
    BY <2>1 DEF ModuleRecord
  <2> HIDE DEF g
  <2> QED
    BY <1>0, <1>2, <2>1, <2>2
<1> QED
  BY <1>1, <1>2

(* The fields an attempt's step sets.                                         *)
LEMMA AttemptType ==
  ASSUME HereOK, op.kind = "attempt"
  PROVE  /\ op \in Attempting
         /\ \A pc \in {"reserve", "lock"}, c \in Conn \cup {Nobody} :
              LET n == [op EXCEPT !.pc = pc, !.conn = c]
              IN  /\ n \in Attempting /\ n.kind = "attempt" /\ n.by = op.by /\ n.pc = pc /\ n.conn = c
                  /\ n.fresh = op.fresh
         /\ LET n == [op EXCEPT !.pc = "lease"]
            IN  /\ n \in Attempting /\ n.kind = "attempt" /\ n.by = op.by /\ n.pc = "lease"
                /\ n.conn = op.conn /\ n.fresh = op.fresh
         /\ LET n == [op EXCEPT !.pc = "begin", !.conn = Nobody, !.retried = TRUE]
            IN  /\ n \in Attempting /\ n.kind = "attempt" /\ n.by = op.by /\ n.pc = "begin"
                /\ n.fresh = op.fresh
<1>1. op \in Attempting
  BY OpKinds
<1> QED
  BY <1>1 DEF Attempting

(* An interrupted attempt.                                                    *)
LEMMA InterruptEffect ==
  ASSUME HereOK, MadeInv, PermitInv, NEW m \in Module, Interrupts(m)
  PROVE  /\ session' \in [Conn -> SessionRecord]
         /\ handle' \in [Handle -> HandleRecord]
         /\ op' \in {op, NoOp}
         /\ \/ UNCHANGED <<session, handle, forked>>
            \/ /\ op.kind = "attempt" /\ op' = NoOp /\ op.conn \in Conn /\ closeSession(op.conn)
               /\ session[op.conn].members = {}
               /\ UNCHANGED <<handle, forked>>
            \/ op.kind = "attempt" /\ op' = NoOp /\ op.conn \in Conn /\ loseAll(op.conn) /\ UNCHANGED session
         /\ UNCHANGED late \/ \E c \in Conn, k \in Key : late' = [late EXCEPT ![c] = @ \cup {<<"lock", k>>}]
<1>0. session \in [Conn -> SessionRecord] /\ handle \in [Handle -> HandleRecord]
  BY DEF HereOK
<1>1. CASE op.kind = "attempt" /\ op.by = m
  <2>1. op.pc \in {"lock", "lease"} => op.conn \in Conn
    BY <1>1 DEF PermitInv
  <2>2. op.pc \in {"lock", "lease"} /\ op.fresh => session[op.conn].members = {}
    BY <1>1 DEF PermitInv
  <2>3. KeyOf[m] \in Key
    BY SessionOptions
  <2>4. UNCHANGED late \/ \E c \in Conn, k \in Key : late' = [late EXCEPT ![c] = @ \cup {<<"lock", k>>}]
    BY <1>1, <2>1, <2>3 DEF Interrupts, Late
  <2>5. CASE op.pc \in {"lock", "lease"} /\ op.fresh
    <3>1. op' = NoOp /\ closeSession(op.conn) /\ UNCHANGED <<handle, forked>>
      BY <1>1, <2>5 DEF Interrupts
    <3>2. session' \in [Conn -> SessionRecord]
      BY <2>1, <2>5, <3>1, CloseEffect
    <3> QED
      BY <1>0, <1>1, <2>1, <2>2, <2>4, <2>5, <3>1, <3>2
  <2>6. CASE op.pc = "lock" /\ ~ op.fresh
    <3>1. op' = NoOp /\ loseAll(op.conn) /\ UNCHANGED session
      BY <1>1, <2>6 DEF Interrupts
    <3>2. handle' \in [Handle -> HandleRecord]
      BY <2>1, <2>6, <3>1, LoseEffect
    <3> QED
      BY <1>0, <1>1, <2>1, <2>4, <2>6, <3>1, <3>2
  <2>7. CASE ~ (op.pc \in {"lock", "lease"} /\ op.fresh) /\ op.pc # "lock"
    BY <1>0, <1>1, <2>4, <2>7 DEF Interrupts
  <2> QED
    BY <2>5, <2>6, <2>7
<1>2. CASE ~ (op.kind = "attempt" /\ op.by = m)
  BY <1>0, <1>2 DEF Interrupts
<1> QED
  BY <1>1, <1>2

(* The steps by what they belong to.                                          *)
LEMMA StepKinds ==
  ASSUME Next
  PROVE  \/ Begins \/ Reserves \/ ReserveTimesOut \/ LockAnswered \/ LeaseAnswered
         \/ StatementFails \/ Abandons \/ Unlocks \/ Closes
         \/ \E m \in Module : Retries(m) \/ SetsRef(m) \/ TakesPermit(m) \/ Stops(m)
         \/ \E h \in Handle : Verify(h) \/ \E by \in Module \cup {Nobody} : Releases(h, by)
         \/ \E q \in checks : ServerAnswers(q) \/ CheckApplies(q)
         \/ \E c \in Conn : \/ Retires(c) \/ Heartbeat(c) \/ LateRuns(c) \/ HearsOfEnd(c)
                            \/ Dies(c) \/ FallsSilent(c) \/ Recovers(c)
         \/ \E k \in Key : AnotherTakes(k) \/ AnotherGives(k)
BY DEF Next, UnderPermit, OfModule, OfHandle, OfCheck, OfConn

(* What the permit's attempt leaves of the connection it is on.               *)
LEMMA OnItsConnection ==
  ASSUME HereOK, PermitInv, Trying("lock") \/ Trying("lease")
  PROVE  op \in Attempting /\ op.conn \in Conn /\ op.by \in Module /\ KeyOf[op.by] \in Key
<1>1. op.kind = "attempt" /\ op.conn \in Conn
  BY DEF Trying, PermitInv
<1>2. op \in Attempting
  BY <1>1, OpKinds
<1> QED
  BY <1>1, <1>2, SessionOptions DEF Attempting

LEMMA EmptyType ==
  ASSUME HereOK, op.kind = "attempt", EndsEmpty
  PROVE  /\ op' = NoOp /\ module' \in [Module -> ModuleRecord]
         /\ \A n \in Module : module'[n].ref = module[n].ref /\ module'[n].got = module[n].got
<1>1. op.by \in Module
  BY OpKinds DEF Attempting
<1> QED
  BY <1>1, GoesType DEF EndsEmpty

(* An attempt's statement that is answered, fails, or is given up on.         *)
LEMMA LockAnsweredKinds ==
  ASSUME HereOK, PermitInv, LockAnswered
  PROVE  LET c == op.conn
             k == KeyOf[op.by]
         IN  /\ op.kind = "attempt" /\ op.pc = "lock" /\ c \in Conn /\ k \in Key /\ Answers(c)
             /\ UNCHANGED <<forked, checks, link, late, used>>
             /\ \/ /\ op.fresh /\ op' = [op EXCEPT !.pc = "lease"] /\ Grants(c, k)
                   /\ lock' = [lock EXCEPT ![k] = c]
                   /\ UNCHANGED <<module, current, session, handle>>
                \/ ~ op.fresh /\ Leads /\ Grants(c, k) /\ lock' = [lock EXCEPT ![k] = c]
                \/ op.fresh /\ EndsEmpty /\ closeSession(c) /\ UNCHANGED <<lock, current, handle>>
                \/ EndsEmpty /\ UNCHANGED <<lock, current, handle, session>>
<1>1. op.kind = "attempt" /\ op.pc = "lock"
  BY DEF LockAnswered, Trying
<1>2. op.conn \in Conn /\ KeyOf[op.by] \in Key
  BY OnItsConnection DEF LockAnswered
<1> QED
  BY <1>1, <1>2 DEF LockAnswered

LEMMA StatementFailsKinds ==
  ASSUME HereOK, PermitInv, StatementFails
  PROVE  LET c == op.conn
         IN  /\ op.kind = "attempt" /\ op.pc \in {"lock", "lease"} /\ c \in Conn /\ link[c] = "dead"
             /\ UNCHANGED <<current, checks, there>>
             /\ \/ op.fresh /\ closeSession(c) /\ EndsEmpty /\ UNCHANGED <<handle, forked>>
                \/ ~ op.fresh /\ loseAll(c) /\ EndsEmpty /\ UNCHANGED session
                \/ /\ ~ op.fresh /\ loseAll(c)
                   /\ op' = [op EXCEPT !.pc = "begin", !.conn = Nobody, !.retried = TRUE]
                   /\ UNCHANGED <<module, session>>
<1>1. op.kind = "attempt" /\ op.pc \in {"lock", "lease"}
  BY DEF StatementFails, Trying
<1>2. op.conn \in Conn
  BY OnItsConnection DEF StatementFails
<1> QED
  BY <1>1, <1>2 DEF StatementFails

LEMMA AbandonsEffect ==
  ASSUME HereOK, PermitInv, Abandons
  PROVE  LET c == op.conn
         IN  /\ op.kind = "attempt" /\ op.pc \in {"lock", "lease"} /\ c \in Conn /\ link[c] = "silent"
             /\ session' \in [Conn -> SessionRecord]
             /\ \A d \in Conn : /\ session'[d].members = session[d].members
                                /\ session'[d].phase = session[d].phase
                                /\ session'[d].leased = session[d].leased
                                /\ session'[d].abandoned = (d = c \/ session[d].abandoned)
             /\ loseAll(c) /\ EndsEmpty /\ UNCHANGED <<current, checks, link, lock, used>>
             /\ \/ UNCHANGED late
                \/ KeyOf[op.by] \in Key /\ late' = [late EXCEPT ![c] = @ \cup {<<"lock", KeyOf[op.by]>>}]
<1>1. op.kind = "attempt" /\ op.pc \in {"lock", "lease"}
  BY DEF Abandons, Trying
<1>2. op.conn \in Conn /\ KeyOf[op.by] \in Key
  BY OnItsConnection DEF Abandons
<1> DEFINE c == op.conn
           n == [session[c] EXCEPT !.abandoned = TRUE]
<1>3. session' = [session EXCEPT ![c] = n] /\ session \in [Conn -> SessionRecord]
  BY <1>2 DEF Abandons, HereOK
<1>4. /\ n \in SessionRecord /\ n.abandoned /\ n.phase = session[c].phase
      /\ n.members = session[c].members /\ n.leased = session[c].leased
  <2>1. session[c] \in SessionRecord
    BY <1>2, <1>3
  <2> QED
    BY <2>1 DEF SessionRecord
<1> HIDE DEF n
<1>5. /\ session' \in [Conn -> SessionRecord]
      /\ \A d \in Conn : /\ session'[d].members = session[d].members
                         /\ session'[d].phase = session[d].phase
                         /\ session'[d].leased = session[d].leased
                         /\ session'[d].abandoned = (d = c \/ session[d].abandoned)
  <2>1. session' \in [Conn -> SessionRecord]
    BY <1>2, <1>3, <1>4
  <2>2. session'[c] = n /\ \A d \in Conn : d # c => session'[d] = session[d]
    BY <1>2, <1>3
  <2>3. \A d \in Conn : session[d].abandoned \in BOOLEAN
    BY <1>3 DEF SessionRecord
  <2> QED
    BY <1>2, <1>4, <2>1, <2>2, <2>3
<1>6. \/ UNCHANGED late
      \/ late' = [late EXCEPT ![c] = @ \cup {<<"lock", KeyOf[op.by]>>}]
  BY DEF Abandons, Late
<1>7. loseAll(c) /\ EndsEmpty /\ UNCHANGED <<current, checks, link, lock, used>> /\ link[c] = "silent"
  BY DEF Abandons
<1> QED
  BY <1>1, <1>2, <1>5, <1>6, <1>7

(* The beginning of an attempt.                                               *)
LEMMA BeginsEffect ==
  ASSUME HereOK, Begins
  PROVE  /\ op \in Attempting /\ op.kind = "attempt" /\ op.pc = "begin"
         /\ current' = Live /\ Live \in Conn \cup {Nobody}
         /\ UNCHANGED <<session, handle, forked, checks, there>>
         /\ \/ Refused /\ EndsEmpty
            \/ /\ ~ Refused /\ UNCHANGED module
               /\ op' \in Attempting /\ op'.kind = "attempt" /\ op'.by = op.by
               /\ op'.fresh = op.fresh /\ op'.conn = Live
               /\ op'.pc = IF Live = Nobody THEN "reserve" ELSE "lock"
<1>1. op.kind = "attempt" /\ op.pc = "begin" /\ op \in Attempting
  BY OpKinds DEF Begins, Trying
<1>2. current' = Live /\ Live \in Conn \cup {Nobody}
  BY DEF Begins, Live, HereOK
<1> DEFINE p == IF Live = Nobody THEN "reserve" ELSE "lock"
<1>3. \/ Refused /\ EndsEmpty
      \/ ~ Refused /\ op' = [op EXCEPT !.pc = p, !.conn = Live] /\ UNCHANGED module
  BY DEF Begins
<1>4. p \in {"reserve", "lock"} /\ p = IF Live = Nobody THEN "reserve" ELSE "lock"
  OBVIOUS
<1> HIDE DEF p
<1>5. ASSUME NEW c \in Conn \cup {Nobody}
      PROVE  LET n == [op EXCEPT !.pc = p, !.conn = c]
             IN  /\ n \in Attempting /\ n.kind = "attempt" /\ n.by = op.by /\ n.fresh = op.fresh
                 /\ n.conn = c /\ n.pc = p
  BY <1>1, <1>4 DEF Attempting
<1>6. ~ Refused /\ op' = [op EXCEPT !.pc = p, !.conn = Live]
      => /\ op' \in Attempting /\ op'.kind = "attempt" /\ op'.by = op.by
         /\ op'.fresh = op.fresh /\ op'.conn = Live /\ op'.pc = p
  BY <1>2, <1>5
<1>7. UNCHANGED <<session, handle, forked, checks, there>>
  BY DEF Begins
<1> QED
  BY <1>1, <1>2, <1>3, <1>4, <1>6, <1>7

(* What the process holds keeps its types.                                    *)
LEMMA HereStep ==
  ASSUME HereOK, MadeInv, HomeInv, PermitInv, Next
  PROVE  HereOK'
<1>0. /\ module \in [Module -> ModuleRecord] /\ session \in [Conn -> SessionRecord]
      /\ handle \in [Handle -> HandleRecord] /\ forked \subseteq Handle
      /\ op \in Attempting \cup Releasing \cup {NoOp} /\ current \in Conn \cup {Nobody}
      /\ \A q \in checks : IsCheck(q)
  BY DEF HereOK
<1>c. UNCHANGED checks => \A q \in checks' : IsCheck(q)
  BY <1>0
<1>h. UNCHANGED here => HereOK'
  BY <1>0, <1>c DEF here, HereOK, IsCheck
<1>1. CASE Begins
  <2>1. current' \in Conn \cup {Nobody} /\ UNCHANGED <<session, handle, forked, checks>>
    BY <1>1, BeginsEffect
  <2>2. op' = NoOp \/ op' \in Attempting
    BY <1>1, EmptyType, BeginsEffect
  <2>3. module' \in [Module -> ModuleRecord]
    BY <1>0, <1>1, EmptyType, BeginsEffect
  <2> QED
    BY <1>0, <1>c, <2>1, <2>2, <2>3 DEF HereOK, IsCheck
<1>2. CASE Reserves
  <2>1. session' \in [Conn -> SessionRecord] /\ op' \in Attempting
    BY <1>2, ReservesEffect
  <2> QED
    BY <1>0, <1>2, <1>c, <2>1 DEF Reserves, HereOK, IsCheck
<1>3. CASE ReserveTimesOut
  BY <1>0, <1>3, <1>c, EmptyType DEF ReserveTimesOut, Trying, HereOK, IsCheck
<1>4. CASE LockAnswered
  <2>1. op.kind = "attempt" /\ op.conn \in Conn /\ UNCHANGED <<forked, checks>>
    BY <1>4, LockAnsweredKinds
  <2>2. CASE op' = [op EXCEPT !.pc = "lease"] /\ UNCHANGED <<module, current, session, handle>>
    BY <1>0, <1>c, <2>1, <2>2, AttemptType DEF HereOK, IsCheck
  <2>3. CASE Leads
    BY <1>0, <1>c, <2>1, <2>3, LeadsEffect DEF HereOK, IsCheck
  <2>4. CASE EndsEmpty /\ UNCHANGED <<current, handle>> /\ (closeSession(op.conn) \/ UNCHANGED session)
    BY <1>0, <1>c, <2>1, <2>4, EmptyType, CloseEffect DEF HereOK, IsCheck
  <2> QED
    BY <1>4, <2>2, <2>3, <2>4, LockAnsweredKinds
<1>5. CASE LeaseAnswered
  <2>1. op.kind = "attempt" /\ op.conn \in Conn /\ UNCHANGED <<forked, checks>> /\ Leads
    BY <1>5, OnItsConnection DEF LeaseAnswered, Trying
  <2> QED
    BY <1>0, <1>c, <2>1, LeadsEffect DEF HereOK, IsCheck
<1>6. CASE StatementFails
  <2>1. op.kind = "attempt" /\ op.conn \in Conn /\ UNCHANGED <<current, checks>>
    BY <1>6, StatementFailsKinds
  <2>2. loseAll(op.conn) => handle' \in [Handle -> HandleRecord] /\ forked' \subseteq Handle
    BY <1>0, <2>1, LoseEffect
  <2>3. CASE closeSession(op.conn) /\ EndsEmpty /\ UNCHANGED <<handle, forked>>
    BY <1>0, <1>c, <2>1, <2>3, EmptyType, CloseEffect DEF HereOK, IsCheck
  <2>4. CASE loseAll(op.conn) /\ EndsEmpty /\ UNCHANGED session
    BY <1>0, <1>c, <2>1, <2>2, <2>4, EmptyType DEF HereOK, IsCheck
  <2>5. CASE /\ loseAll(op.conn) /\ UNCHANGED <<module, session>>
             /\ op' = [op EXCEPT !.pc = "begin", !.conn = Nobody, !.retried = TRUE]
    BY <1>0, <1>c, <2>1, <2>2, <2>5, AttemptType DEF HereOK, IsCheck
  <2> QED
    BY <1>6, <2>3, <2>4, <2>5, StatementFailsKinds
<1>7. CASE Abandons
  <2>1. /\ op.kind = "attempt" /\ op.conn \in Conn /\ UNCHANGED <<current, checks>>
        /\ session' \in [Conn -> SessionRecord] /\ loseAll(op.conn) /\ EndsEmpty
    BY <1>7, AbandonsEffect
  <2>2. handle' \in [Handle -> HandleRecord] /\ forked' \subseteq Handle
    BY <1>0, <2>1, LoseEffect
  <2> QED
    BY <1>0, <1>c, <2>1, <2>2, EmptyType DEF HereOK, IsCheck
<1>8. CASE Unlocks
  <2>1. op \in Releasing /\ op.by \in Module \cup {Nobody}
    BY <1>8, OpKinds DEF Unlocks, Releasing
  <2>2. CASE op' = [op EXCEPT !.pc = "close"] /\ UNCHANGED module
    <3>1. op' \in Releasing
      BY <2>1, <2>2 DEF Releasing
    <3> QED
      BY <1>0, <1>8, <1>c, <2>2, <3>1 DEF Unlocks, HereOK, IsCheck
  <2>3. CASE op' = NoOp /\ AfterRelease(op.by)
    BY <1>0, <1>8, <1>c, <2>1, <2>3, AfterReleaseType DEF Unlocks, HereOK, IsCheck
  <2> QED
    BY <1>8, <2>2, <2>3 DEF Unlocks
<1>9. CASE Closes
  <2>1. op \in Releasing /\ op.by \in Module \cup {Nobody} /\ op.conn \in Conn
    BY <1>9, OpKinds DEF Closes, Releasing
  <2> QED
    BY <1>0, <1>9, <1>c, <2>1, AfterReleaseType, CloseEffect DEF Closes, HereOK, IsCheck
<1>10. ASSUME NEW m \in Module, Retries(m) PROVE HereOK'
  <2>1. /\ module' \in [Module -> ModuleRecord]
        /\ UNCHANGED <<op, current, session, handle, forked, checks>>
    <3>1. \E pc \in {"loop", "release", "attempt"} : Goes(m, pc)
      BY <1>10 DEF Retries
    <3> QED
      BY <1>10, <3>1, GoesType DEF Retries
  <2> QED
    BY <1>0, <1>c, <2>1 DEF HereOK, IsCheck
<1>11. ASSUME NEW m \in Module, SetsRef(m) PROVE HereOK'
  <2>1. module' \in [Module -> ModuleRecord]
    BY <1>0, <1>11 DEF SetsRef, ModuleRecord
  <2> QED
    BY <1>0, <1>11, <1>c, <2>1 DEF SetsRef, HereOK, IsCheck
<1>12. ASSUME NEW m \in Module, TakesPermit(m) PROVE HereOK'
  <2>1. op' \in Attempting
    BY <1>12 DEF TakesPermit, Attempting
  <2> QED
    BY <1>0, <1>12, <1>c, <2>1 DEF TakesPermit, HereOK, IsCheck
<1>13. ASSUME NEW m \in Module, Stops(m) PROVE HereOK'
  <2>1. module' \in [Module -> ModuleRecord]
    <3> DEFINE g == [module[m] EXCEPT !.pc = IF module[m].ref = Nobody THEN "stopped" ELSE "stopping",
                                      !.got = Nobody]
    <3>1. module' = [module EXCEPT ![m] = g]
      BY <1>0, <1>13 DEF Stops
    <3>2. g \in ModuleRecord
      <4>1. module[m] \in ModuleRecord
        BY <1>0, <1>13
      <4> QED
        BY <4>1 DEF ModuleRecord
    <3> QED
      BY <1>0, <3>1, <3>2
  <2>2. /\ session' \in [Conn -> SessionRecord] /\ handle' \in [Handle -> HandleRecord]
        /\ op' \in {op, NoOp}
    BY <1>13, InterruptEffect DEF Stops
  <2>3. forked' \subseteq Handle
    BY <1>0, <1>13, InterruptEffect, LoseEffect DEF Stops
  <2>4. UNCHANGED <<current, checks>>
    BY <1>13 DEF Stops
  <2> QED
    BY <1>0, <1>c, <2>1, <2>2, <2>3, <2>4 DEF HereOK, IsCheck
<1>14. ASSUME NEW h \in Handle, NEW by \in Module \cup {Nobody}, Releases(h, by) PROVE HereOK'
  <2>1. /\ handle' \in [Handle -> HandleRecord] /\ session' \in [Conn -> SessionRecord]
        /\ forked' \subseteq forked /\ UNCHANGED <<current, checks>>
    BY <1>14, ReleasesEffect DEF Releases
  <2>2. CASE op' = NoOp /\ AfterRelease(by)
    BY <1>0, <1>14, <1>c, <2>1, <2>2, AfterReleaseType DEF HereOK, IsCheck
  <2>3. CASE /\ UNCHANGED module /\ IsMember(h)
             /\ op' = [kind |-> "release", by |-> by, conn |-> handle[h].conn,
                       key |-> handle[h].key, pc |-> "unlock"]
    <3>1. handle[h].conn \in Conn /\ handle[h].key \in Key
      BY <1>14, <2>3 DEF MadeInv
    <3>2. op' \in Releasing
      BY <1>14, <2>3, <3>1 DEF Releasing
    <3> QED
      BY <1>0, <1>c, <2>1, <2>3, <3>2 DEF HereOK, IsCheck
  <2> QED
    BY <1>14, <2>2, <2>3, ReleasesEffect
<1>15. ASSUME NEW c \in Conn, NEW by \in {"heartbeat", "fence"}, NEW M \in SUBSET Handle, Checks(c, by, M)
       PROVE  HereOK'
  <2>1. IsCheck([by |-> by, conn |-> c, members |-> M, seen |-> "sent", keys |-> {}])
    BY <1>15 DEF IsCheck
  <2>2. \A q \in checks' : IsCheck(q)
    BY <1>0, <1>15, <2>1 DEF Checks
  <2> QED
    BY <1>0, <1>15, <2>2 DEF Checks, HereOK, IsCheck
<1>16. ASSUME NEW q \in checks, ServerAnswers(q) PROVE HereOK'
  <2> DEFINE n == IF link[q.conn] = "up"
                  THEN [q EXCEPT !.seen = "keys", !.keys = {k \in Key : lock[k] = q.conn}]
                  ELSE [q EXCEPT !.seen = "none"]
  <2>1. IsCheck(q)
    BY <1>0, <1>16
  <2>2. IsCheck(n)
    BY <2>1 DEF IsCheck
  <2>3. checks' = (checks \ {q}) \cup {n} /\ UNCHANGED <<module, op, current, session, handle, forked>>
    BY <1>16 DEF ServerAnswers
  <2>4. \A p \in checks' : IsCheck(p)
    BY <1>0, <2>2, <2>3
  <2> QED
    BY <1>0, <2>3, <2>4 DEF HereOK, IsCheck
<1>17. ASSUME NEW q \in checks, CheckApplies(q) PROVE HereOK'
  <2>1. /\ handle' \in [Handle -> HandleRecord] /\ forked' \subseteq Handle /\ checks' \subseteq checks
    BY <1>17, CheckEffect
  <2> QED
    BY <1>0, <1>17, <2>1 DEF CheckApplies, HereOK, IsCheck
<1>18. ASSUME NEW c \in Conn, Retires(c) PROVE HereOK'
  <2>1. session' \in [Conn -> SessionRecord]
    BY <1>0, <1>18 DEF Retires, SessionRecord
  <2> QED
    BY <1>0, <1>18, <1>c, <2>1 DEF Retires, HereOK, IsCheck
<1>19. CASE \/ \E c \in Conn : LateRuns(c) \/ HearsOfEnd(c) \/ Dies(c) \/ FallsSilent(c) \/ Recovers(c)
            \/ \E k \in Key : AnotherTakes(k) \/ AnotherGives(k)
  BY <1>19, <1>h DEF LateRuns, HearsOfEnd, Dies, FallsSilent, Recovers, AnotherTakes, AnotherGives
<1>20. ASSUME NEW h \in Handle, Verify(h) PROVE HereOK'
  <2>1. handle[h].conn \in Conn
    BY <1>20 DEF Verify, MadeInv, IsMember, isLeader
  <2> QED
    BY <1>15, <1>20, <2>1 DEF Verify
<1>21. ASSUME NEW c \in Conn, Heartbeat(c) PROVE HereOK'
  <2>1. session[c].members \subseteq Handle
    BY <1>0, <1>21 DEF SessionRecord
  <2> QED
    BY <1>15, <1>21, <2>1 DEF Heartbeat
<1> QED
  BY <1>1, <1>2, <1>3, <1>4, <1>5, <1>6, <1>7, <1>8, <1>9, <1>10, <1>11, <1>12, <1>13, <1>14,
     <1>16, <1>17, <1>18, <1>19, <1>20, <1>21, StepKinds

(* And so do the server, the network and the locks.                           *)
LEMMA ThereStep ==
  ASSUME HereOK, ThereOK, MadeInv, HomeInv, PermitInv, Next
  PROVE  ThereOK'
<1>0. /\ link \in [Conn -> {"up", "silent", "dead"}]
      /\ late \in [Conn -> SUBSET ({"lock", "unlock"} \X Key)]
      /\ lock \in [Key -> Conn \cup {Nobody, AnotherProcess}]
      /\ used \in [faults : 0 .. MaxFaults, turns : 0 .. MaxTurns]
  BY DEF ThereOK
<1>u. UNCHANGED there => ThereOK'
  BY <1>0 DEF there, ThereOK
<1>f. Faults => used' \in [faults : 0 .. MaxFaults, turns : 0 .. MaxTurns]
  BY <1>0, SessionOptions DEF Faults
<1>k. \A c \in Conn, k \in Key : Unlocked(c, k) \in [Key -> Conn \cup {Nobody, AnotherProcess}]
  BY <1>0 DEF Unlocked
<1>d. ASSUME NEW c \in Conn PROVE Freed(c) \in [Key -> Conn \cup {Nobody, AnotherProcess}]
  BY <1>0 DEF Freed
<1>1. CASE Begins \/ Reserves \/ LeaseAnswered \/ StatementFails \/ Closes
  BY <1>1, <1>u DEF Begins, Reserves, LeaseAnswered, StatementFails, Closes
<1>2. CASE ReserveTimesOut
  BY <1>0, <1>2, <1>f DEF ReserveTimesOut, ThereOK
<1>3. CASE LockAnswered
  BY <1>0, <1>3, LockAnsweredKinds DEF ThereOK
<1>4. CASE Abandons
  BY <1>0, <1>4, AbandonsEffect DEF ThereOK
<1>5. CASE Unlocks
  <2>1. op.conn \in Conn /\ op.key \in Key
    BY <1>5, OpKinds DEF Unlocks, Releasing
  <2>2. lock' = lock \/ lock' = Unlocked(op.conn, op.key)
    BY <1>5 DEF Unlocks
  <2>3. late' = late \/ late' = [late EXCEPT ![op.conn] = @ \cup {<<"unlock", op.key>>}]
    BY <1>5 DEF Unlocks, Late
  <2>4. UNCHANGED <<link, used>>
    BY <1>5 DEF Unlocks
  <2> QED
    BY <1>0, <1>k, <2>1, <2>2, <2>3, <2>4 DEF ThereOK
<1>6. CASE \E m \in Module : Retries(m) \/ SetsRef(m) \/ TakesPermit(m)
  BY <1>6, <1>u DEF Retries, SetsRef, TakesPermit
<1>7. ASSUME NEW m \in Module, Stops(m) PROVE ThereOK'
  BY <1>0, <1>7, InterruptEffect DEF Stops, ThereOK
<1>8. CASE \E h \in Handle : Verify(h) \/ \E by \in Module \cup {Nobody} : Releases(h, by)
  BY <1>8, <1>u DEF Verify, Checks, Releases
<1>9. CASE \E q \in checks : ServerAnswers(q) \/ CheckApplies(q)
  BY <1>9, <1>u DEF ServerAnswers, CheckApplies
<1>10. CASE \E c \in Conn : Retires(c) \/ Heartbeat(c)
  BY <1>10, <1>u DEF Retires, Heartbeat, Checks
<1>11. ASSUME NEW c \in Conn, LateRuns(c) PROVE ThereOK'
  <2>1. PICK what \in {"lock", "unlock"}, k \in Key :
          /\ lock' = IF what = "unlock" THEN Unlocked(c, k)
                     ELSE IF Grants(c, k) THEN [lock EXCEPT ![k] = c] ELSE lock
          /\ late' = [late EXCEPT ![c] = @ \ {<<what, k>>}]
    BY <1>11 DEF LateRuns
  <2>2. lock' \in [Key -> Conn \cup {Nobody, AnotherProcess}]
    BY <1>0, <1>11, <1>k, <2>1
  <2>3. late' \in [Conn -> SUBSET ({"lock", "unlock"} \X Key)]
    BY <1>0, <1>11, <2>1
  <2> QED
    BY <1>0, <1>11, <2>2, <2>3 DEF LateRuns, ThereOK
<1>12. ASSUME NEW c \in Conn, HearsOfEnd(c) \/ Dies(c) PROVE ThereOK'
  <2>1. /\ link' = [link EXCEPT ![c] = "dead"] /\ lock' = Freed(c) /\ late' = [late EXCEPT ![c] = {}]
        /\ UNCHANGED used \/ Faults
    BY <1>12 DEF HearsOfEnd, Dies
  <2> QED
    BY <1>0, <1>12, <1>d, <1>f, <2>1 DEF ThereOK
<1>13. ASSUME NEW c \in Conn, FallsSilent(c) \/ Recovers(c) PROVE ThereOK'
  BY <1>0, <1>13, <1>f DEF FallsSilent, Recovers, ThereOK
<1>14. ASSUME NEW k \in Key, AnotherTakes(k) \/ AnotherGives(k) PROVE ThereOK'
  BY <1>0, <1>14, SessionOptions DEF AnotherTakes, AnotherGives, ThereOK
<1> QED
  BY <1>1, <1>2, <1>3, <1>4, <1>5, <1>6, <1>7, <1>8, <1>9, <1>10, <1>11, <1>12, <1>13, <1>14, StepKinds

-----------------------------------------------------------------------------
(* Who is made and where.                                                     *)

(* A step that makes and releases nobody: at most, leaders are lost.          *)
OnlyLoses ==
  /\ \A h \in Handle :
       /\ handle'[h].key = handle[h].key /\ handle'[h].conn = handle[h].conn
       /\ handle'[h].status = handle[h].status \/ (isLeader(h) /\ handle'[h].status = "lost")
       /\ handle'[h].status = "leading" => handle'[h].failures < FailuresBeforeLost
  /\ \A c \in Conn : session'[c].members = session[c].members
  /\ \A h \in forked' : h \in forked \/ handle'[h].status = "lost"

LEMMA LossOfOne ==
  ASSUME HereOK, MadeInv, NEW c \in Conn, loseAll(c),
         \A d \in Conn : session'[d].members = session[d].members
  PROVE  OnlyLoses
BY LoseEffect DEF OnlyLoses, isLeader, MadeInv

LEMMA NoLoss ==
  ASSUME HereOK, MadeInv, UNCHANGED <<handle, forked>>,
         \A d \in Conn : session'[d].members = session[d].members
  PROVE  OnlyLoses
BY DEF OnlyLoses, isLeader, MadeInv

(* All steps but three are such steps.                                        *)
LEMMA OtherSteps ==
  ASSUME HereOK, MadeInv, PermitInv, Next
  PROVE  \/ OnlyLoses
         \/ Reserves
         \/ Leads /\ op.kind = "attempt" /\ op.conn \in Conn /\ UNCHANGED <<forked, checks>>
         \/ \E h \in Handle, by \in Module \cup {Nobody} : Releases(h, by)
<1>1. CASE Begins \/ ReserveTimesOut \/ Unlocks
  BY <1>1, NoLoss DEF Begins, ReserveTimesOut, Unlocks
<1>2. CASE LockAnswered
  BY <1>2, LockAnsweredKinds, NoLoss, CloseEffect
<1>3. CASE LeaseAnswered
  BY <1>3, OnItsConnection DEF LeaseAnswered, Trying
<1>4. CASE StatementFails
  BY <1>4, StatementFailsKinds, NoLoss, LossOfOne, CloseEffect
<1>5. CASE Abandons
  BY <1>5, AbandonsEffect, LossOfOne
<1>6. CASE Closes
  <2>1. op.conn \in Conn
    BY <1>6, OpKinds DEF Closes, Releasing
  <2> QED
    BY <1>6, <2>1, NoLoss, CloseEffect DEF Closes
<1>7. CASE \E m \in Module : Retries(m) \/ SetsRef(m) \/ TakesPermit(m)
  BY <1>7, NoLoss DEF Retries, SetsRef, TakesPermit
<1>8. CASE \E m \in Module : Stops(m)
  BY <1>8, InterruptEffect, NoLoss, LossOfOne, CloseEffect DEF Stops
<1>9. CASE \E h \in Handle : Verify(h)
  BY <1>9, NoLoss DEF Verify, Checks
<1>10. CASE \E q \in checks : ServerAnswers(q)
  BY <1>10, NoLoss DEF ServerAnswers
<1>11. CASE \E q \in checks : CheckApplies(q)
  BY <1>11, CheckEffect DEF CheckApplies, OnlyLoses
<1>12. ASSUME NEW c \in Conn, Retires(c) PROVE OnlyLoses
  <2>1. session \in [Conn -> SessionRecord]
    BY DEF HereOK
  <2>2. \A d \in Conn : session'[d].members = session[d].members
    BY <1>12, <2>1 DEF Retires, SessionRecord
  <2> QED
    BY <1>12, <2>2, NoLoss DEF Retires
<1>13. CASE \E c \in Conn : \/ Heartbeat(c) \/ LateRuns(c) \/ HearsOfEnd(c)
                           \/ Dies(c) \/ FallsSilent(c) \/ Recovers(c)
  BY <1>13, NoLoss DEF Heartbeat, Checks, LateRuns, HearsOfEnd, Dies, FallsSilent, Recovers, here
<1>14. CASE \E k \in Key : AnotherTakes(k) \/ AnotherGives(k)
  BY <1>14, NoLoss DEF AnotherTakes, AnotherGives, here
<1> QED
  BY <1>1, <1>2, <1>3, <1>4, <1>5, <1>6, <1>7, <1>8, <1>9, <1>10, <1>11, <1>12, <1>13, <1>14, StepKinds

(* References move from the attempt that made the leader to its loop.         *)
LEMMA RefsNext ==
  ASSUME HereOK, MadeInv, PermitInv, Next
  PROVE  \/ \A m \in Module : {module'[m].ref, module'[m].got} \subseteq
                                {module[m].ref, module[m].got, Nobody}
         \/ Leads /\ op.kind = "attempt" /\ op.conn \in Conn
<1>0. module \in [Module -> ModuleRecord]
  BY DEF HereOK
<1> DEFINE Kept == \A m \in Module : {module'[m].ref, module'[m].got} \subseteq
                                       {module[m].ref, module[m].got, Nobody}
<1>u. UNCHANGED module => Kept
  OBVIOUS
<1>e. op.kind = "attempt" /\ EndsEmpty => Kept
  BY EmptyType
<1>a. ASSUME NEW by \in Module \cup {Nobody}, AfterRelease(by) PROVE Kept
  BY <1>a, AfterReleaseType
<1>1. CASE Begins \/ Reserves \/ ReserveTimesOut
  BY <1>1, <1>u, <1>e, BeginsEffect DEF Reserves, ReserveTimesOut, Trying
<1>2. CASE LockAnswered
  BY <1>2, <1>u, <1>e, LockAnsweredKinds
<1>3. CASE LeaseAnswered
  BY <1>3, OnItsConnection DEF LeaseAnswered, Trying
<1>4. CASE StatementFails \/ Abandons
  BY <1>4, <1>u, <1>e, StatementFailsKinds, AbandonsEffect
<1>5. CASE Unlocks \/ Closes
  <2>1. op.by \in Module \cup {Nobody}
    BY <1>5, OpKinds DEF Unlocks, Closes, Releasing
  <2> QED
    BY <1>5, <1>u, <1>a, <2>1 DEF Unlocks, Closes
<1>6. ASSUME NEW m \in Module, Retries(m) PROVE Kept
  <2>1. \E pc \in {"loop", "release", "attempt"} : Goes(m, pc)
    BY <1>6 DEF Retries
  <2> QED
    BY <1>6, <2>1, GoesType
<1>7. ASSUME NEW m \in Module, SetsRef(m) PROVE Kept
  BY <1>0, <1>7 DEF SetsRef, ModuleRecord
<1>8. ASSUME NEW m \in Module, Stops(m) PROVE Kept
  <2>1. module[m] \in ModuleRecord
    BY <1>0, <1>8
  <2> DEFINE g == [module[m] EXCEPT !.pc = IF module[m].ref = Nobody THEN "stopped" ELSE "stopping",
                                    !.got = Nobody]
  <2>2. module' = [module EXCEPT ![m] = g]
    BY <1>0, <1>8 DEF Stops
  <2>3. g.ref = module[m].ref /\ g.got = Nobody
    BY <2>1 DEF ModuleRecord
  <2> HIDE DEF g
  <2> QED
    BY <1>0, <1>8, <2>2, <2>3
<1>9. CASE \E h \in Handle, by \in Module \cup {Nobody} : Releases(h, by)
  BY <1>9, <1>u, <1>a, ReleasesEffect
<1>10. CASE \/ \E m \in Module : TakesPermit(m)
            \/ \E h \in Handle : Verify(h)
            \/ \E q \in checks : ServerAnswers(q) \/ CheckApplies(q)
            \/ \E c \in Conn : \/ Retires(c) \/ Heartbeat(c) \/ LateRuns(c) \/ HearsOfEnd(c)
                               \/ Dies(c) \/ FallsSilent(c) \/ Recovers(c)
            \/ \E k \in Key : AnotherTakes(k) \/ AnotherGives(k)
  BY <1>10, <1>u DEF TakesPermit, Verify, Checks, ServerAnswers, CheckApplies, Retires, Heartbeat,
     LateRuns, HearsOfEnd, Dies, FallsSilent, Recovers, AnotherTakes, AnotherGives, here
<1> QED
  BY <1>1, <1>2, <1>3, <1>4, <1>5, <1>6, <1>7, <1>8, <1>9, <1>10, StepKinds

LEMMA ReservesLosesNone ==
  ASSUME HereOK, MadeInv, HomeInv, Reserves
  PROVE  OnlyLoses
BY ReservesEffect, NoLoss DEF Reserves, HomeInv

(* A check is of members the session has when it starts.                      *)
LEMMA ChecksNext ==
  ASSUME HereOK, MadeInv, PermitInv, Next
  PROVE  \A q \in checks' :
           \/ \E p \in checks : q.members = p.members /\ q.conn = p.conn
           \/ UNCHANGED handle /\ \A h \in q.members : IsMember(h) /\ handle[h].conn = q.conn
<1> DEFINE Fine == \A q \in checks' :
             \/ \E p \in checks : q.members = p.members /\ q.conn = p.conn
             \/ UNCHANGED handle /\ \A h \in q.members : IsMember(h) /\ handle[h].conn = q.conn
<1>u. UNCHANGED checks => Fine
  OBVIOUS
<1>1. ASSUME NEW c \in Conn, NEW by \in {"heartbeat", "fence"}, NEW M \in SUBSET Handle, Checks(c, by, M),
             \A h \in M : IsMember(h) /\ handle[h].conn = c
      PROVE  Fine
  <2> DEFINE n == [by |-> by, conn |-> c, members |-> M, seen |-> "sent", keys |-> {}]
  <2>1. n.members = M /\ n.conn = c
    OBVIOUS
  <2>2. checks' = checks \cup {n} /\ UNCHANGED handle
    BY <1>1 DEF Checks
  <2> HIDE DEF n
  <2> QED
    BY <1>1, <2>1, <2>2
<1>2. ASSUME NEW h \in Handle, Verify(h) PROVE Fine
  <2>1. IsMember(h) /\ handle[h].conn \in Conn
    BY <1>2 DEF Verify, MadeInv, IsMember, isLeader
  <2> QED
    BY <1>1, <1>2, <2>1 DEF Verify
<1>3. ASSUME NEW c \in Conn, Heartbeat(c) PROVE Fine
  <2>1. session[c].members \subseteq Handle
    BY DEF HereOK, SessionRecord
  <2>2. \A h \in session[c].members : IsMember(h) /\ handle[h].conn = c
    BY DEF MadeInv
  <2> QED
    BY <1>1, <1>3, <2>1, <2>2 DEF Heartbeat
<1>4. ASSUME NEW q \in checks, ServerAnswers(q) PROVE Fine
  <2> DEFINE n == IF link[q.conn] = "up"
                  THEN [q EXCEPT !.seen = "keys", !.keys = {k \in Key : lock[k] = q.conn}]
                  ELSE [q EXCEPT !.seen = "none"]
  <2>1. n.members = q.members /\ n.conn = q.conn
    OBVIOUS
  <2>2. checks' = (checks \ {q}) \cup {n}
    BY <1>4 DEF ServerAnswers
  <2> HIDE DEF n
  <2> QED
    BY <2>1, <2>2
<1>5. ASSUME NEW q \in checks, CheckApplies(q) PROVE Fine
  BY <1>5 DEF CheckApplies
<1>6. CASE \/ Begins \/ Reserves \/ ReserveTimesOut \/ LockAnswered \/ LeaseAnswered
           \/ StatementFails \/ Abandons \/ Unlocks \/ Closes
           \/ \E m \in Module : Retries(m) \/ SetsRef(m) \/ TakesPermit(m) \/ Stops(m)
           \/ \E h \in Handle, by \in Module \cup {Nobody} : Releases(h, by)
           \/ \E c \in Conn : \/ Retires(c) \/ LateRuns(c) \/ HearsOfEnd(c)
                              \/ Dies(c) \/ FallsSilent(c) \/ Recovers(c)
           \/ \E k \in Key : AnotherTakes(k) \/ AnotherGives(k)
  <2>1. UNCHANGED checks
    BY <1>6 DEF Begins, Reserves, ReserveTimesOut, LockAnswered, LeaseAnswered, StatementFails, Abandons,
       Unlocks, Closes, Retries, SetsRef, TakesPermit, Stops, Releases, Retires, LateRuns, HearsOfEnd,
       Dies, FallsSilent, Recovers, AnotherTakes, AnotherGives, here
  <2> QED
    BY <1>u, <2>1
<1> QED
  BY <1>2, <1>3, <1>4, <1>5, <1>6, StepKinds

LEMMA MadeStep ==
  ASSUME HereOK, HereOK', MadeInv, HomeInv, PermitInv, Next
  PROVE  MadeInv'
<1>0. /\ \A m \in Module : \A h \in {module[m].ref, module[m].got} \ {Nobody} : h \in Handle
      /\ \A m \in Module : \A h \in {module[m].ref, module[m].got}' \ {Nobody} : h \in Handle
      /\ forked \subseteq Handle /\ \A c \in Conn : session[c].members \subseteq Handle
      /\ \A q \in checks : q.members \subseteq Handle
      /\ \A q \in checks' : q.members \subseteq Handle /\ q.conn \in Conn
      /\ handle \in [Handle -> HandleRecord]
  BY DEF HereOK, ModuleRecord, SessionRecord, IsCheck
<1>1. CASE OnlyLoses
  <2>1. \A h \in Handle : handle[h].status # "none" => handle'[h].status # "none"
    BY <1>1 DEF OnlyLoses
  <2>2. \A h \in Handle : /\ IsMember(h)' <=> IsMember(h)
                          /\ handle'[h].key = handle[h].key /\ handle'[h].conn = handle[h].conn
    BY <1>1 DEF OnlyLoses, IsMember, isLeader
  <2>3. CASE Leads /\ op.kind = "attempt" /\ op.conn \in Conn
    BY <1>1, <2>3, LeadsEffect DEF OnlyLoses, isLeader
  <2>4. CASE \A m \in Module : {module'[m].ref, module'[m].got} \subseteq
                                 {module[m].ref, module[m].got, Nobody}
    <3>1. \A m \in Module : \A h \in {module'[m].ref, module'[m].got} \ {Nobody} : handle'[h].status # "none"
      BY <1>0, <2>1, <2>4 DEF MadeInv
    <3>2. \A h \in forked' : handle'[h].status # "none"
      BY <1>0, <1>1, <2>1 DEF OnlyLoses, MadeInv
    <3>3. \A h \in Handle : IsMember(h)' => /\ handle'[h].conn \in Conn /\ handle'[h].key \in Key
                                            /\ h \in session'[handle'[h].conn].members
      BY <1>1, <2>2 DEF OnlyLoses, MadeInv
    <3>4. \A h \in Handle : handle'[h].status = "leading" => handle'[h].failures < FailuresBeforeLost
      BY <1>1 DEF OnlyLoses
    <3>5. \A c \in Conn : \A h \in session'[c].members : IsMember(h)' /\ handle'[h].conn = c
      BY <1>0, <1>1, <2>2 DEF OnlyLoses, MadeInv
    <3>6. \A q \in checks' : \A h \in q.members : /\ handle'[h].status # "none"
                                                  /\ IsMember(h)' => handle'[h].conn = q.conn
      BY <1>0, <2>1, <2>2, ChecksNext DEF MadeInv, IsMember
    <3> QED
      BY <3>1, <3>2, <3>3, <3>4, <3>5, <3>6 DEF MadeInv, isLeader
  <2> QED
    BY <2>3, <2>4, RefsNext
<1>2. CASE Leads /\ op.kind = "attempt" /\ op.conn \in Conn /\ UNCHANGED <<forked, checks>>
  <2>1. PICK h \in Handle :
           /\ handle[h].status = "none"
           /\ \A i \in Handle : i # h => handle'[i] = handle[i]
           /\ handle'[h].key \in Key /\ handle'[h].conn = op.conn
           /\ handle'[h].status = "leading" /\ handle'[h].failures = 0
           /\ \A c \in Conn : session'[c].members = IF c = op.conn THEN session[c].members \cup {h}
                                                    ELSE session[c].members
           /\ \A m \in Module : /\ module'[m].ref = module[m].ref
                                /\ module'[m].got \in {module[m].got, h}
    BY <1>2, LeadsEffect
  <2>2. /\ \A i \in Handle : handle[i].status # "none" => handle'[i].status # "none"
        /\ \A i \in Handle : i # h => (IsMember(i)' <=> IsMember(i))
        /\ IsMember(h)' /\ ~ IsMember(h)
    BY <2>1 DEF IsMember
  <2>3. \A m \in Module : \A i \in {module'[m].ref, module'[m].got} \ {Nobody} : handle'[i].status # "none"
    BY <1>0, <2>1, <2>2 DEF MadeInv
  <2>4. \A i \in forked' : handle'[i].status # "none"
    BY <1>0, <1>2, <2>2 DEF MadeInv
  <2>5. \A i \in Handle : IsMember(i)' => /\ handle'[i].conn \in Conn /\ handle'[i].key \in Key
                                          /\ i \in session'[handle'[i].conn].members
    <3>1. handle'[h].conn \in Conn /\ handle'[h].key \in Key /\ h \in session'[handle'[h].conn].members
      BY <1>2, <2>1
    <3>2. ASSUME NEW i \in Handle, i # h, IsMember(i)'
          PROVE  handle'[i].conn \in Conn /\ handle'[i].key \in Key /\ i \in session'[handle'[i].conn].members
      <4>1. IsMember(i) /\ handle'[i] = handle[i]
        BY <2>1, <2>2, <3>2
      <4>2. handle[i].conn \in Conn /\ handle[i].key \in Key /\ i \in session[handle[i].conn].members
        BY <4>1 DEF MadeInv
      <4> QED
        BY <2>1, <4>1, <4>2
    <3> QED
      BY <3>1, <3>2
  <2>6. \A i \in Handle : handle'[i].status = "leading" => handle'[i].failures < FailuresBeforeLost
    BY <2>1, SessionOptions DEF MadeInv, isLeader
  <2>7. ASSUME NEW c \in Conn, NEW i \in session'[c].members PROVE IsMember(i)' /\ handle'[i].conn = c
    <3>1. CASE i = h
      <4>1. c = op.conn
        BY <1>0, <2>1, <2>2, <2>7, <3>1 DEF MadeInv
      <4> QED
        BY <2>1, <2>2, <3>1, <4>1
    <3>2. CASE i # h
      <4>0. session'[c].members \subseteq session[c].members \cup {h}
        BY <2>1
      <4>1. i \in session[c].members /\ i \in Handle
        BY <1>0, <2>7, <3>2, <4>0
      <4>2. IsMember(i) /\ handle[i].conn = c
        BY <4>1 DEF MadeInv
      <4> QED
        BY <2>1, <2>2, <3>2, <4>1, <4>2
    <3> QED
      BY <3>1, <3>2
  <2>8. \A q \in checks' : \A i \in q.members : /\ handle'[i].status # "none"
                                                /\ IsMember(i)' => handle'[i].conn = q.conn
    BY <1>0, <1>2, <2>1, <2>2 DEF MadeInv
  <2> QED
    BY <2>3, <2>4, <2>5, <2>6, <2>7, <2>8 DEF MadeInv, isLeader
<1>3. ASSUME NEW h \in Handle, NEW by \in Module \cup {Nobody}, Releases(h, by) PROVE MadeInv'
  <2>1. /\ \A i \in Handle : i # h => handle'[i] = handle[i]
        /\ handle'[h].status = "closed"
        /\ \A c \in Conn : session'[c].members = session[c].members \ {h}
        /\ forked' \subseteq forked
    BY <1>3, ReleasesEffect
  <2>2. /\ \A i \in Handle : handle[i].status # "none" => handle'[i].status # "none"
        /\ \A i \in Handle : i # h => (IsMember(i)' <=> IsMember(i))
        /\ ~ IsMember(h)'
    BY <2>1 DEF IsMember
  <2>3. \A m \in Module : {module'[m].ref, module'[m].got} \subseteq {module[m].ref, module[m].got, Nobody}
    <3>1. op.kind # "attempt"
      BY <1>3, OpKinds DEF Releases
    <3> QED
      BY <3>1, RefsNext
  <2>4. \A m \in Module : \A i \in {module'[m].ref, module'[m].got} \ {Nobody} : handle'[i].status # "none"
    BY <1>0, <2>2, <2>3 DEF MadeInv
  <2>5. \A i \in forked' : handle'[i].status # "none"
    BY <1>0, <2>1, <2>2 DEF MadeInv
  <2>6. \A i \in Handle : IsMember(i)' => /\ handle'[i].conn \in Conn /\ handle'[i].key \in Key
                                          /\ i \in session'[handle'[i].conn].members
    BY <2>1, <2>2 DEF MadeInv
  <2>7. \A i \in Handle : handle'[i].status = "leading" => handle'[i].failures < FailuresBeforeLost
    BY <2>1 DEF MadeInv, isLeader
  <2>8. \A c \in Conn : \A i \in session'[c].members : IsMember(i)' /\ handle'[i].conn = c
    BY <1>0, <2>1, <2>2 DEF MadeInv
  <2>9. \A q \in checks' : \A i \in q.members : /\ handle'[i].status # "none"
                                                /\ IsMember(i)' => handle'[i].conn = q.conn
    BY <1>0, <1>3, <2>1, <2>2 DEF MadeInv, Releases
  <2> QED
    BY <2>4, <2>5, <2>6, <2>7, <2>8, <2>9 DEF MadeInv, isLeader
<1> QED
  BY <1>1, <1>2, <1>3, OtherSteps, ReservesLosesNone

-----------------------------------------------------------------------------
(* Where the leaders are.                                                     *)

(* Whoever leads after the step led before, on a session still in use; no     *)
(* session with members is closed.                                            *)
KeepsHome ==
  /\ \A h \in Handle : isLeader(h)' => current' = current /\ InUse(current)'
  /\ \A c \in Conn : session[c].members # {} =>
       session'[c].phase = "open" \/ (session'[c].phase = "retired" /\ session'[c].abandoned)

LEMMA SameHome ==
  ASSUME HomeInv, OnlyLoses, UNCHANGED <<session, current>>
  PROVE  KeepsHome
BY DEF HomeInv, OnlyLoses, KeepsHome, isLeader, InUse

LEMMA CloseHome ==
  ASSUME HereOK, MadeInv, HomeInv, NEW c \in Conn, closeSession(c), session[c].members = {},
         UNCHANGED <<handle, current>>
  PROVE  KeepsHome
<1>1. ASSUME NEW h \in Handle, isLeader(h)' PROVE current' = current /\ InUse(current)'
  <2>1. handle[h].conn = current /\ InUse(current) /\ current \in Conn /\ h \in session[current].members
    BY <1>1 DEF isLeader, HomeInv, MadeInv, IsMember
  <2>2. session'[current] = session[current]
    BY <2>1, CloseEffect
  <2> QED
    BY <2>1, <2>2 DEF InUse
<1>2. ASSUME NEW d \in Conn, session[d].members # {}
      PROVE  session'[d].phase = "open" \/ (session'[d].phase = "retired" /\ session'[d].abandoned)
  BY <1>2, CloseEffect DEF HomeInv
<1> QED
  BY <1>1, <1>2 DEF KeepsHome

LEMMA HomeNext ==
  ASSUME HereOK, MadeInv, HomeInv, PermitInv, Next
  PROVE  \/ OnlyLoses /\ KeepsHome
         \/ Leads /\ op.kind = "attempt" /\ op.conn \in Conn /\ op.pc \in {"lock", "lease"}
         \/ \E h \in Handle, by \in Module \cup {Nobody} : Releases(h, by)
<1> DEFINE Grows == \/ Leads /\ op.kind = "attempt" /\ op.conn \in Conn /\ op.pc \in {"lock", "lease"}
                    \/ \E h \in Handle, by \in Module \cup {Nobody} : Releases(h, by)
<1>s. UNCHANGED <<session, current>> => Grows \/ (OnlyLoses /\ KeepsHome)
  <2>1. Leads /\ op.kind = "attempt" /\ op.conn \in Conn => ~ UNCHANGED session
    <3>1. ASSUME Leads, op.kind = "attempt", op.conn \in Conn, UNCHANGED session PROVE FALSE
      <4>1. PICK h \in Handle : handle[h].status = "none" /\ h \in session'[op.conn].members
        BY <3>1, LeadsEffect
      <4> QED
        BY <3>1, <4>1 DEF MadeInv, IsMember
    <3> QED
      BY <3>1
  <2> QED
    BY <2>1, OtherSteps, ReservesLosesNone, SameHome
<1>l. \A c \in Conn : loseAll(c) /\ UNCHANGED <<session, current>> => OnlyLoses /\ KeepsHome
  BY LossOfOne, SameHome
<1>c. \A c \in Conn : closeSession(c) /\ session[c].members = {} /\ UNCHANGED <<handle, forked, current>>
        => OnlyLoses /\ KeepsHome
  <2>1. ASSUME NEW c \in Conn, closeSession(c), session[c].members = {}, UNCHANGED <<handle, forked, current>>
        PROVE  OnlyLoses /\ KeepsHome
    BY <2>1, CloseEffect, CloseHome, NoLoss
  <2> QED
    BY <2>1
<1>1. CASE Begins
  <2>1. OnlyLoses /\ UNCHANGED <<session, handle>> /\ current' = Live
    BY <1>1, NoLoss, BeginsEffect
  <2>2. ASSUME NEW h \in Handle, isLeader(h)' PROVE current' = current /\ InUse(current)'
    <3>1. isLeader(h) /\ handle[h].conn = current /\ InUse(current) /\ h \in session[current].members
      BY <2>1, <2>2 DEF isLeader, HomeInv, MadeInv, IsMember
    <3>2. Live = current
      BY <3>1 DEF Live, Leaders
    <3> QED
      BY <2>1, <3>1, <3>2 DEF InUse
  <2> QED
    BY <2>1, <2>2 DEF KeepsHome, HomeInv
<1>2. CASE Reserves
  <2>1. PICK c \in Conn : /\ session[c].phase \in {"unused", "pooled"}
                          /\ \A d \in Conn : d # c => session'[d] = session[d]
    BY <1>2, ReservesEffect
  <2>2. OnlyLoses /\ UNCHANGED <<handle, current>>
    BY <1>2, ReservesLosesNone DEF Reserves
  <2>3. ASSUME NEW h \in Handle, isLeader(h)' PROVE current' = current /\ InUse(current)'
    <3>1. handle[h].conn = current /\ InUse(current) /\ current \in Conn
      BY <2>2, <2>3 DEF isLeader, HomeInv, MadeInv, IsMember
    <3> QED
      BY <2>1, <2>2, <3>1 DEF InUse
  <2> QED
    BY <2>1, <2>2, <2>3 DEF KeepsHome, HomeInv
<1>3. CASE LockAnswered
  <2>1. op.fresh => session[op.conn].members = {}
    BY <1>3, LockAnsweredKinds DEF PermitInv
  <2> QED
    BY <1>3, <1>s, <1>c, <2>1, LockAnsweredKinds
<1>4. CASE LeaseAnswered
  BY <1>4, OnItsConnection DEF LeaseAnswered, Trying
<1>5. CASE StatementFails
  <2>1. op.fresh => session[op.conn].members = {}
    BY <1>5, StatementFailsKinds DEF PermitInv
  <2> QED
    BY <1>5, <1>l, <1>c, <2>1, StatementFailsKinds
<1>6. CASE Abandons
  <2>1. /\ op.conn \in Conn /\ loseAll(op.conn) /\ UNCHANGED current
        /\ \A d \in Conn : /\ session'[d].members = session[d].members
                           /\ session'[d].phase = session[d].phase
                           /\ session'[d].abandoned = (d = op.conn \/ session[d].abandoned)
    BY <1>6, AbandonsEffect
  <2>2. OnlyLoses
    BY <2>1, LossOfOne
  <2>3. ASSUME NEW h \in Handle, isLeader(h)' PROVE current' = current /\ InUse(current)'
    <3>1. isLeader(h) /\ h \notin Leaders(op.conn)
      BY <2>1, <2>3, LoseEffect DEF isLeader
    <3>2. handle[h].conn = current /\ InUse(current) /\ current \in Conn /\ h \in session[current].members
      BY <3>1 DEF isLeader, HomeInv, MadeInv, IsMember
    <3>3. current # op.conn
      BY <3>1, <3>2 DEF Leaders
    <3> QED
      BY <2>1, <3>2, <3>3 DEF InUse
  <2> QED
    BY <2>1, <2>2, <2>3 DEF KeepsHome, HomeInv
<1>7. CASE Closes
  <2>1. op.conn \in Conn /\ session[op.conn].members = {}
    BY <1>7, OpKinds DEF Closes, Releasing, PermitInv
  <2> QED
    BY <1>7, <1>c, <2>1 DEF Closes
<1>8. ASSUME NEW m \in Module, Stops(m) PROVE Grows \/ (OnlyLoses /\ KeepsHome)
  BY <1>8, <1>s, <1>l, <1>c, InterruptEffect DEF Stops
<1>9. ASSUME NEW c \in Conn, Retires(c) PROVE OnlyLoses /\ KeepsHome
  <2>0. session \in [Conn -> SessionRecord]
    BY DEF HereOK
  <2>1. /\ session[c].abandoned /\ session[c].phase = "open" /\ UNCHANGED <<handle, forked, current>>
        /\ \A d \in Conn : d # c => session'[d] = session[d]
        /\ session'[c].members = session[c].members /\ session'[c].phase = "retired"
        /\ session'[c].abandoned = session[c].abandoned
    BY <1>9, <2>0 DEF Retires, SessionRecord
  <2>2. OnlyLoses
    BY <2>1, NoLoss
  <2>3. ASSUME NEW h \in Handle, isLeader(h)' PROVE current' = current /\ InUse(current)'
    <3>1. handle[h].conn = current /\ InUse(current) /\ current \in Conn
      BY <2>1, <2>3 DEF isLeader, HomeInv, MadeInv, IsMember
    <3> QED
      BY <2>1, <3>1 DEF InUse
  <2> QED
    BY <2>1, <2>2, <2>3 DEF KeepsHome, HomeInv
<1>10. CASE \/ ReserveTimesOut \/ Unlocks
            \/ \E m \in Module : Retries(m) \/ SetsRef(m) \/ TakesPermit(m)
            \/ \E h \in Handle : Verify(h)
            \/ \E q \in checks : ServerAnswers(q) \/ CheckApplies(q)
            \/ \E c \in Conn : \/ Heartbeat(c) \/ LateRuns(c) \/ HearsOfEnd(c)
                               \/ Dies(c) \/ FallsSilent(c) \/ Recovers(c)
            \/ \E k \in Key : AnotherTakes(k) \/ AnotherGives(k)
  <2>1. UNCHANGED <<session, current>>
    BY <1>10 DEF ReserveTimesOut, Unlocks, Retries, SetsRef, TakesPermit, Verify, Checks, ServerAnswers,
       CheckApplies, Heartbeat, LateRuns, HearsOfEnd, Dies, FallsSilent, Recovers, AnotherTakes, AnotherGives, here
  <2> QED
    BY <1>s, <2>1
<1>11. CASE \E h \in Handle, by \in Module \cup {Nobody} : Releases(h, by)
  BY <1>11
<1> QED
  BY <1>1, <1>2, <1>3, <1>4, <1>5, <1>6, <1>7, <1>8, <1>9, <1>10, <1>11, StepKinds

LEMMA HomeStep ==
  ASSUME HereOK, HereOK', MadeInv, HomeInv, PermitInv, Next
  PROVE  HomeInv'
<1>0. /\ \A c \in Conn : session[c].members \subseteq Handle
      /\ \A c \in Conn : session'[c].members \subseteq Handle
  BY DEF HereOK, SessionRecord
<1>1. CASE OnlyLoses /\ KeepsHome
  <2>1. \A h \in Handle : isLeader(h)' => handle'[h].conn = current' /\ InUse(current)'
    BY <1>1 DEF OnlyLoses, KeepsHome, HomeInv, isLeader
  <2>2. \A c \in Conn : \A h, i \in session'[c].members : handle'[h].key = handle'[i].key => h = i
    BY <1>0, <1>1 DEF OnlyLoses, HomeInv
  <2>3. \A c \in Conn : session'[c].members # {} =>
          session'[c].phase = "open" \/ (session'[c].phase = "retired" /\ session'[c].abandoned)
    BY <1>1 DEF OnlyLoses, KeepsHome
  <2> QED
    BY <2>1, <2>2, <2>3 DEF HomeInv
<1>2. CASE Leads /\ op.kind = "attempt" /\ op.conn \in Conn /\ op.pc \in {"lock", "lease"}
  <2>1. PICK h \in Handle :
           /\ handle[h].status = "none"
           /\ \A i \in Handle : i # h => handle'[i] = handle[i]
           /\ handle'[h].key = KeyOf[op.by] /\ handle'[h].conn = op.conn
           /\ \A c \in Conn : /\ session'[c].phase = session[c].phase
                              /\ session'[c].abandoned = session[c].abandoned
                              /\ session'[c].members = IF c = op.conn THEN session[c].members \cup {h}
                                                       ELSE session[c].members
           /\ current' = op.conn
    BY <1>2, LeadsEffect
  <2>2. /\ InUse(op.conn)
        /\ op.fresh => current = Nobody /\ session[op.conn].members = {}
        /\ ~ op.fresh => op.conn = current
        /\ \A i \in session[op.conn].members : handle[i].key # KeyOf[op.by]
    BY <1>2 DEF PermitInv
  <2>3. InUse(current)'
    BY <1>2, <2>1, <2>2 DEF InUse
  <2>4. ASSUME NEW i \in Handle, isLeader(i)' PROVE handle'[i].conn = current'
    <3>1. CASE i = h
      BY <2>1, <3>1
    <3>2. CASE i # h
      <4>1. isLeader(i) /\ handle'[i] = handle[i]
        BY <2>1, <2>4, <3>2 DEF isLeader
      <4>2. handle[i].conn = current /\ current \in Conn
        BY <4>1 DEF HomeInv, MadeInv, IsMember, isLeader
      <4>3. current = op.conn
        BY <2>2, <4>2, SessionOptions
      <4> QED
        BY <2>1, <4>1, <4>2, <4>3
    <3> QED
      BY <3>1, <3>2
  <2>5. ASSUME NEW c \in Conn, NEW i \in session'[c].members, NEW j \in session'[c].members,
               handle'[i].key = handle'[j].key
        PROVE  i = j
    <3>0. i \in Handle /\ j \in Handle /\ h \notin session[c].members
      BY <1>0, <2>1 DEF MadeInv, IsMember
    <3>1. CASE i \in session[c].members /\ j \in session[c].members
      BY <2>1, <2>5, <3>0, <3>1 DEF HomeInv
    <3>2. CASE i \notin session[c].members \/ j \notin session[c].members
      <4>1. c = op.conn /\ session'[c].members = session[op.conn].members \cup {h}
        BY <2>1, <3>2
      <4>2. i # h => i \in session[op.conn].members /\ handle'[i].key # KeyOf[op.by]
        BY <2>1, <2>2, <3>0, <4>1
      <4>3. j # h => j \in session[op.conn].members /\ handle'[j].key # KeyOf[op.by]
        BY <2>1, <2>2, <3>0, <4>1
      <4> QED
        BY <2>1, <2>5, <3>2, <4>1, <4>2, <4>3
    <3> QED
      BY <3>1, <3>2
  <2>6. \A c \in Conn : session'[c].members # {} =>
          session'[c].phase = "open" \/ (session'[c].phase = "retired" /\ session'[c].abandoned)
    <3>1. session'[op.conn].phase = "open"
      BY <1>2, <2>1, <2>2 DEF InUse
    <3>2. ASSUME NEW c \in Conn, c # op.conn, session'[c].members # {}
          PROVE  session'[c].phase = "open" \/ (session'[c].phase = "retired" /\ session'[c].abandoned)
      <4>1. session'[c].phase = session[c].phase /\ session'[c].abandoned = session[c].abandoned
        BY <2>1
      <4>2. session[c].members # {}
        BY <2>1, <3>2
      <4>3. session[c].phase = "open" \/ (session[c].phase = "retired" /\ session[c].abandoned)
        BY <4>2 DEF HomeInv
      <4> QED
        BY <4>1, <4>3
    <3> QED
      BY <3>1, <3>2
  <2> QED
    BY <2>3, <2>4, <2>5, <2>6 DEF HomeInv
<1>3. ASSUME NEW h \in Handle, NEW by \in Module \cup {Nobody}, Releases(h, by) PROVE HomeInv'
  <2>1. /\ \A i \in Handle : i # h => handle'[i] = handle[i]
        /\ handle'[h].status = "closed"
        /\ \A c \in Conn : /\ session'[c].phase = session[c].phase
                           /\ session'[c].abandoned = session[c].abandoned
                           /\ session'[c].members = session[c].members \ {h}
        /\ current' = current
    BY <1>3, ReleasesEffect DEF Releases
  <2>2. ASSUME NEW i \in Handle, isLeader(i)' PROVE handle'[i].conn = current' /\ InUse(current)'
    <3>1. i # h /\ isLeader(i)
      BY <2>1, <2>2 DEF isLeader
    <3>2. handle[i].conn = current /\ InUse(current) /\ current \in Conn
      BY <3>1 DEF HomeInv, MadeInv, IsMember, isLeader
    <3> QED
      BY <2>1, <3>1, <3>2 DEF InUse
  <2>3. \A c \in Conn : \A i, j \in session'[c].members : handle'[i].key = handle'[j].key => i = j
    BY <1>0, <2>1 DEF HomeInv
  <2>4. \A c \in Conn : session'[c].members # {} =>
          session'[c].phase = "open" \/ (session'[c].phase = "retired" /\ session'[c].abandoned)
    BY <2>1 DEF HomeInv
  <2> QED
    BY <2>2, <2>3, <2>4 DEF HomeInv
<1> QED
  BY <1>1, <1>2, <1>3, HomeNext

-----------------------------------------------------------------------------
(* What is under way under the permit.                                        *)

LEMMA PermitSame ==
  ASSUME HereOK, PermitInv, OnlyLoses, UNCHANGED <<op, current>>,
         \A c \in Conn : InUse(c) => session'[c].phase = "open" /\ ~ session'[c].abandoned
  PROVE  PermitInv'
<1>0. /\ \A c \in Conn : session[c].members \subseteq Handle
      /\ op.kind = "release" => op.conn \in Conn
  BY OpKinds DEF HereOK, SessionRecord, Releasing
<1>1. /\ \A c \in Conn : session'[c].members = session[c].members
      /\ \A h \in Handle : handle'[h].key = handle[h].key
  BY DEF OnlyLoses
<1>2. op.kind = "attempt" /\ op.pc = "lock" /\ ~ op.fresh => current \in Conn
  BY DEF PermitInv
<1> QED
  BY <1>0, <1>1, <1>2 DEF PermitInv, InUse

LEMMA PermitFree ==
  ASSUME op' = NoOp
  PROVE  PermitInv'
BY DEF PermitInv, NoOp

LEMMA PermitStep ==
  ASSUME HereOK, MadeInv, HomeInv, PermitInv, Next
  PROVE  PermitInv'
<1>0. /\ \A c \in Conn : session[c].members \subseteq Handle
      /\ session \in [Conn -> SessionRecord]
  BY DEF HereOK, SessionRecord
<1>1. CASE Begins
  <2>1. /\ op' = NoOp
        \/ /\ ~ Refused /\ op'.kind = "attempt" /\ op'.by = op.by /\ op'.fresh = op.fresh /\ op'.conn = Live
           /\ op'.pc = IF Live = Nobody THEN "reserve" ELSE "lock"
    BY <1>1, EmptyType, BeginsEffect
  <2>2. /\ op.kind = "attempt" /\ op.pc = "begin" /\ current' = Live /\ Live \in Conn \cup {Nobody}
        /\ UNCHANGED <<session, handle>>
    BY <1>1, BeginsEffect
  <2>3. ~ op.fresh
    BY <2>2 DEF PermitInv
  <2>4. CASE ~ Refused /\ op'.kind = "attempt" /\ op'.by = op.by /\ op'.fresh = op.fresh /\ op'.conn = Live
             /\ op'.pc = (IF Live = Nobody THEN "reserve" ELSE "lock")
    <3>1. CASE Live = Nobody
      BY <2>2, <2>3, <2>4, <3>1 DEF PermitInv
    <3>2. CASE Live # Nobody
      <4>1. Live = current /\ Live \in Conn /\ \E h \in Handle : h \in session[current].members /\ isLeader(h)
        BY <1>0, <2>2, <3>2 DEF Live, Leaders
      <4>2. InUse(Live)
        BY <4>1 DEF HomeInv
      <4>3. \A h \in session[Live].members : handle[h].key # KeyOf[op.by]
        BY <2>4, <3>2 DEF Refused
      <4> QED
        BY <2>2, <2>3, <2>4, <3>2, <4>1, <4>2, <4>3 DEF PermitInv, InUse
    <3> QED
      BY <3>1, <3>2
  <2> QED
    BY <2>1, <2>4, PermitFree
<1>2. CASE Reserves
  <2>1. PICK c \in Conn : /\ op \in Attempting /\ op.pc = "reserve"
                          /\ session'[c].phase = "open" /\ session'[c].members = {} /\ ~ session'[c].abandoned
                          /\ op'.kind = "attempt" /\ op'.by = op.by
                          /\ op'.pc = "lock" /\ op'.conn = c /\ op'.fresh
    BY <1>2, ReservesEffect
  <2>2. current' = Nobody
    BY <1>2, <2>1 DEF Reserves, Trying, PermitInv
  <2> QED
    BY <2>1, <2>2 DEF PermitInv, InUse
<1>3. CASE LockAnswered
  <2>1. CASE op.fresh /\ op' = [op EXCEPT !.pc = "lease"] /\ UNCHANGED <<module, current, session, handle>>
    <3>1. op.kind = "attempt" /\ op.pc = "lock" /\ op.conn \in Conn
      BY <1>3, LockAnsweredKinds
    <3>2. /\ op'.kind = "attempt" /\ op'.by = op.by /\ op'.pc = "lease" /\ op'.conn = op.conn
          /\ op'.fresh = op.fresh
      BY <2>1, <3>1, AttemptType
    <3>3. current = Nobody /\ session[op.conn].members = {} /\ InUse(op.conn)
      BY <2>1, <3>1 DEF PermitInv
    <3> QED
      BY <2>1, <3>1, <3>2, <3>3 DEF PermitInv, InUse
  <2>2. CASE Leads \/ EndsEmpty
    BY <2>2, PermitFree DEF Leads, EndsEmpty
  <2> QED
    BY <1>3, <2>1, <2>2, LockAnsweredKinds
<1>4. CASE StatementFails
  <2>1. CASE EndsEmpty
    BY <2>1, PermitFree DEF EndsEmpty
  <2>2. CASE ~ op.fresh /\ op' = [op EXCEPT !.pc = "begin", !.conn = Nobody, !.retried = TRUE]
    <3>1. op.kind = "attempt"
      BY <1>4, StatementFailsKinds
    <3>2. op'.kind = "attempt" /\ op'.pc = "begin" /\ op'.fresh = op.fresh
      BY <2>2, <3>1, AttemptType
    <3> QED
      BY <2>2, <3>2 DEF PermitInv
  <2> QED
    BY <1>4, <2>1, <2>2, StatementFailsKinds
<1>5. CASE ReserveTimesOut \/ LeaseAnswered \/ Abandons \/ Closes
  BY <1>5, PermitFree DEF ReserveTimesOut, LeaseAnswered, Abandons, Closes, Leads, EndsEmpty
<1>6. CASE Unlocks
  <2>1. op \in Releasing /\ op.kind = "release" /\ UNCHANGED <<session, handle>>
    BY <1>6, OpKinds DEF Unlocks
  <2>2. CASE op' = [op EXCEPT !.pc = "close"] /\ session[op.conn].members = {}
    <3>1. op'.kind = "release" /\ op'.pc = "close" /\ op'.conn = op.conn
      BY <2>1, <2>2 DEF Releasing
    <3>2. InUse(op.conn)
      BY <2>1 DEF PermitInv
    <3> QED
      BY <2>1, <2>2, <3>1, <3>2 DEF PermitInv, InUse
  <2> QED
    BY <1>6, <2>2, PermitFree DEF Unlocks
<1>7. ASSUME NEW h \in Handle, NEW by \in Module \cup {Nobody}, Releases(h, by) PROVE PermitInv'
  <2>1. CASE /\ IsMember(h) /\ ~ session[handle[h].conn].abandoned
             /\ op' = [kind |-> "release", by |-> by, conn |-> handle[h].conn,
                       key |-> handle[h].key, pc |-> "unlock"]
    <3> DEFINE c == handle[h].conn
               k == handle[h].key
    <3>1. c \in Conn /\ h \in session[c].members
      BY <2>1 DEF MadeInv
    <3>2. InUse(c)
      BY <2>1, <3>1 DEF HomeInv, InUse
    <3>3. \A i \in session[c].members : i # h => handle[i].key # k
      BY <3>1 DEF HomeInv
    <3>4. /\ session'[c].phase = session[c].phase /\ session'[c].abandoned = session[c].abandoned
          /\ session'[c].members = session[c].members \ {h}
          /\ \A i \in Handle : i # h => handle'[i] = handle[i]
      BY <1>7, <3>1, ReleasesEffect
    <3>5. /\ op'.kind = "release" /\ op'.pc = "unlock" /\ op'.conn = c /\ op'.key = k
      BY <2>1
    <3>6. \A i \in session'[c].members : handle'[i].key # k
      BY <1>0, <3>1, <3>3, <3>4
    <3> HIDE DEF c, k
    <3> QED
      BY <3>2, <3>4, <3>5, <3>6 DEF PermitInv, InUse
  <2> QED
    BY <1>7, <2>1, PermitFree, ReleasesEffect
<1>8. ASSUME NEW m \in Module, Stops(m) PROVE PermitInv'
  <2>1. CASE op' = NoOp
    BY <2>1, PermitFree
  <2>2. CASE op' # NoOp
    <3>1. UNCHANGED <<op, current, session, handle, forked>>
      BY <1>8, <2>2, InterruptEffect DEF Stops
    <3>2. OnlyLoses
      BY <3>1, NoLoss
    <3> QED
      BY <3>1, <3>2, PermitSame DEF InUse
  <2> QED
    BY <2>1, <2>2
<1>9. ASSUME NEW m \in Module, Retries(m) \/ SetsRef(m) PROVE PermitInv'
  <2>1. UNCHANGED <<op, current, session, handle, forked>>
    BY <1>9 DEF Retries, SetsRef
  <2> QED
    BY <2>1, NoLoss, PermitSame DEF InUse
<1>10. ASSUME NEW m \in Module, TakesPermit(m) PROVE PermitInv'
  <2>1. op'.kind = "attempt" /\ op'.pc = "begin" /\ ~ op'.fresh
    BY <1>10 DEF TakesPermit
  <2> QED
    BY <2>1 DEF PermitInv
<1>11. ASSUME NEW c \in Conn, Retires(c) PROVE PermitInv'
  <2>1. /\ session[c].abandoned /\ UNCHANGED <<op, current, handle, forked>>
        /\ \A d \in Conn : d # c => session'[d] = session[d]
        /\ session'[c].members = session[c].members
    BY <1>0, <1>11 DEF Retires, SessionRecord
  <2>2. OnlyLoses
    BY <2>1, NoLoss
  <2>3. \A d \in Conn : InUse(d) => session'[d].phase = "open" /\ ~ session'[d].abandoned
    BY <2>1 DEF InUse
  <2> QED
    BY <2>1, <2>2, <2>3, PermitSame
<1>12. CASE \E q \in checks : CheckApplies(q)
  <2>1. UNCHANGED <<op, current, session>>
    BY <1>12 DEF CheckApplies
  <2>2. OnlyLoses
    BY <1>12, <2>1, CheckEffect DEF OnlyLoses
  <2> QED
    BY <2>1, <2>2, PermitSame DEF InUse
<1>13. CASE \/ \E h \in Handle : Verify(h)
            \/ \E q \in checks : ServerAnswers(q)
            \/ \E c \in Conn : \/ Heartbeat(c) \/ LateRuns(c) \/ HearsOfEnd(c)
                               \/ Dies(c) \/ FallsSilent(c) \/ Recovers(c)
            \/ \E k \in Key : AnotherTakes(k) \/ AnotherGives(k)
  <2>1. UNCHANGED <<op, current, session, handle, forked>>
    BY <1>13 DEF Verify, Checks, ServerAnswers, Heartbeat, LateRuns, HearsOfEnd, Dies, FallsSilent, Recovers,
       AnotherTakes, AnotherGives, here
  <2> QED
    BY <2>1, NoLoss, PermitSame DEF InUse
<1> QED
  BY <1>1, <1>2, <1>3, <1>4, <1>5, <1>6, <1>7, <1>8, <1>9, <1>10, <1>11, <1>12, <1>13, StepKinds

-----------------------------------------------------------------------------
(* The invariant holds.                                                       *)

LEMMA SharedInit ==
  Init => SharedInv
<1> SUFFICES ASSUME Init PROVE SharedInv
  OBVIOUS
<1>1. Unused \in SessionRecord /\ Unused.members = {} /\ Unused.phase = "unused"
  BY DEF Unused, SessionRecord
<1>2. Unmade \in HandleRecord /\ Unmade.status = "none"
  BY SessionOptions DEF Unmade, HandleRecord
<1>3. [pc |-> "loop", ref |-> Nobody, got |-> Nobody] \in ModuleRecord
  BY DEF ModuleRecord
<1>4. HereOK
  BY <1>1, <1>2, <1>3 DEF Init, HereOK
<1>5. ThereOK
  BY SessionOptions DEF Init, ThereOK
<1>6. /\ \A h \in Handle : handle[h].status = "none"
      /\ \A c \in Conn : session[c].members = {} /\ session[c].phase = "unused"
      /\ \A m \in Module : module[m].ref = Nobody /\ module[m].got = Nobody
      /\ forked = {} /\ checks = {} /\ op.kind = "none"
  BY <1>1, <1>2 DEF Init, NoOp
<1> QED
  BY <1>4, <1>5, <1>6, TypeHalves DEF SharedInv, MadeInv, HomeInv, PermitInv, IsMember, isLeader

LEMMA SharedStep ==
  SharedInv /\ [Next]_vars => SharedInv'
<1> SUFFICES ASSUME SharedInv, [Next]_vars PROVE SharedInv'
  OBVIOUS
<1>1. HereOK /\ ThereOK /\ MadeInv /\ HomeInv /\ PermitInv
  BY TypeHalves DEF SharedInv
<1>2. CASE Next
  <2>1. HereOK' /\ ThereOK'
    BY <1>1, <1>2, HereStep, ThereStep
  <2>2. MadeInv' /\ HomeInv' /\ PermitInv'
    BY <1>1, <1>2, <2>1, MadeStep, HomeStep, PermitStep
  <2>3. SessionTypeOK'
    BY <2>1 DEF SessionTypeOK, HereOK, ThereOK, ModuleRecord, SessionRecord, HandleRecord, IsCheck
  <2> QED
    BY <2>2, <2>3 DEF SharedInv
<1>3. CASE UNCHANGED vars
  BY <1>3 DEF vars, here, there, SharedInv, SessionTypeOK, MadeInv, HomeInv, PermitInv, IsMember, isLeader, InUse
<1> QED
  BY <1>2, <1>3

(* Whatever fails, is stopped or comes late, the leaders of a process are     *)
(* members of its one current session, and what runs under the permit finds   *)
(* its connection open and its key free: the shared state of Sessions         *)
(* (Leader.ts) stays consistent although checks, the server and stops do not  *)
(* take the permit.                                                           *)
THEOREM SessionStaysShared ==
  Spec => []SharedInv
BY SharedInit, SharedStep, PTL DEF Spec

(* Two modules of a process never both lead on one key (Leader.ts, ADR-0046), *)
(* although the server would grant the lock to their session twice.           *)
THEOREM OneLeads ==
  Spec => []OneLeaderOfAKey
<1>1. SharedInv => OneLeaderOfAKey
  <2> SUFFICES ASSUME SharedInv, NEW h \in Handle, NEW i \in Handle, isLeader(h), isLeader(i),
                      handle[h].key = handle[i].key
               PROVE  h = i
    BY DEF OneLeaderOfAKey
  <2>1. handle[h].conn = current /\ handle[i].conn = current
    BY DEF SharedInv, HomeInv
  <2>2. current \in Conn /\ h \in session[current].members /\ i \in session[current].members
    BY <2>1 DEF SharedInv, MadeInv, IsMember, isLeader
  <2> QED
    BY <2>2 DEF SharedInv, HomeInv
<1> QED
  BY <1>1, SessionStaysShared, PTL

-----------------------------------------------------------------------------
(* What a connection holds, where no module is stopped.                       *)

(* The step under the permit that took a key, or gives it back.               *)
OpHolds(c, k) ==
  \/ op.kind = "attempt" /\ op.pc = "lease" /\ op.conn = c /\ KeyOf[op.by] = k
  \/ op.kind = "release" /\ op.pc = "unlock" /\ op.conn = c /\ op.key = k

(* Why a connection has a lock.                                               *)
HeldFor(c, k) ==
  \/ \E h \in session[c].members : handle[h].key = k
  \/ OpHolds(c, k)
  \/ <<"unlock", k>> \in late[c]
  \/ session[c].abandoned
  \/ session[c].phase = "retired"

CleanInv ==
  /\ \A c \in Conn : link[c] = "dead" => late[c] = {} /\ \A k \in Key : lock[k] # c
  /\ \A c \in Conn : session[c].phase \in {"unused", "pooled"} =>
       late[c] = {} /\ ~ session[c].abandoned /\ ~ session[c].leased
  /\ \A c \in Conn, k \in Key : <<"lock", k>> \in late[c] => session[c].abandoned
  /\ \A c \in Conn, k \in Key : lock[k] = c => HeldFor(c, k)

LEMMA HeldKept ==
  ASSUME HereOK, OnlyLoses, NEW c \in Conn, NEW k \in Key, HeldFor(c, k),
         OpHolds(c, k) => OpHolds(c, k)',
         session[c].abandoned => session'[c].abandoned,
         session[c].phase = "retired" => session'[c].phase = "retired",
         <<"unlock", k>> \in late[c] => <<"unlock", k>> \in late'[c]
  PROVE  HeldFor(c, k)'
<1>1. session[c].members \subseteq Handle
  BY DEF HereOK, SessionRecord
<1>2. (\E h \in session[c].members : handle[h].key = k) => \E h \in session'[c].members : handle'[h].key = k
  BY <1>1 DEF OnlyLoses
<1> QED
  BY <1>2 DEF HeldFor

(* A step that leaves the connections alone and keeps why they hold a lock.   *)
LEMMA CleanSame ==
  ASSUME HereOK, CleanInv, OnlyLoses, UNCHANGED <<session, link, late, lock>>,
         \A c \in Conn, k \in Key : lock[k] = c => (OpHolds(c, k) => OpHolds(c, k)')
  PROVE  CleanInv'
<1>1. ASSUME NEW c \in Conn, NEW k \in Key, lock[k] = c PROVE HeldFor(c, k)'
  <2>1. HeldFor(c, k)
    BY <1>1 DEF CleanInv
  <2> QED
    BY <1>1, <2>1, HeldKept
<1> QED
  BY <1>1 DEF CleanInv

(* The connection the permit's step is on is closed: nothing is held on it    *)
(* any more, or it is not used again.                                         *)
LEMMA CleanClose ==
  ASSUME HereOK, CleanInv, NEW c \in Conn, closeSession(c), InUse(c), session[c].members = {},
         op.conn = c, op' = NoOp, UNCHANGED <<handle, link, late, lock>>,
         link[c] = "up" => late[c] = {} /\ op.pc \notin {"lease", "unlock"}
  PROVE  CleanInv'
<1>1. /\ \A d \in Conn : /\ session'[d].members = session[d].members
                         /\ session'[d].abandoned = session[d].abandoned
                         /\ d # c => session'[d] = session[d]
      /\ session'[c].phase = IF link[c] = "up" THEN "pooled" ELSE "retired"
      /\ link[c] = "up" => ~ session'[c].leased
  BY CloseEffect
<1>2. ASSUME NEW d \in Conn, session'[d].phase \in {"unused", "pooled"}
      PROVE  late'[d] = {} /\ ~ session'[d].abandoned /\ ~ session'[d].leased
  <2>1. CASE d = c
    BY <1>1, <1>2, <2>1 DEF InUse
  <2>2. CASE d # c
    BY <1>1, <1>2, <2>2 DEF CleanInv
  <2> QED
    BY <2>1, <2>2
<1>3. ASSUME NEW d \in Conn, NEW k \in Key, lock'[k] = d PROVE HeldFor(d, k)'
  <2>1. HeldFor(d, k)
    BY <1>3 DEF CleanInv
  <2>2. CASE d = c /\ link[c] = "up"
    BY <2>1, <2>2 DEF HeldFor, OpHolds, InUse
  <2>3. CASE d = c /\ link[c] # "up"
    BY <1>1, <2>3 DEF HeldFor
  <2>4. CASE d # c
    BY <1>1, <2>1, <2>4 DEF HeldFor, OpHolds
  <2> QED
    BY <2>2, <2>3, <2>4
<1>4. \A d \in Conn : link'[d] = "dead" => late'[d] = {} /\ \A k \in Key : lock'[k] # d
  BY DEF CleanInv
<1>5. \A d \in Conn, k \in Key : <<"lock", k>> \in late'[d] => session'[d].abandoned
  BY <1>1 DEF CleanInv
<1> QED
  BY <1>2, <1>3, <1>4, <1>5 DEF CleanInv

(* The attempt that leads: its key is held for the new member.                *)
LEMMA CleanLeads ==
  ASSUME HereOK, ThereOK, MadeInv, HomeInv, PermitInv, CleanInv,
         Trying("lock") \/ Trying("lease"), Answers(op.conn), Leads, UNCHANGED <<link, late>>,
         lock' = lock \/ lock' = [lock EXCEPT ![KeyOf[op.by]] = op.conn]
  PROVE  CleanInv'
<1> DEFINE c == op.conn
           key == KeyOf[op.by]
<1>1. op.kind = "attempt" /\ c \in Conn /\ InUse(c) /\ key \in Key /\ op.pc \in {"lock", "lease"}
  BY OnItsConnection DEF Trying, PermitInv
<1>2. PICK h \in Handle :
        /\ handle[h].status = "none" /\ handle'[h].key = key
        /\ \A i \in Handle : i # h => handle'[i] = handle[i]
        /\ \A d \in Conn : /\ session'[d].phase = session[d].phase
                           /\ session'[d].abandoned = session[d].abandoned
                           /\ session'[d].members = IF d = c THEN session[d].members \cup {h}
                                                    ELSE session[d].members
        /\ op' = NoOp
  BY <1>1, LeadsEffect
<1>3. \A d \in Conn : d # c => session'[d] = session[d]
  BY DEF Leads, HereOK
<1>4. link[c] = "up" /\ lock \in [Key -> Conn \cup {Nobody, AnotherProcess}]
  BY DEF Answers, ThereOK
<1>5. \A d \in Conn : session[d].members \subseteq Handle /\ h \notin session[d].members
  BY <1>2 DEF MadeInv, IsMember, HereOK, SessionRecord
<1>6. \A d \in Conn, k \in Key : OpHolds(d, k) => d = c /\ k = key
  BY <1>1 DEF OpHolds
<1>7. \A d \in Conn, k \in Key : lock'[k] = d => lock[k] = d \/ (d = c /\ k = key)
  BY <1>1, <1>4
<1> HIDE DEF c, key
<1>8. ASSUME NEW d \in Conn, NEW k \in Key, lock'[k] = d PROVE HeldFor(d, k)'
  <2>1. CASE d = c /\ k = key
    BY <1>1, <1>2, <2>1 DEF HeldFor
  <2>2. CASE ~ (d = c /\ k = key)
    <3>1. HeldFor(d, k) /\ ~ OpHolds(d, k)
      BY <1>6, <1>7, <1>8, <2>2 DEF CleanInv
    <3>2. ASSUME NEW i \in session[d].members, handle[i].key = k PROVE HeldFor(d, k)'
      <4>1. i \in session'[d].members /\ handle'[i].key = k
        BY <1>2, <1>5, <3>2
      <4> QED
        BY <4>1 DEF HeldFor
    <3>3. session'[d].phase = session[d].phase /\ session'[d].abandoned = session[d].abandoned
      BY <1>2
    <3> QED
      BY <3>1, <3>2, <3>3 DEF HeldFor
  <2> QED
    BY <2>1, <2>2
<1>9. ASSUME NEW d \in Conn, session'[d].phase \in {"unused", "pooled"}
      PROVE  late'[d] = {} /\ ~ session'[d].abandoned /\ ~ session'[d].leased
  <2>1. d # c
    BY <1>1, <1>2, <1>9 DEF InUse
  <2> QED
    BY <1>3, <1>9, <2>1 DEF CleanInv
<1>10. \A d \in Conn, k \in Key : <<"lock", k>> \in late'[d] => session'[d].abandoned
  BY <1>2 DEF CleanInv
<1>11. \A d \in Conn : link'[d] = "dead" => late'[d] = {} /\ \A k \in Key : lock'[k] # d
  BY <1>4, <1>7 DEF CleanInv
<1> QED
  BY <1>8, <1>9, <1>10, <1>11 DEF CleanInv

(* The steps of the permit.                                                   *)
LEMMA CleanPermit ==
  ASSUME HereOK, ThereOK, MadeInv, HomeInv, PermitInv, CleanInv, UnderPermit
  PROVE  CleanInv'
<1>0. /\ lock \in [Key -> Conn \cup {Nobody, AnotherProcess}]
      /\ late \in [Conn -> SUBSET ({"lock", "unlock"} \X Key)]
      /\ session \in [Conn -> SessionRecord]
  BY DEF ThereOK, HereOK
<1>1. CASE Begins \/ ReserveTimesOut
  <2>1. /\ UNCHANGED <<session, handle, forked, link, late, lock>>
        /\ op.kind = "attempt" /\ op.pc # "lease"
    BY <1>1, BeginsEffect DEF ReserveTimesOut, Trying, there
  <2> QED
    BY <2>1, NoLoss, CleanSame DEF OpHolds
<1>2. CASE Reserves
  <2>1. PICK c \in Conn : /\ op \in Attempting /\ op.pc = "reserve"
                          /\ session[c].phase \in {"unused", "pooled"}
                          /\ \A d \in Conn : d # c => session'[d] = session[d]
                          /\ session'[c].phase = "open" /\ session'[c].members = {}
    BY <1>2, ReservesEffect
  <2>2. UNCHANGED <<handle, link, late, lock>> /\ OnlyLoses
    BY <1>2, ReservesLosesNone DEF Reserves, there
  <2>3. late[c] = {} /\ ~ session[c].abandoned /\ session[c].members = {}
    BY <2>1 DEF CleanInv, HomeInv
  <2>4. \A d \in Conn, k \in Key : ~ OpHolds(d, k)
    BY <2>1 DEF OpHolds, Attempting
  <2>5. \A k \in Key : lock[k] # c
    BY <2>1, <2>3, <2>4 DEF CleanInv, HeldFor
  <2>6. ASSUME NEW d \in Conn, NEW k \in Key, lock'[k] = d PROVE HeldFor(d, k)'
    <3>1. d # c /\ HeldFor(d, k) /\ session'[d] = session[d]
      BY <2>1, <2>2, <2>5, <2>6 DEF CleanInv
    <3> QED
      BY <2>2, <2>4, <3>1, HeldKept
  <2>7. ASSUME NEW d \in Conn, session'[d].phase \in {"unused", "pooled"}
        PROVE  late'[d] = {} /\ ~ session'[d].abandoned /\ ~ session'[d].leased
    BY <2>1, <2>2, <2>7 DEF CleanInv
  <2>8. \A d \in Conn, k \in Key : <<"lock", k>> \in late'[d] => session'[d].abandoned
    BY <2>1, <2>2, <2>3 DEF CleanInv
  <2>9. \A d \in Conn : link'[d] = "dead" => late'[d] = {} /\ \A k \in Key : lock'[k] # d
    BY <2>2 DEF CleanInv
  <2> QED
    BY <2>6, <2>7, <2>8, <2>9 DEF CleanInv
<1>3. CASE StatementFails
  <2>1. /\ op.kind = "attempt" /\ op.conn \in Conn /\ link[op.conn] = "dead" /\ op.pc \in {"lock", "lease"}
        /\ UNCHANGED <<link, late, lock>>
    BY <1>3, StatementFailsKinds DEF there
  <2>2. InUse(op.conn) /\ (op.fresh => session[op.conn].members = {}) /\ \A k \in Key : lock[k] # op.conn
    BY <2>1 DEF PermitInv, CleanInv
  <2>3. \A c \in Conn, k \in Key : lock[k] = c => ~ OpHolds(c, k)
    BY <2>1, <2>2 DEF OpHolds
  <2>4. CASE op.fresh /\ closeSession(op.conn) /\ EndsEmpty /\ UNCHANGED <<handle, forked>>
    BY <2>1, <2>2, <2>4, CleanClose DEF EndsEmpty
  <2>5. CASE loseAll(op.conn) /\ UNCHANGED session
    BY <2>1, <2>3, <2>5, LossOfOne, CleanSame
  <2> QED
    BY <1>3, <2>4, <2>5, StatementFailsKinds
<1>4. CASE Abandons
  <2> DEFINE c == op.conn
  <2>1. /\ op.kind = "attempt" /\ c \in Conn /\ link[c] = "silent" /\ op.pc \in {"lock", "lease"}
        /\ \A d \in Conn : /\ session'[d].members = session[d].members
                           /\ session'[d].phase = session[d].phase
                           /\ session'[d].leased = session[d].leased
                           /\ session'[d].abandoned = (d = c \/ session[d].abandoned)
        /\ loseAll(c) /\ UNCHANGED <<link, lock>>
        /\ \/ UNCHANGED late
           \/ KeyOf[op.by] \in Key /\ late' = [late EXCEPT ![c] = @ \cup {<<"lock", KeyOf[op.by]>>}]
    BY <1>4, AbandonsEffect
  <2>2. InUse(c)
    BY <2>1 DEF PermitInv
  <2>3. OnlyLoses
    BY <2>1, LossOfOne
  <2>4. /\ \A d \in Conn : d # c => late'[d] = late[d]
        /\ \A d \in Conn : late[d] \subseteq late'[d]
    BY <1>0, <2>1
  <2> HIDE DEF c
  <2>5. ASSUME NEW d \in Conn, NEW k \in Key, lock'[k] = d PROVE HeldFor(d, k)'
    <3>1. HeldFor(d, k)
      BY <2>1, <2>5 DEF CleanInv
    <3>2. CASE d = c
      BY <2>1, <3>2 DEF HeldFor
    <3>3. CASE d # c
      <4>1. ~ OpHolds(d, k)
        BY <2>1, <3>3 DEF OpHolds, c
      <4> QED
        BY <2>1, <2>3, <2>4, <3>1, <3>3, <4>1, HeldKept
    <3> QED
      BY <3>2, <3>3
  <2>6. ASSUME NEW d \in Conn, session'[d].phase \in {"unused", "pooled"}
        PROVE  late'[d] = {} /\ ~ session'[d].abandoned /\ ~ session'[d].leased
    <3>1. d # c
      BY <2>1, <2>2, <2>6 DEF InUse
    <3> QED
      BY <2>1, <2>4, <2>6, <3>1 DEF CleanInv
  <2>7. \A d \in Conn, k \in Key : <<"lock", k>> \in late'[d] => session'[d].abandoned
    BY <2>1, <2>4 DEF CleanInv
  <2>8. \A d \in Conn : link'[d] = "dead" => late'[d] = {} /\ \A k \in Key : lock'[k] # d
    BY <2>1, <2>4 DEF CleanInv
  <2> QED
    BY <2>5, <2>6, <2>7, <2>8 DEF CleanInv
<1>5. CASE Closes
  <2>1. op \in Releasing /\ op.kind = "release" /\ op.conn \in Conn /\ op.pc = "close"
    BY <1>5, OpKinds DEF Closes, Releasing
  <2>2. InUse(op.conn) /\ session[op.conn].members = {}
    BY <2>1 DEF PermitInv
  <2>3. closeSession(op.conn) /\ op' = NoOp /\ UNCHANGED <<handle, link, late, lock>>
    BY <1>5 DEF Closes, there
  <2>4. link[op.conn] = "up" => late[op.conn] = {}
    BY <1>5 DEF Closes, Answers
  <2> QED
    BY <2>1, <2>2, <2>3, <2>4, CleanClose
<1>6. CASE Unlocks
  <2> DEFINE c == op.conn
             k == op.key
  <2>1. op \in Releasing /\ op.kind = "release" /\ c \in Conn /\ k \in Key /\ op.pc = "unlock"
    BY <1>6, OpKinds DEF Unlocks, Releasing
  <2>2. InUse(c)
    BY <2>1 DEF PermitInv
  <2>3. UNCHANGED <<session, handle, forked, link>>
    BY <1>6 DEF Unlocks
  <2>4. OnlyLoses
    BY <2>3, NoLoss
  <2>5. \/ lock' = Unlocked(c, k) /\ late' = late /\ link[c] = "up"
        \/ lock' = lock /\ link[c] = "silent" /\ late' = [late EXCEPT ![c] = @ \cup {<<"unlock", k>>}]
        \/ lock' = lock /\ late' = late /\ link[c] = "dead"
    BY <1>6 DEF Unlocks, Late, Answers
  <2>6. /\ \A d \in Conn : d # c => late'[d] = late[d]
        /\ \A d \in Conn : late[d] \subseteq late'[d]
        /\ \A i \in Key : <<"lock", i>> \in late'[c] => <<"lock", i>> \in late[c]
    BY <1>0, <2>1, <2>5
  <2>7. /\ \A d \in Conn, i \in Key : lock'[i] = d => lock[i] = d
        /\ lock'[k] = c => <<"unlock", k>> \in late'[c]
    <3>1. CASE lock' = Unlocked(c, k)
      BY <1>0, <2>1, <3>1, SessionOptions DEF Unlocked
    <3>2. CASE lock' = lock
      BY <1>0, <2>1, <2>5, <3>2, SessionOptions DEF CleanInv, Unlocked
    <3> QED
      BY <2>5, <3>1, <3>2
  <2>8. \A d \in Conn, i \in Key : OpHolds(d, i) => d = c /\ i = k
    BY <2>1 DEF OpHolds
  <2> HIDE DEF c, k
  <2>9. ASSUME NEW d \in Conn, NEW i \in Key, lock'[i] = d PROVE HeldFor(d, i)'
    <3>1. HeldFor(d, i)
      BY <2>7, <2>9 DEF CleanInv
    <3>2. CASE d = c /\ i = k
      BY <2>7, <2>9, <3>2 DEF HeldFor
    <3>3. CASE ~ (d = c /\ i = k)
      BY <2>3, <2>4, <2>6, <2>8, <3>1, <3>3, HeldKept
    <3> QED
      BY <3>2, <3>3
  <2>10. ASSUME NEW d \in Conn, session'[d].phase \in {"unused", "pooled"}
         PROVE  late'[d] = {} /\ ~ session'[d].abandoned /\ ~ session'[d].leased
    BY <2>2, <2>3, <2>6, <2>10 DEF CleanInv, InUse
  <2>11. \A d \in Conn, i \in Key : <<"lock", i>> \in late'[d] => session'[d].abandoned
    BY <2>3, <2>6 DEF CleanInv
  <2>12. ASSUME NEW d \in Conn, link'[d] = "dead" PROVE late'[d] = {} /\ \A i \in Key : lock'[i] # d
    BY <2>3, <2>5, <2>6, <2>7, <2>12 DEF CleanInv
  <2> QED
    BY <2>9, <2>10, <2>11, <2>12 DEF CleanInv
<1>7. CASE LockAnswered
  <2> DEFINE c == op.conn
             k == KeyOf[op.by]
  <2>1. /\ op.kind = "attempt" /\ op.pc = "lock" /\ c \in Conn /\ k \in Key /\ Answers(c)
        /\ UNCHANGED <<forked, link, late>>
    BY <1>7, LockAnsweredKinds
  <2>2. InUse(c) /\ (op.fresh => session[c].members = {})
    BY <2>1 DEF PermitInv
  <2>3. \A d \in Conn, i \in Key : ~ OpHolds(d, i)
    BY <2>1 DEF OpHolds
  <2>4. CASE op' = [op EXCEPT !.pc = "lease"] /\ lock' = [lock EXCEPT ![k] = c] /\ UNCHANGED <<session, handle>>
    <3>1. /\ op'.kind = "attempt" /\ op'.by = op.by /\ op'.pc = "lease" /\ op'.conn = c
      BY <2>1, <2>4, AttemptType
    <3>2. \A d \in Conn, i \in Key : d = c /\ i = k => OpHolds(d, i)'
      BY <3>1 DEF OpHolds
    <3>3. \A d \in Conn, i \in Key : lock'[i] = d => lock[i] = d \/ (d = c /\ i = k)
      BY <1>0, <2>1, <2>4
    <3>4. OnlyLoses /\ link[c] = "up"
      BY <2>1, <2>4, NoLoss DEF Answers
    <3> HIDE DEF c, k
    <3>5. ASSUME NEW d \in Conn, NEW i \in Key, lock'[i] = d PROVE HeldFor(d, i)'
      <4>1. CASE d = c /\ i = k
        BY <3>2, <4>1 DEF HeldFor
      <4>2. CASE ~ (d = c /\ i = k)
        <5>1. HeldFor(d, i)
          BY <3>3, <3>5, <4>2 DEF CleanInv
        <5> QED
          BY <2>1, <2>3, <2>4, <3>4, <5>1, HeldKept
      <4> QED
        BY <4>1, <4>2
    <3>6. \A d \in Conn : link'[d] = "dead" => late'[d] = {} /\ \A i \in Key : lock'[i] # d
      BY <2>1, <3>3, <3>4 DEF CleanInv
    <3> QED
      BY <2>1, <2>4, <3>5, <3>6 DEF CleanInv
  <2>5. CASE Leads /\ lock' = [lock EXCEPT ![k] = c]
    BY <2>1, <2>5, CleanLeads DEF Trying
  <2>6. CASE op.fresh /\ EndsEmpty /\ closeSession(c) /\ UNCHANGED <<lock, handle>>
    BY <2>1, <2>2, <2>6, CleanClose DEF EndsEmpty, Answers
  <2>7. CASE EndsEmpty /\ UNCHANGED <<lock, handle, session>>
    BY <2>1, <2>3, <2>7, NoLoss, CleanSame
  <2> QED
    BY <1>7, <2>4, <2>5, <2>6, <2>7, LockAnsweredKinds
<1>8. CASE LeaseAnswered
  BY <1>8, CleanLeads DEF LeaseAnswered, there
<1> QED
  BY <1>1, <1>2, <1>3, <1>4, <1>5, <1>6, <1>7, <1>8 DEF UnderPermit

(* The steps of the server and of the network.                                *)
LEMMA CleanConn ==
  ASSUME HereOK, ThereOK, MadeInv, CleanInv, NEW c \in Conn, UNCHANGED here,
         LateRuns(c) \/ HearsOfEnd(c) \/ Dies(c) \/ FallsSilent(c) \/ Recovers(c)
  PROVE  CleanInv'
<1>0. /\ lock \in [Key -> Conn \cup {Nobody, AnotherProcess}]
      /\ late \in [Conn -> SUBSET ({"lock", "unlock"} \X Key)]
      /\ link \in [Conn -> {"up", "silent", "dead"}]
  BY DEF ThereOK
<1>1. OnlyLoses /\ UNCHANGED <<session, handle, op>> /\ \A d \in Conn, k \in Key : OpHolds(d, k)' <=> OpHolds(d, k)
  BY NoLoss DEF here, OpHolds
<1>2. CASE HearsOfEnd(c) \/ Dies(c)
  <2>1. link' = [link EXCEPT ![c] = "dead"] /\ lock' = Freed(c) /\ late' = [late EXCEPT ![c] = {}]
    BY <1>2 DEF HearsOfEnd, Dies
  <2>2. /\ link'[c] = "dead" /\ \A d \in Conn : d # c => link'[d] = link[d]
        /\ late'[c] = {} /\ \A d \in Conn : d # c => late'[d] = late[d]
        /\ \A d \in Conn, k \in Key : lock'[k] = d => lock[k] = d /\ d # c
    BY <1>0, <2>1, SessionOptions DEF Freed
  <2>3. ASSUME NEW d \in Conn, NEW k \in Key, lock'[k] = d PROVE HeldFor(d, k)'
    <3>1. d # c /\ HeldFor(d, k)
      BY <2>2, <2>3 DEF CleanInv
    <3> QED
      BY <1>1, <2>2, <3>1, HeldKept
  <2>4. \A d \in Conn : link'[d] = "dead" => late'[d] = {} /\ \A k \in Key : lock'[k] # d
    BY <2>2 DEF CleanInv
  <2>5. \A d \in Conn : late'[d] = {} \/ late'[d] = late[d]
    BY <2>2
  <2> QED
    BY <1>1, <2>3, <2>4, <2>5 DEF CleanInv
<1>3. CASE FallsSilent(c) \/ Recovers(c)
  <2>1. UNCHANGED <<late, lock>> /\ \A d \in Conn : link'[d] = "dead" => link[d] = "dead"
    BY <1>0, <1>3 DEF FallsSilent, Recovers
  <2>2. ASSUME NEW d \in Conn, NEW k \in Key, lock'[k] = d PROVE HeldFor(d, k)'
    <3>1. HeldFor(d, k)
      BY <2>1, <2>2 DEF CleanInv
    <3> QED
      BY <1>1, <2>1, <3>1, HeldKept
  <2> QED
    BY <1>1, <2>1, <2>2 DEF CleanInv
<1>4. CASE LateRuns(c)
  <2>1. PICK what \in {"lock", "unlock"}, k \in Key :
          /\ <<what, k>> \in late[c]
          /\ lock' = IF what = "unlock" THEN Unlocked(c, k)
                     ELSE IF Grants(c, k) THEN [lock EXCEPT ![k] = c] ELSE lock
          /\ late' = [late EXCEPT ![c] = @ \ {<<what, k>>}]
    BY <1>4 DEF LateRuns
  <2>2. link[c] = "up" /\ UNCHANGED link
    BY <1>4 DEF LateRuns
  <2>3. /\ late'[c] = late[c] \ {<<what, k>>}
        /\ \A d \in Conn : d # c => late'[d] = late[d]
    BY <1>0, <2>1
  <2>4. CASE what = "lock"
    <3>1. session[c].abandoned
      BY <2>1, <2>4 DEF CleanInv
    <3>2. \A d \in Conn, i \in Key : lock'[i] = d => d = c \/ lock[i] = d
      BY <1>0, <2>1, <2>4
    <3>3. ASSUME NEW d \in Conn, NEW i \in Key, lock'[i] = d PROVE HeldFor(d, i)'
      <4>1. CASE d = c
        BY <1>1, <3>1, <4>1 DEF HeldFor
      <4>2. CASE d # c
        <5>1. HeldFor(d, i)
          BY <3>2, <3>3, <4>2 DEF CleanInv
        <5> QED
          BY <1>1, <2>3, <4>2, <5>1, HeldKept
      <4> QED
        BY <4>1, <4>2
    <3>4. ASSUME NEW d \in Conn, link'[d] = "dead" PROVE late'[d] = {} /\ \A i \in Key : lock'[i] # d
      <4>1. d # c
        BY <2>2, <3>4
      <4> QED
        BY <2>2, <2>3, <3>2, <3>4, <4>1 DEF CleanInv
    <3>5. \A d \in Conn : late'[d] \subseteq late[d]
      BY <2>3
    <3> QED
      BY <1>1, <3>3, <3>4, <3>5 DEF CleanInv
  <2>5. CASE what = "unlock"
    <3>1. \A d \in Conn, i \in Key : lock'[i] = d => lock[i] = d /\ ~ (d = c /\ i = k)
      BY <1>0, <2>1, <2>5, SessionOptions DEF Unlocked
    <3>2. ASSUME NEW d \in Conn, NEW i \in Key, lock'[i] = d PROVE HeldFor(d, i)'
      <4>1. HeldFor(d, i) /\ ~ (d = c /\ i = k)
        BY <3>1, <3>2 DEF CleanInv
      <4>2. <<"unlock", i>> \in late[d] => <<"unlock", i>> \in late'[d]
        BY <2>3, <2>5, <4>1
      <4> QED
        BY <1>1, <4>1, <4>2, HeldKept
    <3>3. \A d \in Conn : late'[d] \subseteq late[d]
      BY <2>3
    <3>4. \A d \in Conn : link'[d] = "dead" => late'[d] = {} /\ \A i \in Key : lock'[i] # d
      BY <2>2, <3>1, <3>3 DEF CleanInv
    <3> QED
      BY <1>1, <3>2, <3>3, <3>4 DEF CleanInv
  <2> QED
    BY <2>4, <2>5
<1> QED
  BY <1>2, <1>3, <1>4

(* A release leaves its key to its unlock, or to the end of an abandoned      *)
(* session.                                                                   *)
LEMMA CleanReleases ==
  ASSUME HereOK, MadeInv, HomeInv, CleanInv, NEW h \in Handle, NEW by \in Module \cup {Nobody}, Releases(h, by)
  PROVE  CleanInv'
<1>1. /\ \A i \in Handle : i # h => handle'[i] = handle[i]
      /\ \A c \in Conn : /\ session'[c].phase = session[c].phase
                         /\ session'[c].abandoned = session[c].abandoned
                         /\ session'[c].leased = session[c].leased
                         /\ session'[c].members = session[c].members \ {h}
      /\ op = NoOp
  BY ReleasesEffect
<1>2. UNCHANGED <<link, late, lock>>
  BY DEF Releases, there
<1>3. \A c \in Conn, k \in Key : ~ OpHolds(c, k)
  BY <1>1, OpKinds DEF OpHolds
<1>4. ASSUME NEW c \in Conn, NEW k \in Key, lock'[k] = c PROVE HeldFor(c, k)'
  <2>1. HeldFor(c, k)
    BY <1>2, <1>4 DEF CleanInv
  <2>2. ASSUME NEW i \in session[c].members, handle[i].key = k PROVE HeldFor(c, k)'
    <3>0. i \in Handle /\ IsMember(i) /\ handle[i].conn = c
      BY <2>2 DEF MadeInv, HereOK, SessionRecord
    <3>1. CASE i # h
      <4>1. i \in session'[c].members /\ handle'[i].key = k
        BY <1>1, <2>2, <3>0, <3>1
      <4> QED
        BY <4>1 DEF HeldFor
    <3>2. CASE i = h
      <4>1. handle[h].status # "closed"
        BY <3>0, <3>2 DEF IsMember
      <4>2. CASE session[c].abandoned
        BY <1>1, <4>2 DEF HeldFor
      <4>3. CASE ~ session[c].abandoned
        <5>1. op' = [kind |-> "release", by |-> by, conn |-> c, key |-> k, pc |-> "unlock"]
          BY <2>2, <3>0, <3>2, <4>1, <4>3 DEF Releases
        <5>2. op'.kind = "release" /\ op'.pc = "unlock" /\ op'.conn = c /\ op'.key = k
          BY <5>1
        <5> QED
          BY <5>2 DEF HeldFor, OpHolds
      <4> QED
        BY <4>2, <4>3
    <3> QED
      BY <3>1, <3>2
  <2>3. session'[c].phase = session[c].phase /\ session'[c].abandoned = session[c].abandoned
    BY <1>1
  <2> QED
    BY <1>2, <1>3, <2>1, <2>2, <2>3 DEF HeldFor
<1>5. \A c \in Conn : link'[c] = "dead" => late'[c] = {} /\ \A k \in Key : lock'[k] # c
  BY <1>2 DEF CleanInv
<1>6. ASSUME NEW c \in Conn, session'[c].phase \in {"unused", "pooled"}
      PROVE  late'[c] = {} /\ ~ session'[c].abandoned /\ ~ session'[c].leased
  <2>1. /\ session'[c].phase = session[c].phase /\ session'[c].abandoned = session[c].abandoned
        /\ session'[c].leased = session[c].leased
    BY <1>1
  <2> QED
    BY <1>2, <1>6, <2>1 DEF CleanInv
<1>7. \A c \in Conn, k \in Key : <<"lock", k>> \in late'[c] => session'[c].abandoned
  BY <1>1, <1>2 DEF CleanInv
<1> QED
  BY <1>4, <1>5, <1>6, <1>7 DEF CleanInv

LEMMA CleanStep ==
  ASSUME ~ MayStop, SharedInv, CleanInv, [Next]_vars
  PROVE  CleanInv'
<1>1. HereOK /\ ThereOK /\ MadeInv /\ HomeInv /\ PermitInv
  BY TypeHalves DEF SharedInv
<1>2. CASE UnderPermit
  BY <1>1, <1>2, CleanPermit
<1>3. ASSUME NEW h \in Handle, NEW by \in Module \cup {Nobody}, Releases(h, by) PROVE CleanInv'
  BY <1>1, <1>3, CleanReleases
<1>4. CASE \E c \in Conn : LateRuns(c) \/ HearsOfEnd(c) \/ Dies(c) \/ FallsSilent(c) \/ Recovers(c)
  BY <1>1, <1>4, CleanConn DEF LateRuns, HearsOfEnd, Dies, FallsSilent, Recovers
<1>5. ASSUME NEW c \in Conn, Retires(c) PROVE CleanInv'
  <2>1. /\ UNCHANGED <<op, handle, forked, link, late, lock>>
        /\ \A d \in Conn : d # c => session'[d] = session[d]
        /\ session'[c].members = session[c].members /\ session'[c].phase = "retired"
        /\ session'[c].abandoned = session[c].abandoned
    BY <1>1, <1>5 DEF Retires, HereOK, SessionRecord, there
  <2>2. OnlyLoses
    BY <1>1, <2>1, NoLoss
  <2>3. ASSUME NEW d \in Conn, NEW k \in Key, lock'[k] = d PROVE HeldFor(d, k)'
    <3>1. HeldFor(d, k)
      BY <2>1, <2>3 DEF CleanInv
    <3>2. CASE d = c
      BY <2>1, <3>2 DEF HeldFor
    <3>3. CASE d # c
      BY <1>1, <2>1, <2>2, <3>1, <3>3, HeldKept DEF OpHolds
    <3> QED
      BY <3>2, <3>3
  <2>4. \A d \in Conn : link'[d] = "dead" => late'[d] = {} /\ \A k \in Key : lock'[k] # d
    BY <2>1 DEF CleanInv
  <2>5. ASSUME NEW d \in Conn, session'[d].phase \in {"unused", "pooled"}
        PROVE  late'[d] = {} /\ ~ session'[d].abandoned /\ ~ session'[d].leased
    BY <2>1, <2>5 DEF CleanInv
  <2>6. \A d \in Conn, k \in Key : <<"lock", k>> \in late'[d] => session'[d].abandoned
    BY <2>1 DEF CleanInv
  <2> QED
    BY <2>3, <2>4, <2>5, <2>6 DEF CleanInv
<1>6. CASE \/ \E m \in Module : Retries(m) \/ SetsRef(m) \/ TakesPermit(m)
           \/ \E h \in Handle : Verify(h)
           \/ \E q \in checks : ServerAnswers(q) \/ CheckApplies(q)
           \/ \E c \in Conn : Heartbeat(c)
  <2>1. UNCHANGED <<session, link, late, lock>> /\ (UNCHANGED op \/ op = NoOp)
    BY <1>6 DEF Retries, SetsRef, TakesPermit, Verify, Checks, ServerAnswers, CheckApplies, Heartbeat, there
  <2>2. OnlyLoses
    BY <1>1, <1>6, NoLoss, CheckEffect
       DEF Retries, SetsRef, TakesPermit, Verify, Checks, ServerAnswers, CheckApplies, Heartbeat, OnlyLoses
  <2>3. \A c \in Conn, k \in Key : OpHolds(c, k) => OpHolds(c, k)'
    BY <1>1, <2>1, OpKinds DEF OpHolds
  <2> QED
    BY <1>1, <2>1, <2>2, <2>3, CleanSame
<1>7. ASSUME NEW k \in Key, AnotherTakes(k) \/ AnotherGives(k) PROVE CleanInv'
  <2>1. UNCHANGED <<op, session, handle, link, late>>
    BY <1>7 DEF AnotherTakes, AnotherGives, here
  <2>2. \A c \in Conn, i \in Key : lock'[i] = c => lock[i] = c
    BY <1>1, <1>7, SessionOptions DEF AnotherTakes, AnotherGives, ThereOK
  <2>3. \A c \in Conn, i \in Key : HeldFor(c, i)' <=> HeldFor(c, i)
    BY <2>1 DEF HeldFor, OpHolds
  <2> QED
    BY <2>1, <2>2, <2>3 DEF CleanInv
<1>8. CASE UNCHANGED vars
  <2>1. \A c \in Conn, i \in Key : HeldFor(c, i)' <=> HeldFor(c, i)
    BY <1>8 DEF vars, here, there, HeldFor, OpHolds
  <2> QED
    BY <1>8, <2>1 DEF vars, here, there, CleanInv
<1> QED
  BY <1>2, <1>3, <1>4, <1>5, <1>6, <1>7, <1>8, StepKinds DEF Stops, UnderPermit

(* While no module is stopped, what a connection holds has a reason that ends *)
(* before the connection goes back to the pool: whatever fails, the pool gets *)
(* it without a lock, without a statement on its way and without the lease    *)
(* (releaseSession and closeSession of Leader.ts), and every leader is on a   *)
(* session that is open.                                                      *)
THEOREM PoolGetsCleanSessions ==
  ~ MayStop => (Spec => []PooledIsClean)
<1> SUFFICES ASSUME ~ MayStop PROVE Spec => []PooledIsClean
  OBVIOUS
<1>1. Init => CleanInv
  <2> SUFFICES ASSUME Init PROVE CleanInv
    OBVIOUS
  <2>1. ~ Unused.abandoned /\ ~ Unused.leased
    BY DEF Unused
  <2>2. \A k \in Key : lock[k] = Nobody
    BY DEF Init
  <2> QED
    BY <2>1, <2>2, SessionOptions DEF Init, CleanInv
<1>2. SharedInv /\ CleanInv /\ [Next]_vars => CleanInv'
  BY CleanStep
<1>3. SharedInv /\ CleanInv => PooledIsClean
  <2> SUFFICES ASSUME SharedInv, CleanInv PROVE PooledIsClean
    OBVIOUS
  <2>1. \A h \in Handle : isLeader(h) => session[handle[h].conn].phase = "open"
    BY DEF SharedInv, HomeInv, InUse
  <2>2. ASSUME NEW c \in Conn, session[c].phase = "pooled"
        PROVE  ~ session[c].leased /\ \A k \in Key : lock[k] # c
    <3>1. ~ session[c].leased /\ late[c] = {} /\ ~ session[c].abandoned /\ session[c].members = {}
      BY <2>2 DEF CleanInv, SharedInv, HomeInv
    <3>2. \A k \in Key : ~ OpHolds(c, k)
      <4>1. op.kind = "attempt" /\ op.pc = "lease" => op.conn # c
        BY <2>2 DEF SharedInv, PermitInv, InUse
      <4>2. op.kind = "release" => op.conn # c
        BY <2>2 DEF SharedInv, PermitInv, InUse
      <4> QED
        BY <4>1, <4>2 DEF OpHolds
    <3> QED
      BY <2>2, <3>1, <3>2 DEF CleanInv, HeldFor
  <2> QED
    BY <2>1, <2>2 DEF PooledIsClean, SharedInv
<1> QED
  BY <1>1, <1>2, <1>3, SessionStaysShared, PTL DEF Spec

-----------------------------------------------------------------------------
(* While nothing fails, every connection is up, every leader has its lock and *)
(* every check that was answered saw it.                                      *)

CalmConns == \A c \in Conn : /\ link[c] = "up" /\ late[c] = {}
                             /\ session[c].phase # "retired" /\ ~ session[c].abandoned
CalmLeaders == \A h \in Handle : /\ handle[h].status # "lost"
                                 /\ isLeader(h) => lock[handle[h].key] = handle[h].conn
CalmLease == Trying("lease") => lock[KeyOf[op.by]] = op.conn
CalmChecks == \A q \in checks :
                /\ q.seen # "none"
                /\ q.seen = "keys" => \A h \in q.members : isLeader(h) => handle[h].key \in q.keys

Calm == CalmConns /\ CalmLeaders /\ CalmLease /\ CalmChecks
CalmInv == used.faults = 0 => Calm

(* Faults are counted, never forgotten.                                       *)
LEMMA FaultsCount ==
  ASSUME ~ MayStop, HereOK, PermitInv, ThereOK, Next, used'.faults = 0
  PROVE  used.faults = 0 /\ ~ Faults
<1>1. used \in [faults : 0 .. MaxFaults, turns : 0 .. MaxTurns]
  BY DEF ThereOK
<1>2. Faults => used'.faults = used.faults + 1
  BY <1>1 DEF Faults
<1>3. Faults \/ used'.faults = used.faults
  <2>1. CASE ReserveTimesOut \/ \E c \in Conn : Dies(c) \/ FallsSilent(c)
    BY <2>1 DEF ReserveTimesOut, Dies, FallsSilent
  <2>2. CASE \E k \in Key : AnotherTakes(k) \/ AnotherGives(k)
    BY <1>1, <2>2 DEF AnotherTakes, AnotherGives
  <2>3. CASE \/ Begins \/ Reserves \/ LockAnswered \/ LeaseAnswered
             \/ StatementFails \/ Abandons \/ Unlocks \/ Closes
    BY <2>3 DEF Begins, Reserves, LockAnswered, LeaseAnswered, StatementFails, Abandons, Unlocks, Closes, there
  <2>4. CASE \/ \E m \in Module : Retries(m) \/ SetsRef(m) \/ TakesPermit(m) \/ Stops(m)
             \/ \E h \in Handle : Verify(h) \/ \E by \in Module \cup {Nobody} : Releases(h, by)
             \/ \E q \in checks : ServerAnswers(q) \/ CheckApplies(q)
             \/ \E c \in Conn : Retires(c) \/ Heartbeat(c) \/ LateRuns(c) \/ HearsOfEnd(c) \/ Recovers(c)
    BY <2>4 DEF Retries, SetsRef, TakesPermit, Stops, Verify, Checks, Releases, ServerAnswers, CheckApplies,
       Retires, Heartbeat, LateRuns, HearsOfEnd, Recovers, there
  <2> QED
    BY <2>1, <2>2, <2>3, <2>4, StepKinds
<1> QED
  BY <1>1, <1>2, <1>3

(* A step that makes no leader and loses none.                                *)
LEMMA CalmSame ==
  ASSUME HereOK, Calm, UNCHANGED <<handle, link, late>>,
         \A c \in Conn : session'[c].phase # "retired" /\ ~ session'[c].abandoned,
         \A h \in Handle : isLeader(h) => lock'[handle[h].key] = handle[h].conn,
         op'.kind = "attempt" /\ op'.pc = "lease" => lock'[KeyOf[op'.by]] = op'.conn,
         \A q \in checks' : q \in checks \/ q.seen = "sent"
  PROVE  Calm'
<1>1. CalmConns' /\ CalmLeaders' /\ CalmLease'
  BY DEF Calm, CalmConns, CalmLeaders, CalmLease, Trying, isLeader
<1>2. CalmChecks'
  BY DEF Calm, CalmChecks, isLeader
<1> QED
  BY <1>1, <1>2 DEF Calm

(* A new leader has its lock, and no check knows it yet.                      *)
LEMMA CalmLeads ==
  ASSUME HereOK, MadeInv, PermitInv, Calm, Trying("lock") \/ Trying("lease"), Leads,
         UNCHANGED <<link, late, checks>>,
         lock'[KeyOf[op.by]] = op.conn,
         \A h \in Handle : isLeader(h) => lock'[handle[h].key] = handle[h].conn
  PROVE  Calm'
<1>1. op.kind = "attempt" /\ op.conn \in Conn
  BY OnItsConnection DEF Trying
<1>2. PICK h \in Handle :
        /\ handle[h].status = "none"
        /\ \A i \in Handle : i # h => handle'[i] = handle[i]
        /\ handle'[h].key = KeyOf[op.by] /\ handle'[h].conn = op.conn /\ handle'[h].status = "leading"
        /\ \A c \in Conn : session'[c].phase = session[c].phase /\ session'[c].abandoned = session[c].abandoned
        /\ op' = NoOp
  BY <1>1, LeadsEffect
<1>3. CalmConns'
  BY <1>2 DEF Calm, CalmConns
<1>4. ASSUME NEW i \in Handle
      PROVE  handle'[i].status # "lost" /\ (isLeader(i)' => lock'[handle'[i].key] = handle'[i].conn)
  <2>1. CASE i = h
    BY <1>2, <2>1
  <2>2. CASE i # h
    BY <1>2, <2>2 DEF Calm, CalmLeaders, isLeader
  <2> QED
    BY <2>1, <2>2
<1>5. CalmLease'
  BY <1>2 DEF CalmLease, Trying, NoOp
<1>6. CalmChecks'
  <2>1. \A q \in checks : q.members \subseteq Handle /\ h \notin q.members
    BY <1>2 DEF MadeInv, HereOK, IsCheck
  <2>2. \A q \in checks, i \in Handle : i \in q.members => handle'[i] = handle[i]
    BY <1>2, <2>1
  <2> QED
    BY <2>1, <2>2 DEF Calm, CalmChecks, isLeader
<1> QED
  BY <1>3, <1>4, <1>5, <1>6 DEF Calm, CalmLeaders

LEMMA CalmStep ==
  ASSUME ~ MayStop, SharedInv, CalmInv, [Next]_vars
  PROVE  CalmInv'
<1> SUFFICES ASSUME used'.faults = 0 PROVE Calm'
  BY DEF CalmInv
<1>1. HereOK /\ ThereOK /\ MadeInv /\ HomeInv /\ PermitInv
  BY TypeHalves DEF SharedInv
<1>2. CASE UNCHANGED vars
  <2>1. Calm
    BY <1>2 DEF CalmInv, vars, there
  <2> QED
    BY <1>2, <2>1 DEF vars, here, there, Calm, CalmConns, CalmLeaders, CalmLease, CalmChecks, Trying, isLeader
<1> SUFFICES ASSUME Next PROVE Calm'
  BY <1>2
<1>3. Calm /\ ~ Faults
  BY <1>1, FaultsCount DEF CalmInv
<1>4. /\ \A c \in Conn : link[c] = "up" /\ late[c] = {} /\ session[c].phase # "retired" /\ ~ session[c].abandoned
      /\ \A h \in Handle : isLeader(h) => lock[handle[h].key] = handle[h].conn
      /\ lock \in [Key -> Conn \cup {Nobody, AnotherProcess}]
  BY <1>1, <1>3 DEF Calm, CalmConns, CalmLeaders, ThereOK
<1>e. op' = NoOp => op'.kind = "none"
  BY DEF NoOp
<1>c. ASSUME NEW c \in Conn, closeSession(c), op' = NoOp, UNCHANGED <<handle, link, late, lock, checks>>
      PROVE  Calm'
  <2>1. \A d \in Conn : session'[d].phase # "retired" /\ ~ session'[d].abandoned
    BY <1>1, <1>4, <1>c, CloseEffect
  <2> QED
    BY <1>1, <1>3, <1>4, <1>c, <1>e, <2>1, CalmSame
<1>5. CASE Begins
  <2>1. op'.kind # "attempt" \/ op'.pc # "lease"
    BY <1>1, <1>5, <1>e, BeginsEffect, EmptyType
  <2>2. UNCHANGED <<session, handle, checks, link, late, lock>>
    BY <1>5 DEF Begins, there
  <2> QED
    BY <1>1, <1>3, <1>4, <2>1, <2>2, CalmSame
<1>6. CASE Reserves
  <2>1. PICK c \in Conn : /\ \A d \in Conn : d # c => session'[d] = session[d]
                          /\ session'[c].phase = "open" /\ ~ session'[c].abandoned /\ op'.pc = "lock"
    BY <1>1, <1>6, ReservesEffect
  <2>2. \A d \in Conn : session'[d].phase # "retired" /\ ~ session'[d].abandoned
    BY <1>4, <2>1
  <2>3. UNCHANGED <<handle, checks, link, late, lock>>
    BY <1>6 DEF Reserves, there
  <2> QED
    BY <1>1, <1>3, <1>4, <2>1, <2>2, <2>3, CalmSame
<1>7. CASE ReserveTimesOut \/ StatementFails \/ Abandons
           \/ \E c \in Conn : Retires(c) \/ LateRuns(c) \/ HearsOfEnd(c) \/ Dies(c) \/ FallsSilent(c) \/ Recovers(c)
  <2>1. ~ StatementFails /\ ~ Abandons
    BY <1>1, <1>4, StatementFailsKinds, AbandonsEffect
  <2> QED
    BY <1>3, <1>4, <1>7, <2>1 DEF ReserveTimesOut, Retires, LateRuns, HearsOfEnd, Dies, FallsSilent, Recovers
<1>8. CASE LockAnswered
  <2> DEFINE c == op.conn
             k == KeyOf[op.by]
  <2>1. /\ op.kind = "attempt" /\ op.pc = "lock" /\ c \in Conn /\ k \in Key
        /\ UNCHANGED <<checks, link, late>>
    BY <1>1, <1>8, LockAnsweredKinds
  <2>2. Grants(c, k) /\ lock' = [lock EXCEPT ![k] = c]
          => \A h \in Handle : isLeader(h) => lock'[handle[h].key] = handle[h].conn
    <3>1. \A h \in Handle : isLeader(h) => handle[h].conn \in Conn /\ handle[h].key \in Key
      BY <1>1 DEF MadeInv, IsMember, isLeader
    <3> QED
      BY <1>4, <2>1, <3>1, SessionOptions DEF Grants
  <2>3. CASE /\ op' = [op EXCEPT !.pc = "lease"] /\ Grants(c, k) /\ lock' = [lock EXCEPT ![k] = c]
             /\ UNCHANGED <<session, handle>>
    <3>1. op'.by = op.by /\ op'.conn = c
      BY <1>1, <2>1, <2>3, AttemptType
    <3>2. lock'[KeyOf[op'.by]] = op'.conn
      BY <1>4, <2>1, <2>3, <3>1
    <3> QED
      BY <1>1, <1>3, <1>4, <2>1, <2>2, <2>3, <3>2, CalmSame
  <2>4. CASE Leads /\ Grants(c, k) /\ lock' = [lock EXCEPT ![k] = c]
    <3>1. lock'[KeyOf[op.by]] = op.conn
      BY <1>4, <2>1, <2>4
    <3> QED
      BY <1>1, <1>3, <2>1, <2>2, <2>4, <3>1, CalmLeads DEF Trying
  <2>5. CASE EndsEmpty /\ closeSession(c) /\ UNCHANGED <<lock, handle>>
    BY <1>c, <2>1, <2>5 DEF EndsEmpty
  <2>6. CASE EndsEmpty /\ UNCHANGED <<lock, handle, session>>
    BY <1>1, <1>3, <1>4, <1>e, <2>1, <2>6, CalmSame DEF EndsEmpty
  <2> QED
    BY <1>1, <1>8, <2>3, <2>4, <2>5, <2>6, LockAnsweredKinds
<1>9. CASE LeaseAnswered
  <2>1. /\ Trying("lease") /\ Leads /\ UNCHANGED <<link, late, lock, checks>>
    BY <1>9 DEF LeaseAnswered, there
  <2>2. lock'[KeyOf[op.by]] = op.conn
    BY <1>3, <2>1 DEF Calm, CalmLease
  <2> QED
    BY <1>1, <1>3, <1>4, <2>1, <2>2, CalmLeads
<1>10. CASE Unlocks
  <2>1. op \in Releasing /\ op.kind = "release" /\ op.pc = "unlock" /\ op.conn \in Conn /\ op.key \in Key
    BY <1>1, <1>10, OpKinds DEF Unlocks, Releasing
  <2>2. lock' = Unlocked(op.conn, op.key) /\ UNCHANGED <<session, handle, checks, link, late>>
    BY <1>4, <1>10, <2>1 DEF Unlocks
  <2>3. ASSUME NEW h \in Handle, isLeader(h) PROVE lock'[handle[h].key] = handle[h].conn
    <3>1. handle[h].conn \in Conn /\ handle[h].key \in Key /\ h \in session[handle[h].conn].members
      BY <1>1, <2>3 DEF MadeInv, IsMember, isLeader
    <3>2. ~ (handle[h].conn = op.conn /\ handle[h].key = op.key)
      BY <1>1, <2>1, <3>1 DEF PermitInv
    <3> QED
      BY <1>4, <2>1, <2>2, <2>3, <3>1, <3>2 DEF Unlocked
  <2>4. op'.kind # "attempt"
    <3>1. op' = [op EXCEPT !.pc = "close"] => op'.kind = "release"
      BY <2>1 DEF Releasing
    <3> QED
      BY <1>10, <1>e, <3>1 DEF Unlocks
  <2> QED
    BY <1>1, <1>3, <1>4, <2>2, <2>3, <2>4, CalmSame
<1>11. CASE Closes
  <2>1. op.conn \in Conn
    BY <1>1, <1>11, OpKinds DEF Closes, Releasing
  <2> QED
    BY <1>c, <1>11, <2>1 DEF Closes, there
<1>12. ASSUME NEW h \in Handle, NEW by \in Module \cup {Nobody}, Releases(h, by) PROVE Calm'
  <2>1. /\ \A i \in Handle : i # h => handle'[i] = handle[i]
        /\ handle'[h].status = "closed"
        /\ \A c \in Conn : session'[c].phase = session[c].phase /\ session'[c].abandoned = session[c].abandoned
    BY <1>1, <1>12, ReleasesEffect
  <2>2. UNCHANGED <<checks, link, late, lock>> /\ op'.kind # "attempt"
    BY <1>1, <1>12, <1>e, ReleasesEffect DEF Releases, there
  <2>3. \A i \in Handle : isLeader(i)' => isLeader(i) /\ handle'[i] = handle[i]
    BY <2>1 DEF isLeader
  <2>4. CalmConns'
    BY <1>4, <2>1, <2>2 DEF CalmConns
  <2>5. CalmLeaders'
    BY <1>3, <2>1, <2>2, <2>3 DEF Calm, CalmLeaders
  <2>6. CalmChecks'
    BY <1>1, <1>3, <2>2, <2>3 DEF Calm, CalmChecks, HereOK, IsCheck
  <2> QED
    BY <2>2, <2>4, <2>5, <2>6 DEF Calm, CalmLease, Trying
<1>13. CASE \/ \E m \in Module : Retries(m) \/ SetsRef(m) \/ TakesPermit(m)
            \/ \E h \in Handle : Verify(h)
            \/ \E c \in Conn : Heartbeat(c)
  <2>1. /\ UNCHANGED <<session, handle, link, late, lock>>
        /\ \A q \in checks' : q \in checks \/ q.seen = "sent"
    BY <1>13 DEF Retries, SetsRef, TakesPermit, Verify, Heartbeat, Checks, there
  <2>2. op' = op \/ op'.pc = "begin"
    BY <1>13 DEF Retries, SetsRef, TakesPermit, Verify, Heartbeat, Checks
  <2>3. op'.kind = "attempt" /\ op'.pc = "lease" => lock'[KeyOf[op'.by]] = op'.conn
    BY <1>3, <2>1, <2>2 DEF Calm, CalmLease, Trying
  <2> QED
    BY <1>1, <1>3, <1>4, <2>1, <2>3, CalmSame
<1>14. ASSUME NEW q \in checks, ServerAnswers(q) PROVE Calm'
  <2> DEFINE n == [q EXCEPT !.seen = "keys", !.keys = {k \in Key : lock[k] = q.conn}]
  <2>1. IsCheck(q) /\ q.conn \in Conn
    BY <1>1 DEF HereOK, IsCheck
  <2>2. checks' = (checks \ {q}) \cup {n} /\ UNCHANGED <<op, session, handle, link, late, lock>>
    BY <1>4, <1>14, <2>1 DEF ServerAnswers, there
  <2>3. ASSUME NEW h \in q.members, isLeader(h) PROVE handle[h].key \in {k \in Key : lock[k] = q.conn}
    <3>1. h \in Handle /\ handle[h].conn = q.conn /\ handle[h].key \in Key
      BY <1>1, <2>1, <2>3 DEF MadeInv, IsMember, isLeader, IsCheck
    <3> QED
      BY <1>4, <2>3, <3>1
  <2>4. n.members = q.members /\ n.seen # "none" /\ \A h \in n.members : isLeader(h) => handle[h].key \in n.keys
    <3>1. n.members = q.members /\ n.seen = "keys" /\ n.keys = {k \in Key : lock[k] = q.conn}
      BY <1>1, <1>14 DEF MadeInv
    <3> QED
      BY <2>3, <3>1
  <2> HIDE DEF n
  <2>5. CalmChecks'
    BY <1>3, <2>2, <2>4 DEF Calm, CalmChecks, isLeader
  <2> QED
    BY <1>3, <2>2, <2>5 DEF Calm, CalmConns, CalmLeaders, CalmLease, Trying, isLeader
<1>15. ASSUME NEW q \in checks, CheckApplies(q) PROVE Calm'
  <2>1. q.seen = "keys"
    BY <1>1, <1>3, <1>15 DEF CheckApplies, HereOK, IsCheck, Calm, CalmChecks
  <2>2. \A h \in Handle : /\ handle'[h].key = handle[h].key /\ handle'[h].conn = handle[h].conn
                          /\ handle'[h].status = handle[h].status
    <3>1. \A h \in Handle : /\ handle'[h].key = handle[h].key /\ handle'[h].conn = handle[h].conn
                            /\ handle'[h].status = handle[h].status \/ isLeader(h)
                            /\ handle'[h].status = handle[h].status
                                 \/ (h \in q.members /\ handle[h].key \notin q.keys)
      BY <1>1, <1>15, CheckEffect
    <3>2. \A h \in q.members : isLeader(h) => handle[h].key \in q.keys
      BY <1>3, <2>1 DEF Calm, CalmChecks
    <3> QED
      BY <3>1, <3>2
  <2>3. checks' \subseteq checks /\ UNCHANGED <<op, session, link, late, lock>>
    BY <1>15 DEF CheckApplies, there
  <2>4. CalmConns' /\ CalmLease'
    BY <1>3, <2>3 DEF Calm, CalmConns, CalmLease, Trying
  <2>5. CalmLeaders'
    BY <1>3, <2>2, <2>3 DEF Calm, CalmLeaders, isLeader
  <2>6. CalmChecks'
    BY <1>1, <1>3, <2>2, <2>3 DEF Calm, CalmChecks, isLeader, HereOK, IsCheck
  <2> QED
    BY <2>4, <2>5, <2>6 DEF Calm
<1>16. ASSUME NEW k \in Key, AnotherTakes(k) \/ AnotherGives(k) PROVE Calm'
  <2>1. UNCHANGED <<op, session, handle, checks, link, late>>
    BY <1>16 DEF AnotherTakes, AnotherGives, here
  <2>2. \A i \in Key : lock[i] \in Conn => lock'[i] = lock[i]
    BY <1>4, <1>16, SessionOptions DEF AnotherTakes, AnotherGives
  <2>3. \A h \in Handle : isLeader(h) => lock'[handle[h].key] = handle[h].conn
    <3>1. \A h \in Handle : isLeader(h) => handle[h].conn \in Conn /\ handle[h].key \in Key
      BY <1>1 DEF MadeInv, IsMember, isLeader
    <3> QED
      BY <1>4, <2>2, <3>1
  <2>4. Trying("lease") => lock'[KeyOf[op.by]] = op.conn
    BY <1>1, <1>3, <2>2, OnItsConnection DEF Calm, CalmLease
  <2> QED
    BY <1>1, <1>3, <1>4, <2>1, <2>3, <2>4, CalmSame DEF Trying
<1> QED
  BY <1>5, <1>6, <1>7, <1>8, <1>9, <1>10, <1>11, <1>12, <1>13, <1>14, <1>15, <1>16, StepKinds DEF Stops

(* While no module is stopped and no connection fails, no leader is taken for *)
(* lost (heartbeat and verify of Leader.ts): a check that began before a      *)
(* leader took its lock, or is answered after others came and went, does not  *)
(* count against it.                                                          *)
THEOREM LostOnlyAfterAFault ==
  ~ MayStop => (Spec => []LostMeansFailed)
<1> SUFFICES ASSUME ~ MayStop PROVE Spec => []LostMeansFailed
  OBVIOUS
<1>1. Init => CalmInv
  <2> SUFFICES ASSUME Init PROVE CalmInv
    OBVIOUS
  <2>1. ~ Unused.abandoned /\ Unused.phase = "unused" /\ Unmade.status = "none"
    BY DEF Unused, Unmade
  <2> QED
    BY <2>1 DEF Init, CalmInv, Calm, CalmConns, CalmLeaders, CalmLease, CalmChecks, Trying, isLeader, NoOp
<1>2. SharedInv /\ CalmInv /\ [Next]_vars => CalmInv'
  BY CalmStep
<1>3. SharedInv /\ CalmInv => LostMeansFailed
  <2> SUFFICES ASSUME SharedInv, CalmInv, NEW h \in Handle, handle[h].status = "lost"
               PROVE  used.faults > 0
    BY DEF LostMeansFailed
  <2>1. used.faults \in 0 .. MaxFaults
    BY DEF SharedInv, SessionTypeOK
  <2> QED
    BY <2>1, SessionOptions DEF CalmInv, Calm, CalmLeaders
<1> QED
  BY <1>1, <1>2, <1>3, SessionStaysShared, PTL DEF Spec
=============================================================================
