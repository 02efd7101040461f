--------------------------- MODULE ServicesProofs ---------------------------
(***************************************************************************)
(* Theorems about the processes around the engine (Services), for every    *)
(* value of their constants: any number of hosts, clients, openers,        *)
(* editors, tabs, workers and lines, and any bound.  Each component has an *)
(* inductive invariant of its own, kept by its own steps.                  *)
(***************************************************************************)
EXTENDS Services, FiniteSetTheorems, TLAPS

-----------------------------------------------------------------------------
(* The resident runtime *)

HostPhases == {"down", "locked", "bound", "serving", "stopping", "removed"}
CallerPhases == {"idle", "health", "healthy", "unavailable", "remote", "done"}

\* A server that is up holds the lock, and it is the only one; what it bound and
\* published is its own.
HostHolds(h) ==
  /\ host[h].phase = "down" => host[h].token = 0
  /\ host[h].phase # "down" => lock = host[h].token /\ lock # 0
  /\ host[h].phase \in {"bound", "serving"} => listener = host[h].token
  /\ host[h].phase = "serving" => descriptor = host[h].token

\* What the caller has spent, by how far it is.
CallerHolds(c) ==
  /\ c.phase \in {"idle", "health", "healthy", "unavailable"} => c.runs = 0 /\ c.answer = "none"
  /\ c.phase = "remote" => c.runs = 1 /\ c.answer = "none"
  /\ c.phase = "done" => c.runs <= 1 /\ (c.answer = "outcome" => c.runs = 1)

InstanceInv ==
  /\ host \in [Hosts -> [phase : HostPhases, token : Nat]]
  /\ lock \in Nat /\ descriptor \in Nat /\ listener \in Nat /\ starts \in Nat
  /\ caller \in [Clients -> [phase : CallerPhases, token : Nat, runs : Nat,
                             answer : {"none", "outcome", "error"}]]
  /\ \A h \in Hosts : HostHolds(h)
  /\ \A g, h \in Hosts : host[g].phase # "down" /\ host[h].phase # "down" => g = h
  /\ \A c \in Clients : CallerHolds(caller[c])

\* A step of a server.
LEMMA HostStep ==
  ASSUME InstanceInv, NEW h \in Hosts,
         Acquire(h) \/ Bind(h) \/ Publish(h) \/ Stop(h) \/ DropGuard(h) \/ HostCrash(h)
  PROVE  InstanceInv'
<1>1. UNCHANGED caller
  BY DEF Acquire, Bind, Publish, Stop, DropGuard, HostCrash
<1>2. /\ host \in [Hosts -> [phase : HostPhases, token : Nat]]
      /\ lock \in Nat /\ descriptor \in Nat /\ listener \in Nat /\ starts \in Nat
      /\ HostHolds(h)
      /\ \A g \in Hosts : g # h /\ host[h].phase # "down" => host[g].phase = "down"
  BY DEF InstanceInv
<1>3. /\ host' \in [Hosts -> [phase : HostPhases, token : Nat]]
      /\ lock' \in Nat /\ descriptor' \in Nat /\ listener' \in Nat /\ starts' \in Nat
      /\ \A g \in Hosts : g # h => host'[g] = host[g]
  BY <1>2 DEF Acquire, Bind, Publish, Stop, DropGuard, HostCrash, HostPhases, NoHost
<1>4. \A g \in Hosts : g # h => host[g].phase = "down"
  <2>1. CASE host[h].phase # "down"
    BY <1>2, <2>1
  <2>2. CASE host[h].phase = "down"
    <3>1. Acquire(h)
      BY <2>2 DEF Bind, Publish, Stop, DropGuard, HostCrash
    <3> QED BY <3>1 DEF Acquire, InstanceInv, HostHolds
  <2> QED BY <2>1, <2>2
<1>5. HostHolds(h)'
  BY <1>2 DEF Acquire, Bind, Publish, Stop, DropGuard, HostCrash, HostHolds, Ready, NoHost
<1>6. \A g \in Hosts : g # h => HostHolds(g)'
  BY <1>3, <1>4 DEF InstanceInv, HostHolds
<1>7. \A g, i \in Hosts : host'[g].phase # "down" /\ host'[i].phase # "down" => g = i
  BY <1>3, <1>4
<1> QED BY <1>1, <1>3, <1>5, <1>6, <1>7 DEF InstanceInv

\* A step of a caller.
LEMMA CallerStep ==
  ASSUME InstanceInv, NEW c \in Clients,
         \/ ReadDescriptor(c) \/ CheckHealth(c) \/ SendResolve(c)
         \/ RemoteAnswer(c) \/ RemoteLost(c) \/ ResolveLocally(c) \/ NextNeed(c)
  PROVE  InstanceInv'
<1>1. UNCHANGED <<host, lock, descriptor, listener, starts>>
  BY DEF ReadDescriptor, CheckHealth, SendResolve, RemoteAnswer, RemoteLost,
         ResolveLocally, NextNeed
<1> DEFINE Rows == [phase : CallerPhases, token : Nat, runs : Nat,
                    answer : {"none", "outcome", "error"}]
<1>2. caller \in [Clients -> Rows] /\ descriptor \in Nat /\ CallerHolds(caller[c])
  BY DEF InstanceInv
<1>3. /\ caller' \in [Clients -> Rows]
      /\ \A d \in Clients : d # c => caller'[d] = caller[d]
      /\ CallerHolds(caller'[c])
  <2> USE <1>2 DEF CallerHolds, CallerPhases
  <2>1. CASE ReadDescriptor(c)
    <3> DEFINE phase == IF descriptor = 0 THEN "unavailable" ELSE "health"
    <3>1. /\ caller[c].phase = "idle"
          /\ caller' = [caller EXCEPT ![c].phase = phase, ![c].token = descriptor]
      BY <2>1 DEF ReadDescriptor
    <3>2. phase \in {"unavailable", "health"}
      OBVIOUS
    <3> HIDE DEF phase
    <3> QED BY <3>1, <3>2
  <2>2. CASE CheckHealth(c)
    <3>1. PICK phase \in {"healthy", "unavailable"} :
            caller' = [caller EXCEPT ![c].phase = phase]
      BY <2>2 DEF CheckHealth
    <3>2. caller[c].phase = "health"
      BY <2>2 DEF CheckHealth
    <3> QED BY <3>1, <3>2
  <2>3. CASE SendResolve(c)
    BY <2>3 DEF SendResolve
  <2>4. CASE RemoteAnswer(c)
    BY <2>4 DEF RemoteAnswer
  <2>5. CASE RemoteLost(c)
    BY <2>5 DEF RemoteLost
  <2>6. CASE ResolveLocally(c)
    BY <2>6 DEF ResolveLocally
  <2>7. CASE NextNeed(c)
    BY <2>7 DEF NextNeed, IdleClient
  <2> QED BY <2>1, <2>2, <2>3, <2>4, <2>5, <2>6, <2>7
<1>4. \A d \in Clients : CallerHolds(caller'[d])
  BY <1>3 DEF InstanceInv
<1>5. \A h \in Hosts : HostHolds(h)'
  BY <1>1 DEF InstanceInv, HostHolds
<1> QED BY <1>1, <1>3, <1>4, <1>5 DEF InstanceInv

\* Every step of the resident runtime and its clients keeps the invariant.
LEMMA InstanceStep == InstanceInv /\ [InstanceNext]_instanceVars => InstanceInv'
<1> SUFFICES ASSUME InstanceInv, [InstanceNext]_instanceVars PROVE InstanceInv'
  OBVIOUS
<1>1. CASE UNCHANGED instanceVars
  BY <1>1 DEF instanceVars, InstanceInv, HostHolds
<1> QED BY <1>1, HostStep, CallerStep DEF InstanceNext

\* Initially nothing runs.
LEMMA InstanceStart == InstanceInit => InstanceInv
  BY DEF InstanceInit, InstanceInv, HostHolds, CallerHolds, NoHost, IdleClient,
         HostPhases, CallerPhases

\* The invariant says that a serving runtime is found and a need costs one
\* resolution.
LEMMA InstanceServes == InstanceInv => ResidentServesOnce
<1> SUFFICES ASSUME InstanceInv PROVE ResidentServesOnce
  OBVIOUS
<1>1. \A c \in Clients : caller[c].runs <= 1 /\ (caller[c].answer = "outcome" => caller[c].runs = 1)
  BY DEF InstanceInv, CallerHolds, CallerPhases
<1>2. ServingIsFound
  BY DEF InstanceInv, HostHolds, ServingIsFound
<1> QED BY <1>1, <1>2 DEF ResidentServesOnce
-----------------------------------------------------------------------------
(* Opening the store *)

OpenerPhases == {"closed", "run first", "check", "migrate", "next", "open", "refused"}
OpenerRow == [phase : OpenerPhases, version : Nat]
Databases == [applied : Seq(STRING), ran : Seq(STRING)]

\* Version v is recorded with the text this program was built with.
Matches(applied, o, v) == v <= Len(applied) /\ applied[v] = Migrations[o][v]

\* A call has found every version it has passed.
OpenerHolds(applied, o, row) ==
  /\ row.phase # "closed" => row.version \in 1 .. Len(Migrations[o])
  /\ row.phase \in {"check", "migrate"} => \A u \in 1 .. (row.version - 1) : Matches(applied, o, u)
  /\ row.phase \in {"next", "open"} => \A u \in 1 .. row.version : Matches(applied, o, u)
  /\ row.phase = "open" => row.version = Len(Migrations[o])

\* The first version is the one every build agrees on.
FirstAgrees(applied) == Len(applied) >= 1 => \A o \in Openers : applied[1] = Migrations[o][1]

OpeningInv ==
  /\ database \in Databases
  /\ database.ran = database.applied
  /\ opener \in [Openers -> OpenerRow]
  /\ FirstAgrees(database.applied)
  /\ \A o \in Openers : OpenerHolds(database.applied, o, opener[o])

\* A sequence of one element.
LEMMA OneElement ==
  ASSUME NEW S, NEW x \in S
  PROVE  <<x>> \in Seq(S) /\ Len(<<x>>) = 1 /\ <<x>>[1] = x /\ <<x>> = Append(<<>>, x)
OBVIOUS

\* The journal of versions only grows, so that what was found stays.
LEMMA VersionsKept ==
  ASSUME NEW old \in Seq(STRING), NEW text \in STRING, NEW o \in Openers,
         NEW v \in Nat \ {0}, Matches(old, o, v)
  PROVE  Matches(Append(old, text), o, v)
<1>1. v \in 1 .. Len(old)
  BY DEF Matches
<1>2. Len(Append(old, text)) = Len(old) + 1 /\ Append(old, text)[v] = old[v]
  BY <1>1
<1> QED BY <1>1, <1>2 DEF Matches

\* A program's first step past the version it was at.
LEMMA UpToNext ==
  ASSUME NEW applied, NEW o \in Openers, NEW v \in Nat, v >= 1,
         \A u \in 1 .. (v - 1) : Matches(applied, o, u), Matches(applied, o, v)
  PROVE  \A u \in 1 .. v : Matches(applied, o, u)
<1>1. \A u \in 1 .. v : u \in 1 .. (v - 1) \/ u = v
  OBVIOUS
<1> QED BY <1>1

\* A call of initialize moves on, and only its own record.
LEMMA OpenerMoves ==
  ASSUME OpeningInv, NEW o \in Openers, NEW phase \in OpenerPhases, NEW version \in Nat,
         opener' = [opener EXCEPT ![o] = [phase |-> phase, version |-> version]],
         database' \in Databases, database'.ran = database'.applied, FirstAgrees(database'.applied),
         \/ database' = database
         \/ \E text \in STRING : database'.applied = Append(database.applied, text),
         OpenerHolds(database'.applied, o, [phase |-> phase, version |-> version])
  PROVE  OpeningInv'
<1>1. /\ opener' \in [Openers -> OpenerRow]
      /\ opener'[o] = [phase |-> phase, version |-> version]
      /\ \A p \in Openers : p # o => opener'[p] = opener[p]
  BY DEF OpeningInv, OpenerRow
<1>2. ASSUME NEW p \in Openers, p # o PROVE OpenerHolds(database'.applied, p, opener'[p])
  <2>1. /\ OpenerHolds(database.applied, p, opener[p]) /\ opener'[p] = opener[p]
        /\ opener[p].version \in Nat /\ database.applied \in Seq(STRING)
    BY <1>1, <1>2 DEF OpeningInv, OpenerRow, Databases
  <2>2. \A v \in Nat \ {0} : Matches(database.applied, p, v) => Matches(database'.applied, p, v)
    BY <2>1, VersionsKept
  <2>3. \A v, n \in Nat : v \in 1 .. n => v \in Nat \ {0}
    OBVIOUS
  <2>4. \A n \in Nat : \A v \in 1 .. (n - 1) : v \in Nat \ {0}
    OBVIOUS
  <2> QED BY <2>1, <2>2, <2>3, <2>4 DEF OpenerHolds
<1> QED BY <1>1, <1>2 DEF OpeningInv

\* Every step of every opener keeps the invariant.
LEMMA OpeningStep == OpeningInv /\ [OpeningNext]_openingVars => OpeningInv'
<1> SUFFICES ASSUME OpeningInv, [OpeningNext]_openingVars PROVE OpeningInv'
  OBVIOUS
<1>1. CASE UNCHANGED openingVars
  BY <1>1 DEF openingVars, OpeningInv
<1>2. ASSUME NEW o \in Openers,
             \/ Connect(o) \/ RunFirst(o) \/ CheckVersion(o) \/ RecordFirst(o)
             \/ ApplyMigration(o) \/ NextVersion(o) \/ OpeningFails(o) \/ OpenerDies(o)
      PROVE  OpeningInv'
  <2> DEFINE v == opener[o].version
             phase == opener[o].phase
             Row(p, n) == [phase |-> p, version |-> n]
  <2>1. /\ v \in Nat /\ phase \in OpenerPhases
        /\ OpenerHolds(database.applied, o, opener[o]) /\ FirstAgrees(database.applied)
        /\ Migrations[o] \in Seq(STRING) /\ Len(Migrations[o]) \in Nat
        /\ Len(Migrations[o]) > 0
        /\ database \in Databases /\ database.applied \in Seq(STRING)
        /\ Len(database.applied) \in Nat
        /\ database.ran = database.applied
    BY OpeningConstants DEF OpeningInv, OpenerRow, Databases
  \* An unchanged file asks for nothing but the new record.
  <2>2. ASSUME NEW p \in OpenerPhases, NEW n \in Nat, database' = database,
               opener' = [opener EXCEPT ![o] = Row(p, n)],
               OpenerHolds(database.applied, o, Row(p, n))
        PROVE  OpeningInv'
    BY <2>1, <2>2, OpenerMoves
  <2>3. CASE Connect(o)
    <3>1. /\ opener' = [opener EXCEPT ![o] = Row("run first", 1)]
          /\ database' = database
      BY <2>3 DEF Connect
    <3>2. OpenerHolds(database.applied, o, Row("run first", 1))
      BY <2>1 DEF OpenerHolds
    <3> HIDE DEF Row
    <3> QED BY <2>2, <3>1, <3>2 DEF OpenerPhases
  <2>4. CASE RunFirst(o)
    <3>1. /\ opener' = [opener EXCEPT ![o] = Row("check", 1)]
          /\ database' = database
      BY <2>4 DEF RunFirst, ToVersion
    <3>2. OpenerHolds(database.applied, o, Row("check", 1))
      <4>1. \A u \in 1 .. (1 - 1) : FALSE
        OBVIOUS
      <4> QED BY <2>1, <4>1 DEF OpenerHolds
    <3> HIDE DEF Row
    <3> QED BY <2>2, <3>1, <3>2 DEF OpenerPhases
  <2>5. CASE CheckVersion(o)
    <3>1. /\ phase = "check" /\ database' = database
          /\ \A u \in 1 .. (v - 1) : Matches(database.applied, o, u)
          /\ v \in 1 .. Len(Migrations[o])
      BY <2>1, <2>5 DEF CheckVersion, OpenerHolds
    <3>2. \/ opener' = [opener EXCEPT ![o] = Row("migrate", v)]
          \/ /\ opener' = [opener EXCEPT ![o] = Row("next", v)]
             /\ Matches(database.applied, o, v)
          \/ opener' = [opener EXCEPT ![o] = Row("refused", v)]
      BY <2>5 DEF CheckVersion, ToVersion, Matches, Applied
    <3>3. OpenerHolds(database.applied, o, Row("migrate", v))
      BY <3>1 DEF OpenerHolds
    <3>4. OpenerHolds(database.applied, o, Row("refused", v))
      BY <3>1 DEF OpenerHolds
    <3>5. Matches(database.applied, o, v) => OpenerHolds(database.applied, o, Row("next", v))
      <4>1. Matches(database.applied, o, v) => \A u \in 1 .. v : Matches(database.applied, o, u)
        BY <2>1, <3>1, UpToNext
      <4> QED BY <3>1, <4>1 DEF OpenerHolds
    <3> HIDE DEF Row, v
    <3> QED BY <2>1, <2>2, <3>1, <3>2, <3>3, <3>4, <3>5 DEF OpenerPhases
  <2>6. CASE RecordFirst(o)
    <3>1. /\ opener' = [opener EXCEPT ![o] = Row("next", 1)]
          /\ database' = IF Applied(1) THEN database
                         ELSE [applied |-> <<Migrations[o][1]>>, ran |-> <<Migrations[o][1]>>]
      BY <2>6 DEF RecordFirst, ToVersion
    <3>2. ASSUME NEW applied, Matches(applied, o, 1)
          PROVE  OpenerHolds(applied, o, Row("next", 1))
      <4>1. \A u \in 1 .. 1 : u = 1
        OBVIOUS
      <4> QED BY <2>1, <3>2, <4>1 DEF OpenerHolds
    <3>3. CASE Applied(1)
      <4>1. Matches(database.applied, o, 1)
        BY <2>1, <3>3 DEF Applied, Matches, FirstAgrees
      <4> HIDE DEF Row
      <4> QED BY <2>2, <3>1, <3>2, <3>3, <4>1 DEF OpenerPhases
    <3>4. CASE ~Applied(1)
      <4> DEFINE text == Migrations[o][1]
      <4>1. text \in STRING
        BY <2>1
      <4>2. database' = [applied |-> <<text>>, ran |-> <<text>>] /\ database.applied = <<>>
        BY <2>1, <3>1, <3>4 DEF Applied
      <4>3. \A p \in Openers : text = Migrations[p][1]
        BY FirstIsFixed
      <4> HIDE DEF text
      <4>4. /\ <<text>> \in Seq(STRING) /\ Len(<<text>>) = 1 /\ <<text>>[1] = text
            /\ <<text>> = Append(<<>>, text)
        BY <4>1, OneElement
      <4>5. /\ database' \in Databases /\ database'.ran = database'.applied
            /\ database'.applied = Append(database.applied, text)
            /\ FirstAgrees(database'.applied)
            /\ Matches(database'.applied, o, 1)
        BY <4>2, <4>3, <4>4 DEF Databases, FirstAgrees, Matches
      <4>6. OpenerHolds(database'.applied, o, Row("next", 1))
        BY <3>2, <4>5
      <4> QED BY <3>1, <4>1, <4>5, <4>6, OpenerMoves DEF OpenerPhases
    <3> QED BY <3>3, <3>4
  <2>7. CASE ApplyMigration(o)
    <3>1. /\ phase = "migrate" /\ v > 1 /\ v \in 1 .. Len(Migrations[o])
          /\ \A u \in 1 .. (v - 1) : Matches(database.applied, o, u)
      BY <2>1, <2>7 DEF ApplyMigration, OpenerHolds
    <3>2. CASE Applied(v)
      <4>1. /\ opener' = [opener EXCEPT ![o] = Row("refused", v)]
            /\ database' = database
        BY <2>7, <3>2 DEF ApplyMigration, ToVersion
      <4>2. OpenerHolds(database.applied, o, Row("refused", v))
        BY <3>1 DEF OpenerHolds
      <4> HIDE DEF Row, v
      <4> QED BY <2>1, <2>2, <4>1, <4>2 DEF OpenerPhases
    <3>3. CASE ~Applied(v)
      <4> DEFINE text == Migrations[o][v]
                 grown == Append(database.applied, text)
      <4>1. text \in STRING
        BY <2>1, <3>1
      <4>2. /\ opener' = [opener EXCEPT ![o] = Row("next", v)]
            /\ database' = [applied |-> grown, ran |-> grown]
        BY <2>1, <2>7, <3>3 DEF ApplyMigration, ToVersion
      \* Every version below is there and this one is not: it is the next.
      <4>3. Len(database.applied) = v - 1
        <5>1. v - 1 \in 1 .. (v - 1)
          BY <2>1, <3>1
        <5>2. v - 1 <= Len(database.applied)
          BY <3>1, <5>1 DEF Matches
        <5> QED BY <2>1, <3>3, <5>2 DEF Applied
      <4>4. grown[v] = text /\ Len(grown) = v /\ grown \in Seq(STRING)
        <5>1. Len(grown) = Len(database.applied) + 1 /\ grown[Len(database.applied) + 1] = text
          BY <2>1, <4>1
        <5> QED BY <2>1, <4>1, <4>3, <5>1
      <4>5. Matches(grown, o, v)
        BY <2>1, <4>4 DEF Matches
      <4>6. FirstAgrees(grown)
        <5>1. Len(database.applied) >= 1 /\ grown[1] = database.applied[1]
          BY <2>1, <3>1, <4>1, <4>3
        <5> HIDE DEF grown
        <5> QED BY <2>1, <5>1 DEF FirstAgrees
      <4>7. \A u \in 1 .. v : Matches(grown, o, u)
        <5>1. \A u \in 1 .. (v - 1) : u \in Nat \ {0}
          BY <2>1
        <5> HIDE DEF text, v
        <5>2. \A u \in 1 .. (v - 1) : Matches(grown, o, u)
          BY <2>1, <3>1, <4>1, <5>1, VersionsKept
        <5> HIDE DEF grown
        <5> QED BY <2>1, <3>1, <4>5, <5>2, UpToNext
      <4>8. OpenerHolds(grown, o, Row("next", v))
        BY <3>1, <4>7 DEF OpenerHolds
      <4>9. \E w \in STRING : grown = Append(database.applied, w)
        BY <4>1
      <4> HIDE DEF grown, text, v
      <4>10. /\ database' \in Databases /\ database'.ran = database'.applied
             /\ database'.applied = grown
        BY <4>2, <4>4 DEF Databases
      <4> QED BY <2>1, <4>2, <4>6, <4>8, <4>9, <4>10, OpenerMoves DEF OpenerPhases
    <3> QED BY <3>2, <3>3
  <2>8. CASE NextVersion(o)
    <3>1. /\ phase = "next" /\ database' = database /\ v \in 1 .. Len(Migrations[o])
          /\ \A u \in 1 .. v : Matches(database.applied, o, u)
      BY <2>1, <2>8 DEF NextVersion, OpenerHolds
    <3>2. \/ /\ opener' = [opener EXCEPT ![o] = Row("check", v + 1)]
             /\ v < Len(Migrations[o])
          \/ /\ opener' = [opener EXCEPT ![o] = Row("open", v)]
             /\ v = Len(Migrations[o])
      BY <2>1, <2>8, <3>1 DEF NextVersion, ToVersion
    <3>3. v + 1 \in Nat /\ (v + 1) - 1 = v
      BY <2>1
    <3>4. v < Len(Migrations[o]) => OpenerHolds(database.applied, o, Row("check", v + 1))
      BY <2>1, <3>1, <3>3 DEF OpenerHolds
    <3>5. v = Len(Migrations[o]) => OpenerHolds(database.applied, o, Row("open", v))
      BY <2>1, <3>1 DEF OpenerHolds
    <3> HIDE DEF v, Row
    <3> QED BY <2>1, <2>2, <3>1, <3>2, <3>3, <3>4, <3>5 DEF OpenerPhases
  <2>9. CASE OpeningFails(o)
    <3>1. /\ opener' = [opener EXCEPT ![o] = Row("refused", v)]
          /\ database' = database /\ v \in 1 .. Len(Migrations[o])
      BY <2>1, <2>9 DEF OpeningFails, ToVersion, OpenerHolds
    <3>2. OpenerHolds(database.applied, o, Row("refused", v))
      BY <3>1 DEF OpenerHolds
    <3> HIDE DEF v, Row
    <3> QED BY <2>1, <2>2, <3>1, <3>2 DEF OpenerPhases
  <2>10. CASE OpenerDies(o)
    <3>1. /\ opener' = [opener EXCEPT ![o] = Row("closed", 0)]
          /\ database' = database
      BY <2>10 DEF OpenerDies, Closed
    <3>2. OpenerHolds(database.applied, o, Row("closed", 0))
      BY DEF OpenerHolds
    <3> HIDE DEF Row
    <3> QED BY <2>2, <3>1, <3>2 DEF OpenerPhases
  <2> QED BY <1>2, <2>3, <2>4, <2>5, <2>6, <2>7, <2>8, <2>9, <2>10
<1> QED BY <1>1, <1>2 DEF OpeningNext

\* Initially the file is empty and nobody has it open.
LEMMA OpeningStart == OpeningInit => OpeningInv
<1> SUFFICES ASSUME OpeningInit PROVE OpeningInv
  OBVIOUS
<1>1. <<>> \in Seq(STRING) /\ Len(<<>>) = 0
  OBVIOUS
<1> QED
  BY <1>1 DEF OpeningInit, OpeningInv, OpenerHolds, FirstAgrees, Closed, OpenerPhases,
              OpenerRow, Databases

\* The invariant says that an open store has its whole schema.
LEMMA OpeningIsWhole == OpeningInv => OpenStoreIsWhole
<1> SUFFICES ASSUME OpeningInv PROVE OpenStoreIsWhole
  OBVIOUS
<1>1. ASSUME NEW o \in Openers, opener[o].phase = "open", NEW v \in DOMAIN Migrations[o]
      PROVE  Matches(database.applied, o, v)
  <2>1. DOMAIN Migrations[o] = 1 .. Len(Migrations[o])
    BY OpeningConstants
  <2> QED BY <1>1, <2>1 DEF OpeningInv, OpenerHolds
<1> QED BY <1>1 DEF OpeningInv, OpenStoreIsWhole, Matches, Applied

-----------------------------------------------------------------------------
(* The authority of a capability *)

ModeChange == [previous : Modes, mode : Modes, evidence : {NoEvidence, 1}]
Capability == [mode : Modes, evidence : {NoEvidence, 1}]

\* The mode before row i.
ModeBefore(trail, i) == IF i = 1 THEN "shadow" ELSE trail[i - 1].mode

\* The rows lead from shadow to the stored mode, and the last one has its evidence.
Retraced(trail, capability) ==
  /\ \A i \in 1 .. Len(trail) : trail[i].previous = ModeBefore(trail, i)
  /\ capability.mode = ModeBefore(trail, Len(trail) + 1)
  /\ capability.mode # "shadow" =>
       capability.evidence = trail[Len(trail)].evidence /\ capability.evidence # NoEvidence

\* A request for a change of authority names a mode.
TabHolds(t) ==
  /\ {"at", "view", "body"} \subseteq DOMAIN t
  /\ t.at = "capability" => t.body.mode \in Modes /\ t.body.evidence \in {NoEvidence, 1}

PlaneInv ==
  /\ {"settings", "policy", "routes", "promoted", "capability", "audit", "writes"} \subseteq DOMAIN plane
  /\ plane.audit \in Seq(ModeChange) /\ plane.capability \in Capability
  /\ Retraced(plane.audit, plane.capability)
  /\ DOMAIN tab = Tabs
  /\ \A e \in Tabs : TabHolds(tab[e])

\* One more row retraces one more change.
LEMMA RetracedOnce ==
  ASSUME NEW trail \in Seq(ModeChange), NEW capability \in Capability, Retraced(trail, capability),
         NEW mode \in Modes, NEW evidence \in {NoEvidence, 1}, ~Unfounded(mode, evidence)
  PROVE  /\ Append(trail, [previous |-> capability.mode, mode |-> mode, evidence |-> evidence])
              \in Seq(ModeChange)
         /\ Retraced(Append(trail, [previous |-> capability.mode, mode |-> mode, evidence |-> evidence]),
                     [mode |-> mode, evidence |-> evidence])
<1> DEFINE row == [previous |-> capability.mode, mode |-> mode, evidence |-> evidence]
           grown == Append(trail, row)
           n == Len(trail)
<1>1. row \in ModeChange /\ n \in Nat
  BY DEF ModeChange, Capability
<1>2. row.previous = capability.mode /\ row.mode = mode /\ row.evidence = evidence
  OBVIOUS
<1> HIDE DEF row
<1>3. /\ grown \in Seq(ModeChange) /\ Len(grown) = n + 1 /\ grown[n + 1] = row
      /\ \A i \in 1 .. n : grown[i] = trail[i]
  BY <1>1
<1> HIDE DEF grown
<1>4. \A i \in 1 .. n : ModeBefore(grown, i) = ModeBefore(trail, i)
  BY <1>1, <1>3 DEF ModeBefore
<1>5. ModeBefore(grown, n + 1) = ModeBefore(trail, n + 1)
  BY <1>1, <1>3 DEF ModeBefore
<1>6. ASSUME NEW i \in 1 .. Len(grown) PROVE grown[i].previous = ModeBefore(grown, i)
  <2>1. i \in 1 .. n \/ i = n + 1
    BY <1>1, <1>3
  <2>2. CASE i \in 1 .. n
    BY <1>3, <1>4, <2>2 DEF Retraced
  <2>3. CASE i = n + 1
    BY <1>2, <1>3, <1>5, <2>3 DEF Retraced
  <2> QED BY <2>1, <2>2, <2>3
<1>7. mode = ModeBefore(grown, Len(grown) + 1)
  BY <1>1, <1>2, <1>3 DEF ModeBefore
<1>8. mode # "shadow" => evidence = grown[Len(grown)].evidence /\ evidence # NoEvidence
  BY <1>1, <1>2, <1>3 DEF Unfounded
<1>9. Retraced(grown, [mode |-> mode, evidence |-> evidence])
  BY <1>6, <1>7, <1>8 DEF Retraced
<1> QED BY <1>3, <1>9 DEF grown, row

\* Every other step leaves the authority and its audit rows alone.
LEMMA PlaneOtherStep ==
  ASSUME PlaneInv, [PlaneNext]_planeVars, \A e \in Tabs : ~SetCapabilityMode(e)
  PROVE  DOMAIN plane' = DOMAIN plane /\ plane'.audit = plane.audit
         /\ plane'.capability = plane.capability
<1> DEFINE Kept == /\ DOMAIN plane' = DOMAIN plane /\ plane'.audit = plane.audit
                   /\ plane'.capability = plane.capability
<1>1. ASSUME NEW next, Counted(next), DOMAIN next = DOMAIN plane, next.audit = plane.audit,
             next.capability = plane.capability
      PROVE  Kept
  BY <1>1 DEF Counted, PlaneInv
<1>2. ASSUME NEW e \in Tabs, TabStep(e) PROVE Kept
  <2>1. CASE WriteSettings(e)
    BY <1>1, <2>1 DEF WriteSettings, PlaneInv
  <2>2. CASE WritePolicy(e)
    BY <1>1, <2>2 DEF WritePolicy, PlaneInv
  <2>3. CASE WriteRoute(e)
    BY <1>1, <2>3 DEF WriteRoute, PlaneInv
  <2>4. CASE UNCHANGED plane
    BY <2>4
  <2> QED
    BY <1>2, <2>1, <2>2, <2>3, <2>4
       DEF TabStep, ViewPlane, CheckPolicy, SelectRoute, SubmitSettings, SubmitPolicy,
           SubmitRoute, SubmitCapability, Begin
<1>3. ASSUME NEW settings, InitializeDefaults(settings) PROVE Kept
  BY <1>1, <1>3 DEF InitializeDefaults, PlaneInv
<1>4. ASSUME NEW file, ImportToml(file) PROVE Kept
  BY <1>1, <1>4 DEF ImportToml, PlaneInv
<1>5. ASSUME NEW r, NEW m, PromoteRouteProfile(r, m) PROVE Kept
  BY <1>1, <1>5 DEF PromoteRouteProfile, PlaneInv
<1>6. Launch \/ UNCHANGED planeVars => Kept
  BY DEF Launch, planeVars
<1> QED BY <1>2, <1>3, <1>4, <1>5, <1>6 DEF PlaneNext

\* What a step does to the tabs.
LEMMA PlaneTabs ==
  ASSUME PlaneInv, [PlaneNext]_planeVars
  PROVE  DOMAIN tab' = Tabs /\ \A e \in Tabs : TabHolds(tab'[e])
<1> DEFINE Held == DOMAIN tab' = Tabs /\ \A d \in Tabs : TabHolds(tab'[d])
<1>1. DOMAIN tab = Tabs /\ \A d \in Tabs : TabHolds(tab[d])
  BY DEF PlaneInv
<1>2. ASSUME NEW e \in Tabs, TabStep(e) PROVE Held
  <2>1. ASSUME NEW at, NEW fresh, NEW body, Begin(e, at, fresh, body), at # "capability"
        PROVE  Held
    BY <1>1, <2>1 DEF Begin, TabHolds
  <2>2. ASSUME NEW mode \in Modes, NEW evidence \in {NoEvidence, 1},
               SubmitCapability(e, mode, evidence)
        PROVE  Held
    BY <1>1, <2>2 DEF SubmitCapability, Begin, TabHolds
  <2>3. CASE Done(e)
    BY <1>1, <2>3 DEF Done, TabHolds
  <2>4. CASE ViewPlane(e)
    BY <1>1, <2>4 DEF ViewPlane, TabHolds
  <2>5. CASE SelectRoute(e)
    BY <1>1, <2>5 DEF SelectRoute, TabHolds
  <2>6. CASE CheckPolicy(e)
    BY <1>1, <2>3, <2>6 DEF CheckPolicy, TabHolds
  <2> QED
    BY <1>2, <2>1, <2>2, <2>3, <2>4, <2>5, <2>6
       DEF TabStep, WriteSettings, WritePolicy, WriteRoute, SetCapabilityMode, SetModeFrom,
           SubmitSettings, SubmitPolicy, SubmitRoute
<1>3. UNCHANGED tab => Held
  BY <1>1
<1> QED
  BY <1>2, <1>3 DEF PlaneNext, planeVars, Launch, InitializeDefaults, ImportToml,
                    PromoteRouteProfile

\* Every step of the control plane keeps the invariant.
LEMMA PlaneStep == PlaneInv /\ [PlaneNext]_planeVars => PlaneInv'
<1> SUFFICES ASSUME PlaneInv, [PlaneNext]_planeVars PROVE PlaneInv'
  OBVIOUS
<1>1. DOMAIN tab' = Tabs /\ \A e \in Tabs : TabHolds(tab'[e])
  BY PlaneTabs
<1>2. CASE \A e \in Tabs : ~SetCapabilityMode(e)
  BY <1>1, <1>2, PlaneOtherStep DEF PlaneInv
<1>3. ASSUME NEW e \in Tabs, SetCapabilityMode(e) PROVE PlaneInv'
  <2> DEFINE mode == tab[e].body.mode
             evidence == tab[e].body.evidence
  <2>1. CASE UNCHANGED plane
    BY <1>1, <2>1 DEF PlaneInv
  <2>2. CASE /\ ~Unfounded(mode, evidence)
             /\ plane' = [plane EXCEPT
                  !.capability = [mode |-> mode, evidence |-> evidence],
                  !.audit = Append(@, [previous |-> plane.capability.mode, mode |-> mode,
                                       evidence |-> evidence])]
    <3>1. mode \in Modes /\ evidence \in {NoEvidence, 1}
      BY <1>3 DEF SetCapabilityMode, SetModeFrom, PlaneInv, TabHolds
    <3> HIDE DEF mode, evidence
    <3>2. /\ plane.audit \in Seq(ModeChange) /\ plane.capability \in Capability
          /\ Retraced(plane.audit, plane.capability)
      BY DEF PlaneInv
    <3>3. /\ DOMAIN plane' = DOMAIN plane
          /\ plane'.capability = [mode |-> mode, evidence |-> evidence]
          /\ plane'.audit = Append(plane.audit, [previous |-> plane.capability.mode, mode |-> mode,
                                                 evidence |-> evidence])
      BY <2>2 DEF PlaneInv
    <3>4. [mode |-> mode, evidence |-> evidence] \in Capability
      BY <3>1 DEF Capability
    <3>5. plane'.audit \in Seq(ModeChange) /\ Retraced(plane'.audit, plane'.capability)
      BY <2>2, <3>1, <3>2, <3>3, RetracedOnce
    <3> QED BY <1>1, <3>3, <3>4, <3>5 DEF PlaneInv
  <2> QED BY <1>3, <2>1, <2>2 DEF SetCapabilityMode, SetModeFrom
<1> QED BY <1>2, <1>3

\* Initially the capability is in shadow and no row was written.
LEMMA PlaneStart == PlaneInit => PlaneInv
<1> SUFFICES ASSUME PlaneInit PROVE PlaneInv
  OBVIOUS
<1>1. <<>> \in Seq(ModeChange) /\ Len(<<>>) = 0
  OBVIOUS
<1>2. /\ {"settings", "policy", "routes", "promoted", "capability", "audit", "writes"} \subseteq DOMAIN plane
      /\ plane.audit = <<>> /\ plane.capability = [mode |-> "shadow", evidence |-> NoEvidence]
  BY DEF PlaneInit
<1>3. [mode |-> "shadow", evidence |-> NoEvidence] \in Capability
  BY DEF Capability, Modes
<1>4. Retraced(<<>>, [mode |-> "shadow", evidence |-> NoEvidence])
  BY <1>1 DEF Retraced, ModeBefore
<1>5. DOMAIN tab = Tabs /\ \A e \in Tabs : TabHolds(tab[e])
  BY DEF PlaneInit, IdleTab, TabHolds
<1> QED BY <1>1, <1>2, <1>3, <1>4, <1>5 DEF PlaneInv

\* The invariant says that the authority can be retraced.
LEMMA PlaneIsAudited == PlaneInv => AuthorityIsAudited
<1> SUFFICES ASSUME PlaneInv PROVE AuthorityIsAudited
  OBVIOUS
<1>1. DOMAIN plane.audit = 1 .. Len(plane.audit)
  BY DEF PlaneInv
<1> QED BY <1>1 DEF PlaneInv, Retraced, ModeBefore, AuthorityIsAudited

-----------------------------------------------------------------------------
(* The pilot *)

PilotFields ==
  {"at", "mode", "main", "miss", "hit", "observed", "certified", "authoritative", "costs",
   "tasks", "report"}

Arms == MainArms \cup MissArms \cup HitArms \cup {Skipped}

CostRows == Seq({"fresh", "reuse_bootstrap", "reuse"})
HasCost(costs, c) == \E i \in DOMAIN costs : costs[i] = c

\* A task that passed had one worker run.
TasksHold(tasks) == \A i \in DOMAIN tasks : tasks[i].passed = TRUE => Len(tasks[i].miss.runs) = 1

\* What a passing report says of the arms (the fourth part of PilotEarnsItsClaims).
PassedHolds(p) ==
  /\ Spawns(p.hit) = 0
  /\ ReusedArtifacts(p) # {} /\ ReusedArtifacts(p) \subseteq p.certified
  /\ TotalCost(p.hit) < TotalCost(p.miss)
  /\ Economic(p.mode) => TotalCost(p.miss) < TotalCost(p.main)

\* What a passing campaign says of its tasks (the fifth part).
TasksPassed(tasks) == \A i \in DOMAIN tasks : Len(tasks[i].miss.runs) = 1

ReportEarned(p) == IF p.mode.kind = "multi task" THEN TasksPassed(p.tasks) ELSE PassedHolds(p)

\* What the run has earned, however it ended.
Earned(p) ==
  /\ p.authoritative # {} => /\ valid_miss(p.miss) /\ p.miss.certified # {}
                             /\ HasCost(p.costs, "fresh") /\ HasCost(p.costs, "reuse_bootstrap")
  /\ "hit" \in p.observed => Promoted(p)
  /\ Economic(p.mode) /\ "miss" \in p.observed => valid_main_only_arm(p.main)

\* What it takes to be where the run is.
Reached(p) ==
  /\ p.at \in {"idle", "refused", "main", "miss", "fresh cost", "bootstrap cost",
               "task main", "task miss", "task report"} =>
       p.authoritative = {} /\ "hit" \notin p.observed
  /\ p.at \in {"idle", "main", "miss"} => "miss" \notin p.observed
  /\ p.at \in {"fresh cost", "bootstrap cost", "promoting"} =>
       valid_miss(p.miss) /\ p.miss.certified # {}
  /\ p.at \in {"bootstrap cost", "promoting"} => HasCost(p.costs, "fresh")
  /\ p.at = "promoting" => HasCost(p.costs, "reuse_bootstrap") /\ "hit" \notin p.observed
  /\ p.at \in {"miss", "fresh cost", "bootstrap cost", "promoting", "closing"} =>
       /\ Economic(p.mode) => valid_main_only_arm(p.main)
       /\ p.mode.kind # "multi task"
  /\ p.at = "main" => p.mode.kind # "multi task"
  /\ p.at \in {"task main", "task miss", "task report"} => p.mode.kind = "multi task"
  /\ p.at # "ended" => p.report = "none"
  /\ p.report = "passed" => ReportEarned(p)

PilotTyped(p) ==
  /\ PilotFields \subseteq DOMAIN p
  /\ p.mode \in PilotModes
  /\ p.main \in Arms /\ p.miss \in Arms /\ p.hit \in Arms
  /\ p.costs \in CostRows
  /\ p.tasks \in Seq([main : Arms, miss : Arms, passed : BOOLEAN])
  /\ TasksHold(p.tasks)

PilotInv == PilotTyped(pilot) /\ Earned(pilot) /\ Reached(pilot)

\* An arm without worker runs spawned none.
LEMMA NoRunsNoSpawns ==
  ASSUME NEW arm, arm.runs = <<>>
  PROVE  Spawns(arm) = 0
<1>1. DOMAIN [i \in DOMAIN arm.runs |-> arm.runs[i].spawns] = {}
  OBVIOUS
<1> QED
  BY <1>1 DEF Spawns, Folding!FoldFunction, Folding!FoldFunctionOnSet, Folding!MapThenFoldSet

\* What a price is.
LEMMA ArmCost ==
  ASSUME NEW arm \in Arms
  PROVE  TotalCost(arm) \in Nat \cup {Unpriced}
<1>1. arm.main \in Nat \cup {Unpriced} /\ arm.worker \in Nat \cup {Unpriced}
  BY ArmsArePriced DEF Arms, Skipped
<1> QED BY <1>1 DEF TotalCost, Unpriced

\* Savings are positive only when the candidate costs less.
LEMMA SavingCostsLess ==
  ASSUME NEW baseline \in Nat \cup {Unpriced}, NEW candidate \in Nat \cup {Unpriced},
         Saves(baseline, candidate)
  PROVE  candidate < baseline
<1> SUFFICES ASSUME ~(candidate < baseline) PROVE FALSE
  OBVIOUS
<1>1. baseline \in Nat /\ baseline > 0 /\ candidate \in Nat
  BY DEF Saves, savings_basis_points, Unpriced
<1>2. candidate >= baseline
  BY <1>1
<1> DEFINE more == (candidate - baseline) * 10000
<1>3. more \in Nat
  BY <1>1, <1>2
<1>4. -(more \div baseline) > 0
  BY <1>1, <1>2 DEF Saves, savings_basis_points, Unpriced
<1> HIDE DEF more
<1>5. more \div baseline >= 0
  BY <1>1, <1>3
<1> QED BY <1>1, <1>3, <1>4, <1>5

\* A report that passes says what evaluate_report looked at.
LEMMA PassedReport ==
  ASSUME NEW p, PilotTyped(p), NEW clean, evaluate_report(p, clean)
  PROVE  PassedHolds(p)
<1>1. CommonChecks(p) /\ (IF Economic(p.mode) THEN EconomicChecks(p) ELSE TotalCost(p.hit) < TotalCost(p.miss))
  BY DEF evaluate_report
<1>2. Spawns(p.hit) = 0
  BY <1>1, NoRunsNoSpawns DEF CommonChecks, ZeroWorker
<1>3. ReusedArtifacts(p) # {} /\ ReusedArtifacts(p) \subseteq p.certified
  <2>1. Cardinality({}) = 0
    BY FS_EmptySet
  <2>2. /\ Cardinality(ReusedArtifacts(p)) >= ExpectedReuse(p.mode)
        /\ ReusedArtifacts(p) \subseteq p.certified
    BY <1>1 DEF CommonChecks, SameArtifact
  <2>3. ExpectedReuse(p.mode) \in {1, 2}
    BY DEF ExpectedReuse
  <2>4. ReusedArtifacts(p) = {} => Cardinality(ReusedArtifacts(p)) = 0
    BY <2>1
  <2> QED BY <2>2, <2>3, <2>4
<1>4. /\ TotalCost(p.hit) \in Nat \cup {Unpriced} /\ TotalCost(p.miss) \in Nat \cup {Unpriced}
      /\ TotalCost(p.main) \in Nat \cup {Unpriced}
  BY ArmCost DEF PilotTyped
<1>5. TotalCost(p.hit) < TotalCost(p.miss)
  BY <1>1, <1>4, SavingCostsLess DEF EconomicChecks
<1>6. Economic(p.mode) => TotalCost(p.miss) < TotalCost(p.main)
  BY <1>1, <1>4, SavingCostsLess DEF EconomicChecks
<1> QED BY <1>2, <1>3, <1>5, <1>6 DEF PassedHolds

\* The report changes nothing else.
LEMMA ReportHolds ==
  ASSUME NEW p, PilotTyped(p), Earned(p), NEW passed \in BOOLEAN, passed => ReportEarned(p),
         pilot' = Report(p, passed)
  PROVE  PilotInv'
<1> DEFINE q == Report(p, passed)
<1>1. /\ DOMAIN q = DOMAIN p /\ q.at = "ended" /\ q.report \in {"passed", "failed"}
      /\ q.report = "passed" => passed
      /\ q.mode = p.mode /\ q.main = p.main /\ q.miss = p.miss /\ q.hit = p.hit
      /\ q.observed = p.observed /\ q.certified = p.certified
      /\ q.authoritative = p.authoritative /\ q.costs = p.costs /\ q.tasks = p.tasks
  BY DEF Report, PilotTyped, PilotFields
<1> HIDE DEF q
<1>2. PilotTyped(q)
  BY <1>1 DEF PilotTyped
<1>3. Earned(q)
  BY <1>1 DEF Earned, Promoted
<1>4. ReportEarned(p) => ReportEarned(q)
  BY <1>1 DEF ReportEarned, PassedHolds, ReusedArtifacts
<1>5. Reached(q)
  BY <1>1, <1>4 DEF Reached
<1> QED BY <1>2, <1>3, <1>5 DEF PilotInv, q

\* A row of costs more.
LEMMA OneMoreCost ==
  ASSUME NEW costs \in CostRows, NEW c \in {"fresh", "reuse_bootstrap", "reuse"}
  PROVE  /\ Append(costs, c) \in CostRows /\ HasCost(Append(costs, c), c)
         /\ \A d : HasCost(costs, d) => HasCost(Append(costs, c), d)
<1> DEFINE n == Len(costs)
           grown == Append(costs, c)
<1>1. /\ n \in Nat /\ DOMAIN costs = 1 .. n
      /\ grown \in CostRows /\ DOMAIN grown = 1 .. (n + 1) /\ grown[n + 1] = c
      /\ \A i \in 1 .. n : grown[i] = costs[i]
  BY DEF CostRows
<1> HIDE DEF n, grown
<1>2. n + 1 \in 1 .. (n + 1) /\ \A i \in 1 .. n : i \in 1 .. (n + 1)
  BY <1>1
<1>3. HasCost(grown, c) /\ \A d : HasCost(costs, d) => HasCost(grown, d)
  BY <1>1, <1>2 DEF HasCost
<1> QED BY <1>1, <1>3 DEF grown

\* A single task or a campaign begins.
LEMMA PilotBegins ==
  ASSUME PilotInv, NEW m \in PilotModes, StartPilot(m)
  PROVE  PilotInv'
<1>1. PilotTyped(pilot) /\ Earned(pilot) /\ Reached(pilot) /\ pilot.at = "idle"
  BY DEF PilotInv, StartPilot
<1>2. PICK at \in {"refused", "task main", "main", "miss"} :
        /\ pilot' = [pilot EXCEPT !.mode = m, !.at = at]
        /\ at = "task main" => m.kind = "multi task"
        /\ at = "main" => m.kind # "multi task"
        /\ at = "miss" => m.kind # "multi task" /\ ~Economic(m)
  <2>1. Economic(m) => m.kind # "multi task"
    BY DEF Economic
  <2>2. CASE ~load_protocol(m)
    BY <2>2 DEF StartPilot
  <2>3. CASE load_protocol(m) /\ m.kind = "multi task"
    <3>1. pilot' = [pilot EXCEPT !.mode = m, !.at = "task main"]
      BY <2>1, <2>3 DEF StartPilot
    <3> QED BY <2>3, <3>1
  <2>4. CASE load_protocol(m) /\ Economic(m)
    <3>1. pilot' = [pilot EXCEPT !.mode = m, !.at = "main"]
      BY <2>1, <2>4 DEF StartPilot
    <3> QED BY <2>1, <2>4, <3>1
  <2>5. CASE load_protocol(m) /\ ~Economic(m) /\ m.kind # "multi task"
    <3>1. pilot' = [pilot EXCEPT !.mode = m, !.at = "miss"]
      BY <2>5 DEF StartPilot
    <3> QED BY <2>5, <3>1
  <2> QED BY <2>2, <2>3, <2>4, <2>5
<1>3. /\ DOMAIN pilot' = DOMAIN pilot /\ pilot'.at = at /\ pilot'.report = pilot.report
      /\ pilot'.mode = m /\ pilot'.main = pilot.main /\ pilot'.miss = pilot.miss
      /\ pilot'.hit = pilot.hit /\ pilot'.observed = pilot.observed
      /\ pilot'.certified = pilot.certified /\ pilot'.authoritative = pilot.authoritative
      /\ pilot'.costs = pilot.costs /\ pilot'.tasks = pilot.tasks
  BY <1>1, <1>2 DEF PilotTyped, PilotFields
<1>4. PilotTyped(pilot')
  BY <1>1, <1>3 DEF PilotTyped
<1>5. Earned(pilot')
  BY <1>1, <1>3 DEF Earned, Reached
<1>6. Reached(pilot')
  BY <1>1, <1>2, <1>3 DEF Reached
<1> QED BY <1>4, <1>5, <1>6 DEF PilotInv

\* The main model alone.
LEMMA PilotObservesMain ==
  ASSUME PilotInv, NEW arm \in MainArms, NEW clean \in BOOLEAN, ObserveMainOnly(arm, clean)
  PROVE  PilotInv'
<1> DEFINE p == [pilot EXCEPT !.main = arm, !.observed = @ \cup {"main"}]
<1>1. PilotTyped(pilot) /\ Earned(pilot) /\ Reached(pilot) /\ pilot.at = "main"
  BY DEF PilotInv, ObserveMainOnly
<1>2. /\ DOMAIN p = DOMAIN pilot /\ p.at = pilot.at /\ p.report = pilot.report
      /\ p.mode = pilot.mode /\ p.main = arm /\ p.miss = pilot.miss
      /\ p.hit = pilot.hit /\ p.observed = pilot.observed \cup {"main"}
      /\ p.certified = pilot.certified /\ p.authoritative = pilot.authoritative
      /\ p.costs = pilot.costs /\ p.tasks = pilot.tasks
  BY <1>1 DEF PilotTyped, PilotFields
<1>3. PilotTyped(p)
  BY <1>1, <1>2 DEF PilotTyped, Arms
<1>4. Earned(p) /\ p.mode.kind # "multi task" /\ p.report = "none"
      /\ p.authoritative = {} /\ "hit" \notin p.observed /\ "miss" \notin p.observed
  BY <1>1, <1>2 DEF Earned, Reached
<1>5. CASE valid_main_only_arm(arm)
  <2>1. pilot' = [p EXCEPT !.at = "miss"]
    BY <1>5 DEF ObserveMainOnly
  <2> HIDE DEF p
  <2>2. /\ DOMAIN pilot' = DOMAIN p /\ pilot'.at = "miss" /\ pilot'.report = p.report
        /\ pilot'.mode = p.mode /\ pilot'.main = p.main /\ pilot'.miss = p.miss
        /\ pilot'.hit = p.hit /\ pilot'.observed = p.observed
        /\ pilot'.certified = p.certified /\ pilot'.authoritative = p.authoritative
        /\ pilot'.costs = p.costs /\ pilot'.tasks = p.tasks
    BY <1>3, <2>1 DEF PilotTyped, PilotFields
  <2>3. PilotTyped(pilot')
    BY <1>3, <2>2 DEF PilotTyped
  <2>4. Earned(pilot')
    BY <1>4, <2>2 DEF Earned
  <2>5. Reached(pilot')
    BY <1>2, <1>4, <1>5, <2>2 DEF Reached
  <2> QED BY <2>3, <2>4, <2>5 DEF PilotInv
<1>6. CASE ~valid_main_only_arm(arm)
  <2> DEFINE passed == evaluate_report(p, clean)
  <2>1. pilot' = Report(p, passed)
    BY <1>6 DEF ObserveMainOnly
  <2> HIDE DEF p
  <2>2. passed \in BOOLEAN
    BY DEF evaluate_report
  <2>3. passed => ReportEarned(p)
    BY <1>3, <1>4, PassedReport DEF ReportEarned
  <2> HIDE DEF passed
  <2> QED BY <1>3, <1>4, <2>1, <2>2, <2>3, ReportHolds
<1> QED BY <1>5, <1>6

\* Needle with an empty cache.
LEMMA PilotObservesMiss ==
  ASSUME PilotInv, NEW arm \in MissArms, ObserveMiss(arm)
  PROVE  PilotInv'
<1>1. PilotTyped(pilot) /\ Earned(pilot) /\ Reached(pilot) /\ pilot.at = "miss"
  BY DEF PilotInv, ObserveMiss
<1> DEFINE at == IF valid_miss(arm) /\ arm.certified # {} THEN "fresh cost" ELSE "closing"
<1>2. pilot' = [pilot EXCEPT !.miss = arm, !.observed = @ \cup {"miss"},
                             !.certified = arm.certified, !.at = at]
  BY DEF ObserveMiss
<1>3. at = "closing" \/ (at = "fresh cost" /\ valid_miss(arm) /\ arm.certified # {})
  OBVIOUS
<1> HIDE DEF at
<1>4. /\ DOMAIN pilot' = DOMAIN pilot /\ pilot'.at = at /\ pilot'.report = pilot.report
      /\ pilot'.mode = pilot.mode /\ pilot'.main = pilot.main /\ pilot'.miss = arm
      /\ pilot'.hit = pilot.hit /\ pilot'.observed = pilot.observed \cup {"miss"}
      /\ pilot'.authoritative = pilot.authoritative
      /\ pilot'.costs = pilot.costs /\ pilot'.tasks = pilot.tasks
  BY <1>1, <1>2 DEF PilotTyped, PilotFields
<1>5. PilotTyped(pilot')
  BY <1>1, <1>4 DEF PilotTyped, Arms
<1>6. Earned(pilot')
  BY <1>1, <1>4 DEF Earned, Reached
<1>7. Reached(pilot')
  BY <1>1, <1>3, <1>4 DEF Reached
<1> QED BY <1>5, <1>6, <1>7 DEF PilotInv

\* The two cost rows before the promotion.
LEMMA PilotRecordsCosts ==
  ASSUME PilotInv, RecordFreshCost \/ RecordBootstrapCost
  PROVE  PilotInv'
<1>1. PilotTyped(pilot) /\ Earned(pilot) /\ Reached(pilot)
  BY DEF PilotInv
<1>2. PICK at \in {"bootstrap cost", "promoting"}, c \in {"fresh", "reuse_bootstrap", "reuse"} :
        /\ pilot' = [pilot EXCEPT !.costs = Append(@, c), !.at = at]
        /\ \/ pilot.at = "fresh cost" /\ at = "bootstrap cost" /\ c = "fresh"
           \/ pilot.at = "bootstrap cost" /\ at = "promoting" /\ c = "reuse_bootstrap"
  BY DEF RecordFreshCost, RecordBootstrapCost
<1>3. /\ DOMAIN pilot' = DOMAIN pilot /\ pilot'.at = at /\ pilot'.report = pilot.report
      /\ pilot'.mode = pilot.mode /\ pilot'.main = pilot.main /\ pilot'.miss = pilot.miss
      /\ pilot'.hit = pilot.hit /\ pilot'.observed = pilot.observed
      /\ pilot'.certified = pilot.certified /\ pilot'.authoritative = pilot.authoritative
      /\ pilot'.costs = Append(pilot.costs, c) /\ pilot'.tasks = pilot.tasks
  BY <1>1, <1>2 DEF PilotTyped, PilotFields
<1>4. /\ pilot'.costs \in CostRows /\ HasCost(pilot'.costs, c)
      /\ \A d : HasCost(pilot.costs, d) => HasCost(pilot'.costs, d)
  BY <1>1, <1>3, OneMoreCost DEF PilotTyped
<1>5. PilotTyped(pilot')
  BY <1>1, <1>3, <1>4 DEF PilotTyped
<1>6. Earned(pilot')
  BY <1>1, <1>2, <1>3 DEF Earned, Reached
<1>7. Reached(pilot')
  BY <1>1, <1>2, <1>3, <1>4 DEF Reached
<1> QED BY <1>5, <1>6, <1>7 DEF PilotInv

\* A capability is promoted, and after the last one the need is asked again.
LEMMA PilotPromotes ==
  ASSUME PilotInv, PromoteNext \/ \E arm \in HitArms : ObserveHit(arm)
  PROVE  PilotInv'
<1>1. PilotTyped(pilot) /\ Earned(pilot) /\ Reached(pilot) /\ pilot.at = "promoting"
  BY DEF PilotInv, PromoteNext, ObserveHit
<1>2. CASE PromoteNext
  <2>1. PICK more : pilot' = [pilot EXCEPT !.authoritative = more]
    BY <1>2 DEF PromoteNext
  <2>2. /\ DOMAIN pilot' = DOMAIN pilot /\ pilot'.at = pilot.at /\ pilot'.report = pilot.report
        /\ pilot'.mode = pilot.mode /\ pilot'.main = pilot.main /\ pilot'.miss = pilot.miss
        /\ pilot'.hit = pilot.hit /\ pilot'.observed = pilot.observed
        /\ pilot'.certified = pilot.certified
        /\ pilot'.costs = pilot.costs /\ pilot'.tasks = pilot.tasks
    BY <1>1, <2>1 DEF PilotTyped, PilotFields
  <2>3. PilotTyped(pilot')
    BY <1>1, <2>2 DEF PilotTyped
  <2>4. Earned(pilot')
    BY <1>1, <2>2 DEF Earned, Reached
  <2>5. Reached(pilot')
    BY <1>1, <2>2 DEF Reached
  <2> QED BY <2>3, <2>4, <2>5 DEF PilotInv
<1>3. ASSUME NEW arm \in HitArms, ObserveHit(arm) PROVE PilotInv'
  <2>1. /\ Promoted(pilot)
        /\ pilot' = [pilot EXCEPT !.hit = arm, !.observed = @ \cup {"hit"}, !.at = "closing",
                                  !.certified = @ \cup arm.certified]
    BY <1>3 DEF ObserveHit
  <2>2. /\ DOMAIN pilot' = DOMAIN pilot /\ pilot'.at = "closing" /\ pilot'.report = pilot.report
        /\ pilot'.mode = pilot.mode /\ pilot'.main = pilot.main /\ pilot'.miss = pilot.miss
        /\ pilot'.hit = arm /\ pilot'.observed = pilot.observed \cup {"hit"}
        /\ pilot'.authoritative = pilot.authoritative
        /\ pilot'.costs = pilot.costs /\ pilot'.tasks = pilot.tasks
    BY <1>1, <2>1 DEF PilotTyped, PilotFields
  <2>3. PilotTyped(pilot')
    BY <1>1, <2>2 DEF PilotTyped, Arms
  <2>4. Earned(pilot')
    BY <1>1, <2>1, <2>2 DEF Earned, Promoted
  <2>5. Reached(pilot')
    BY <1>1, <2>2 DEF Reached
  <2> QED BY <2>3, <2>4, <2>5 DEF PilotInv
<1> QED BY <1>2, <1>3

\* The pilot of one task is closed.
LEMMA PilotCloses ==
  ASSUME PilotInv, NEW clean \in BOOLEAN, ClosePilot(clean)
  PROVE  PilotInv'
<1>1. PilotTyped(pilot) /\ Earned(pilot) /\ Reached(pilot) /\ pilot.at = "closing"
  BY DEF PilotInv, ClosePilot
<1> DEFINE priced == ValidHit(pilot.mode, pilot.hit) /\ TotalCost(pilot.hit) # Unpriced
           costs == IF priced THEN Append(pilot.costs, "reuse") ELSE pilot.costs
           p == [pilot EXCEPT !.costs = costs]
           passed == evaluate_report(p, clean)
<1>2. pilot' = Report(p, passed)
  BY DEF ClosePilot
<1>3. costs \in CostRows /\ \A d : HasCost(pilot.costs, d) => HasCost(costs, d)
  <2>1. pilot.costs \in CostRows
    BY <1>1 DEF PilotTyped
  <2>2. /\ Append(pilot.costs, "reuse") \in CostRows
        /\ \A d : HasCost(pilot.costs, d) => HasCost(Append(pilot.costs, "reuse"), d)
    BY <2>1, OneMoreCost
  <2> HIDE DEF priced
  <2> QED BY <2>1, <2>2
<1> HIDE DEF costs
<1>4. /\ DOMAIN p = DOMAIN pilot
      /\ p.mode = pilot.mode /\ p.main = pilot.main /\ p.miss = pilot.miss
      /\ p.hit = pilot.hit /\ p.observed = pilot.observed
      /\ p.certified = pilot.certified /\ p.authoritative = pilot.authoritative
      /\ p.costs = costs /\ p.tasks = pilot.tasks
  BY <1>1 DEF PilotTyped, PilotFields
<1> HIDE DEF p
<1>5. PilotTyped(p)
  BY <1>1, <1>3, <1>4 DEF PilotTyped
<1>6. Earned(p)
  BY <1>1, <1>3, <1>4 DEF Earned, Promoted
<1>7. passed \in BOOLEAN
  BY DEF evaluate_report
<1>8. passed => ReportEarned(p)
  BY <1>1, <1>4, <1>5, PassedReport DEF ReportEarned, Reached
<1> HIDE DEF passed
<1> QED BY <1>2, <1>5, <1>6, <1>7, <1>8, ReportHolds

\* A campaign observes its tasks and reports.
LEMMA PilotObservesTasks ==
  ASSUME PilotInv,
         \/ \E arm \in MainArms : ObserveTaskMain(arm)
         \/ \E arm \in MissArms, clean \in BOOLEAN : ObserveTaskMiss(arm, clean)
         \/ \E clean \in BOOLEAN : ReportTasks(clean)
  PROVE  PilotInv'
<1>1. PilotTyped(pilot) /\ Earned(pilot) /\ Reached(pilot)
  BY DEF PilotInv
<1>2. ASSUME NEW main \in Arms, NEW tasks \in Seq([main : Arms, miss : Arms, passed : BOOLEAN]),
             TasksHold(tasks), NEW at \in {"task main", "task miss", "task report"},
             pilot.at \in {"task main", "task miss"},
             pilot' = [pilot EXCEPT !.tasks = tasks, !.main = main, !.at = at]
      PROVE  PilotInv'
  <2>1. /\ DOMAIN pilot' = DOMAIN pilot /\ pilot'.at = at /\ pilot'.report = pilot.report
        /\ pilot'.mode = pilot.mode /\ pilot'.main = main /\ pilot'.miss = pilot.miss
        /\ pilot'.hit = pilot.hit /\ pilot'.observed = pilot.observed
        /\ pilot'.certified = pilot.certified /\ pilot'.authoritative = pilot.authoritative
        /\ pilot'.costs = pilot.costs /\ pilot'.tasks = tasks
    BY <1>1, <1>2 DEF PilotTyped, PilotFields
  <2>2. PilotTyped(pilot')
    BY <1>1, <1>2, <2>1 DEF PilotTyped
  <2>3. Earned(pilot')
    BY <1>1, <1>2, <2>1 DEF Earned, Reached, Economic
  <2>4. Reached(pilot')
    BY <1>1, <1>2, <2>1 DEF Reached
  <2> QED BY <2>2, <2>3, <2>4 DEF PilotInv
<1>3. ASSUME NEW arm \in MainArms, ObserveTaskMain(arm) PROVE PilotInv'
  <2>1. pilot.tasks \in Seq([main : Arms, miss : Arms, passed : BOOLEAN]) /\ TasksHold(pilot.tasks)
    BY <1>1 DEF PilotTyped
  <2>2. pilot.at = "task main" /\ pilot' = [pilot EXCEPT !.main = arm, !.at = "task miss"]
    BY <1>3 DEF ObserveTaskMain
  <2>3. pilot' = [pilot EXCEPT !.tasks = pilot.tasks, !.main = arm, !.at = "task miss"]
    BY <1>1, <2>2 DEF PilotTyped, PilotFields
  <2>4. arm \in Arms
    BY DEF Arms
  <2> QED BY <1>2, <2>1, <2>2, <2>3, <2>4
<1>4. ASSUME NEW arm \in MissArms, NEW clean \in BOOLEAN, ObserveTaskMiss(arm, clean) PROVE PilotInv'
  <2> DEFINE passed == TaskPassed(pilot.main, arm, clean)
             task == [main |-> pilot.main, miss |-> arm, passed |-> passed]
             tasks == Append(pilot.tasks, task)
             at == IF Len(pilot.tasks) + 1 = MaxTasks THEN "task report" ELSE "task main"
  <2>1. /\ pilot.at = "task miss"
        /\ pilot' = [pilot EXCEPT !.tasks = tasks, !.main = Skipped, !.at = at]
    BY <1>4 DEF ObserveTaskMiss
  <2>2. passed \in BOOLEAN
    BY DEF TaskPassed
  <2>3. passed => Len(arm.runs) = 1
    BY DEF TaskPassed, valid_miss, valid_worker_count
  <2>4. at \in {"task main", "task miss", "task report"}
    OBVIOUS
  <2> HIDE DEF passed, at
  <2>5. /\ task \in [main : Arms, miss : Arms, passed : BOOLEAN]
        /\ task.passed = TRUE => Len(task.miss.runs) = 1
    BY <1>1, <2>2, <2>3 DEF PilotTyped, Arms
  <2> HIDE DEF task
  <2>6. /\ tasks \in Seq([main : Arms, miss : Arms, passed : BOOLEAN])
        /\ TasksHold(tasks)
    <3> DEFINE Task == [main : Arms, miss : Arms, passed : BOOLEAN]
    <3>1. pilot.tasks \in Seq(Task) /\ TasksHold(pilot.tasks)
      BY <1>1 DEF PilotTyped
    <3> HIDE DEF Task
    <3>2. /\ tasks \in Seq(Task) /\ DOMAIN tasks = 1 .. (Len(pilot.tasks) + 1)
          /\ DOMAIN pilot.tasks = 1 .. Len(pilot.tasks) /\ Len(pilot.tasks) \in Nat
          /\ tasks[Len(pilot.tasks) + 1] = task
          /\ \A i \in 1 .. Len(pilot.tasks) : tasks[i] = pilot.tasks[i]
      BY <2>5, <3>1 DEF Task
    <3> HIDE DEF tasks
    <3> QED BY <2>5, <3>1, <3>2 DEF TasksHold, Task
  <2>7. Skipped \in Arms
    BY DEF Arms
  <2> HIDE DEF tasks
  <2> QED BY <1>2, <2>1, <2>4, <2>6, <2>7
<1>5. ASSUME NEW clean \in BOOLEAN, ReportTasks(clean) PROVE PilotInv'
  <2>1. pilot.at = "task report" /\ pilot.mode.kind = "multi task" /\ TasksHold(pilot.tasks)
    BY <1>1, <1>5 DEF ReportTasks, Reached, PilotTyped
  <2>2. PICK passed \in BOOLEAN :
          /\ pilot' = Report(pilot, passed)
          /\ passed => \A i \in DOMAIN pilot.tasks : pilot.tasks[i].passed
    BY <1>5 DEF ReportTasks
  <2>3. passed => ReportEarned(pilot)
    BY <2>1, <2>2 DEF ReportEarned, TasksPassed, TasksHold
  <2> QED BY <1>1, <2>2, <2>3, ReportHolds
<1> QED BY <1>3, <1>4, <1>5

\* Every step of the pilot keeps the invariant.
LEMMA PilotStep == PilotInv /\ [PilotNext]_pilotVars => PilotInv'
<1> SUFFICES ASSUME PilotInv, [PilotNext]_pilotVars PROVE PilotInv'
  OBVIOUS
<1>1. CASE UNCHANGED pilotVars
  BY <1>1 DEF pilotVars, PilotInv
<1>2. CASE AbortPilot
  <2>1. PilotTyped(pilot) /\ Earned(pilot) /\ Reached(pilot)
    BY DEF PilotInv
  <2>2. /\ pilot.at # "ended" /\ DOMAIN pilot' = DOMAIN pilot /\ pilot'.at = "aborted"
        /\ pilot'.report = pilot.report
        /\ pilot'.mode = pilot.mode /\ pilot'.main = pilot.main /\ pilot'.miss = pilot.miss
        /\ pilot'.hit = pilot.hit /\ pilot'.observed = pilot.observed
        /\ pilot'.certified = pilot.certified /\ pilot'.authoritative = pilot.authoritative
        /\ pilot'.costs = pilot.costs /\ pilot'.tasks = pilot.tasks
    BY <1>2, <2>1 DEF AbortPilot, PilotTyped, PilotFields
  <2>3. PilotTyped(pilot')
    BY <2>1, <2>2 DEF PilotTyped
  <2>4. Earned(pilot')
    BY <2>1, <2>2 DEF Earned, Promoted
  <2>5. Reached(pilot')
    BY <2>1, <2>2 DEF Reached
  <2> QED BY <2>3, <2>4, <2>5 DEF PilotInv
<1> QED
  BY <1>1, <1>2, PilotBegins, PilotObservesMain, PilotObservesMiss, PilotRecordsCosts,
     PilotPromotes, PilotCloses, PilotObservesTasks DEF PilotNext

\* Initially nothing was observed.
LEMMA PilotStart == PilotInit => PilotInv
<1> SUFFICES ASSUME PilotInit PROVE PilotInv
  OBVIOUS
<1>1. pilot = IdlePilot
  BY DEF PilotInit
<1>2. <<>> \in CostRows /\ <<>> \in Seq([main : Arms, miss : Arms, passed : BOOLEAN]) /\ DOMAIN <<>> = {}
  BY DEF CostRows
<1>3. PilotTyped(IdlePilot)
  BY <1>2 DEF PilotTyped, PilotFields, IdlePilot, PilotModes, Arms, TasksHold
<1>4. Earned(IdlePilot) /\ Reached(IdlePilot)
  BY DEF Earned, Reached, IdlePilot
<1> QED BY <1>1, <1>3, <1>4 DEF PilotInv

\* The invariant says that the pilot earns its claims.
LEMMA PilotEarns == PilotInv => PilotEarnsItsClaims
<1> SUFFICES ASSUME PilotInv PROVE PilotEarnsItsClaims
  OBVIOUS
<1>1. \A c : HasCost(pilot.costs, c) => c \in {pilot.costs[i] : i \in DOMAIN pilot.costs}
  BY DEF HasCost
<1> QED
  BY <1>1 DEF PilotInv, Earned, Reached, ReportEarned, PassedHolds, TasksPassed,
              PilotEarnsItsClaims

-----------------------------------------------------------------------------
(* The evidence worker *)

\* What is kept of the responses was asked of the model, and was not refused.
NormalHolds(request, normal) ==
  /\ \A g \in normal.groups : g.kind \in ModelKinds(request)
  /\ normal.plan # {} => "test_plan" \in ModelKinds(request)
  /\ \A e \in normal.semantic : e.form = "ok" /\ e.kind \in ModelKinds(request)

\* A normalised response holds only what was asked for.
LEMMA NormalizedHolds ==
  ASSUME NEW response \in Responses, NEW request
  PROVE  NormalHolds(request, Normalized(response, ModelKinds(request)))
<1> DEFINE kinds == ModelKinds(request)
           parsed == Parsed(response, kinds)
           entries == Considered(response, kinds)
           Whole(n) == /\ {"groups", "plan", "schema", "semantic", "problem"} \subseteq DOMAIN n
                       /\ \A e \in n.semantic : e.form = "ok"
<1>1. Whole(parsed)
  <2>1. Whole(SchemaFailure)
    BY DEF SchemaFailure, NothingNormal
  <2>2. Whole(SemanticNormal(entries))
    BY DEF SemanticNormal, Valid
  <2>3. Whole(ArtifactNormal(entries, response.plan))
    BY DEF ArtifactNormal
  <2>4. Whole(LegacyNormal(entries))
    BY DEF LegacyNormal
  <2>5. \/ parsed = SchemaFailure \/ parsed = SemanticNormal(entries)
        \/ parsed = ArtifactNormal(entries, response.plan) \/ parsed = LegacyNormal(entries)
    BY WorkerConstants DEF Parsed
  <2> HIDE DEF parsed, Whole
  <2> QED BY <2>1, <2>2, <2>3, <2>4, <2>5
<1> HIDE DEF parsed
<1> DEFINE kept == [parsed EXCEPT !.groups = {g \in @ : g.kind \in kinds},
                                  !.semantic = {e \in @ : e.kind \in kinds},
                                  !.plan = IF "test_plan" \in kinds THEN @ ELSE {}]
           normal == [kept EXCEPT !.problem = @ \/ Missing(kept, kinds) # {}]
<1>2. Normalized(response, kinds) = normal
  BY DEF Normalized, parsed
<1> HIDE DEF kinds
<1>3. /\ DOMAIN kept = DOMAIN parsed
      /\ kept.groups = {g \in parsed.groups : g.kind \in kinds}
      /\ kept.semantic = {e \in parsed.semantic : e.kind \in kinds}
      /\ kept.plan = IF "test_plan" \in kinds THEN parsed.plan ELSE {}
  BY <1>1
<1> HIDE DEF kept
<1>4. normal.groups = kept.groups /\ normal.semantic = kept.semantic /\ normal.plan = kept.plan
  BY <1>1, <1>3
<1> HIDE DEF normal
<1>5. NormalHolds(request, normal)
  BY <1>1, <1>3, <1>4 DEF NormalHolds, kinds
<1> QED BY <1>2, <1>5 DEF kinds

\* And so does the sum of two.
LEMMA MergedHolds ==
  ASSUME NEW request, NEW first, NEW second,
         NormalHolds(request, first), NormalHolds(request, second)
  PROVE  NormalHolds(request, MergedResponse(first, second))
  BY DEF NormalHolds, MergedResponse, Agreed

\* The verdict earns its acceptance.
LEMMA VerdictIsEarned ==
  ASSUME NEW request, NEW normal, NEW commands, NormalHolds(request, normal),
         Verdict(request, normal, commands) = "accepted"
  PROVE  AcceptanceIsEarned(request, normal, commands)
<1> DEFINE asked == IF request.requested = {} THEN RouteKinds(request.route) ELSE request.requested
           undeclared == IF request.declared = {} THEN asked ELSE asked \ {"test_plan"}
<1>1. ~TestError(request, commands) /\ Missing(normal, ModelKinds(request)) = {}
  BY DEF Verdict
<1>2. ModelKinds(request) = IF ~request.fragment /\ "behavior_trace" \in undeclared
                            THEN undeclared \ {"code_location"} ELSE undeclared
  BY DEF ModelKinds
<1> HIDE DEF asked
<1>3. \A k \in ModelKinds(request) : HasKind(normal, k)
  BY <1>1 DEF Missing
<1>4. ASSUME NEW k \in asked
      PROVE  \/ HasKind(normal, k)
             \/ k = "test_plan" /\ request.declared # {}
             \/ k = "code_location" /\ ~request.fragment /\ HasKind(normal, "behavior_trace")
  BY <1>2, <1>3
<1>5. request.declared # {} => ~HasKind(normal, "test_plan")
  BY <1>2 DEF NormalHolds, HasKind
<1>6. \A e \in normal.semantic : e.form = "ok" /\ e.kind \in asked
  BY <1>2 DEF NormalHolds
<1>7. commands # <<>> /\ EffectivePlan(request) # {} => \E k \in DOMAIN commands : commands[k]
  BY <1>1 DEF TestError
<1> QED BY <1>4, <1>5, <1>6, <1>7 DEF AcceptanceIsEarned, asked

WorkFields ==
  {"phase", "run", "request", "policy", "normal", "commands", "turns", "repaired", "session",
   "cleanup", "code"}

\* A run, or its row, whose App Server did not start.
NeverStarted(x) == x.session = FALSE /\ x.code = "app_server_start_failed"

\* What a worker that is at work knows of its run; `there' is the disk, `alive' the servers.
RunHolds(x, n, there, alive) ==
  /\ WorkFields \subseteq DOMAIN x
  /\ x.phase \in {"idle", "started", "materialized", "turn", "clean up", "ended"}
  /\ x.phase # "idle" => x.run \in 1 .. n
  /\ x.phase \in {"started", "materialized"} => x.run \notin alive
  /\ x.phase = "ended" /\ x.cleanup = "ok" =>
       x.run \notin there /\ (x.run \in alive => NeverStarted(x))
  /\ NormalHolds(x.request, x.normal)
  /\ x.phase \in {"clean up", "ended"} /\ x.code = "accepted" =>
       Verdict(x.request, x.normal, x.commands) = "accepted"
  /\ x.phase = "ended" /\ x.code = "accepted" => x.cleanup = "ok"
  /\ x.turns \in {0, 1, 2} /\ x.repaired \in BOOLEAN /\ (x.turns = 2 <=> x.repaired = TRUE)
  /\ x.phase \in {"started", "materialized"} => x.turns = 0 /\ x.session = FALSE
  /\ x.phase = "turn" => x.turns \in {1, 2}
  /\ x.phase \in {"started", "materialized", "turn", "clean up"} => x.cleanup = "unknown"

RowFields ==
  {"run", "session", "cleanup", "recovered", "code", "turns", "repaired", "request", "normal",
   "commands"}

\* What a row of worker_runs says is true.
RowHolds(r, n, there, alive) ==
  /\ RowFields \subseteq DOMAIN r
  /\ r.run \in 1 .. n /\ r.recovered \in BOOLEAN /\ r.repaired \in BOOLEAN
  /\ r.cleanup = "ok" /\ r.recovered = FALSE =>
       r.run \notin there /\ (r.run \in alive => NeverStarted(r))
  /\ r.code = "accepted" =>
       /\ r.cleanup = "ok" /\ r.recovered = FALSE
       /\ AcceptanceIsEarned(r.request, r.normal, r.commands)
       /\ r.turns = 2 <=> r.repaired = TRUE

\* A run belongs to one worker, and to none once it is recorded.
WorkerInv ==
  /\ runs \in Nat
  /\ DOMAIN work = Workers
  /\ servers \subseteq 1 .. runs
  /\ \A w \in Workers : RunHolds(work[w], runs, disk, servers)
  /\ \A r \in rows : RowHolds(r, runs, disk, servers)
  /\ \A v, w \in Workers :
       v # w /\ work[v].phase # "idle" /\ work[w].phase # "idle" => work[v].run # work[w].run
  /\ \A w \in Workers, r \in rows : work[w].phase # "idle" => r.run # work[w].run

\* A worker goes on with its run, which may touch what is its own on the machine.
LEMMA WorkerMoves ==
  ASSUME WorkerInv, NEW w \in Workers, NEW new, work' = [work EXCEPT ![w] = new],
         RunHolds(new, runs, disk', servers'), work[w].phase # "idle",
         new.phase # "idle" => new.run = work[w].run,
         \A x : x \in disk' => x \in disk \/ x = work[w].run,
         \A x : x \in servers' => x \in servers \/ x = work[w].run,
         rows' = rows, runs' = runs
  PROVE  WorkerInv'
<1>1. /\ DOMAIN work' = Workers /\ work'[w] = new
      /\ \A v \in Workers : v # w => work'[v] = work[v]
  BY DEF WorkerInv
<1>2. work[w].run \in 1 .. runs /\ servers \subseteq 1 .. runs
  BY DEF WorkerInv, RunHolds
<1>3. ASSUME NEW v \in Workers PROVE RunHolds(work'[v], runs, disk', servers')
  <2>1. CASE v = w
    BY <1>1, <2>1
  <2>2. CASE v # w
    <3>1. RunHolds(work[v], runs, disk, servers) /\ work'[v] = work[v]
      BY <1>1, <2>2 DEF WorkerInv
    <3>2. work[v].phase # "idle" => work[v].run # work[w].run
      BY <2>2 DEF WorkerInv
    <3> QED BY <3>1, <3>2 DEF RunHolds
  <2> QED BY <2>1, <2>2
<1>4. ASSUME NEW r \in rows PROVE RowHolds(r, runs, disk', servers')
  <2>1. RowHolds(r, runs, disk, servers) /\ r.run # work[w].run
    BY DEF WorkerInv
  <2> QED BY <2>1 DEF RowHolds
<1>5. servers' \subseteq 1 .. runs
  BY <1>2
<1>6. \A u, v \in Workers :
        u # v /\ work'[u].phase # "idle" /\ work'[v].phase # "idle" => work'[u].run # work'[v].run
  BY <1>1 DEF WorkerInv
<1>7. \A v \in Workers, r \in rows : work'[v].phase # "idle" => r.run # work'[v].run
  BY <1>1 DEF WorkerInv
<1> QED BY <1>1, <1>3, <1>4, <1>5, <1>6, <1>7 DEF WorkerInv

\* A run is started, and the sessions that could be deleted are marked.
LEMMA WorkerStarts ==
  ASSUME WorkerInv, NEW w \in Workers, StartRun(w)
  PROVE  WorkerInv'
<1>1. PICK request \in WorkerRequests, policy \in RepairPolicies :
        work' = [work EXCEPT ![w] = [IdleWorker EXCEPT !.phase = "started", !.run = runs + 1,
                                                       !.request = request, !.policy = policy]]
  BY DEF StartRun
<1>2. PICK deleted \in SUBSET PendingSessions : rows' = MarkedCleaned(deleted)
  BY DEF StartRun
<1> DEFINE n == runs + 1
           new == [IdleWorker EXCEPT !.phase = "started", !.run = n, !.request = request,
                                     !.policy = policy]
<1>3. /\ runs' = n /\ disk' = disk /\ servers' = servers /\ work[w].phase = "idle"
      /\ runs \in Nat /\ n \in Nat /\ servers \subseteq 1 .. runs
      /\ n \notin 1 .. runs /\ n \in 1 .. n /\ \A x \in 1 .. runs : x \in 1 .. n
  BY DEF StartRun, WorkerInv
<1>4. /\ DOMAIN work' = Workers /\ work'[w] = new
      /\ \A v \in Workers : v # w => work'[v] = work[v]
  BY <1>1 DEF WorkerInv
<1>5. /\ DOMAIN new = WorkFields /\ new.phase = "started" /\ new.run = n /\ new.turns = 0
      /\ new.repaired = FALSE /\ new.normal = NothingNormal /\ new.cleanup = "unknown"
      /\ new.session = FALSE
  BY DEF IdleWorker, WorkFields
<1> HIDE DEF n, new
<1>6. \A v \in Workers : RunHolds(work'[v], n, disk, servers)
  <2>1. NormalHolds(new.request, NothingNormal)
    BY DEF NormalHolds, NothingNormal
  <2>2. RunHolds(new, n, disk, servers)
    <3>1. new.run \in 1 .. n /\ new.run \notin servers
      BY <1>3, <1>5
    <3>2. new.repaired \in BOOLEAN /\ (new.turns = 2 <=> new.repaired = TRUE)
      <4>1. new.turns # 2
        BY <1>5
      <4>2. new.repaired = FALSE
        BY <1>5
      <4> QED BY <4>1, <4>2, Zenon
    <3> QED BY <1>5, <2>1, <3>1, <3>2 DEF RunHolds
  <2>3. \A v \in Workers : RunHolds(work[v], runs, disk, servers)
    BY DEF WorkerInv
  <2>4. \A v \in Workers : RunHolds(work[v], n, disk, servers)
    <3>1. ASSUME NEW x, RunHolds(x, runs, disk, servers) PROVE RunHolds(x, n, disk, servers)
      BY <1>3, <3>1 DEF RunHolds
    <3> QED BY <2>3, <3>1
  <2> QED BY <1>4, <2>2, <2>4
<1>7. ASSUME NEW r \in rows'
      PROVE  RowHolds(r, n, disk, servers) /\ \E q \in rows : r.run = q.run
  <2>1. PICK q \in rows : \/ r = q
                          \/ /\ r = [q EXCEPT !.cleanup = "ok", !.recovered = TRUE]
                             /\ q.cleanup # "ok"
    BY <1>2 DEF MarkedCleaned, PendingSessions
  <2>2. RowHolds(q, runs, disk, servers)
    BY DEF WorkerInv
  <2>3. RowHolds(q, n, disk, servers)
    BY <1>3, <2>2 DEF RowHolds
  <2>4. CASE r = [q EXCEPT !.cleanup = "ok", !.recovered = TRUE] /\ q.cleanup # "ok"
    <3>1. /\ DOMAIN r = DOMAIN q /\ r.cleanup = "ok" /\ r.recovered = TRUE
          /\ r.run = q.run /\ r.code = q.code /\ r.turns = q.turns /\ r.repaired = q.repaired
          /\ r.request = q.request /\ r.normal = q.normal /\ r.commands = q.commands
      BY <2>3, <2>4 DEF RowHolds, RowFields
    <3> QED BY <2>3, <2>4, <3>1 DEF RowHolds
  <2> QED BY <2>1, <2>3, <2>4
<1>8. \A r \in rows : r.run # n
  BY <1>3 DEF WorkerInv, RowHolds
<1>9. \A v \in Workers : v # w /\ work[v].phase # "idle" => work[v].run # n
  BY <1>3 DEF WorkerInv, RunHolds
<1>10. \A u, v \in Workers :
         u # v /\ work'[u].phase # "idle" /\ work'[v].phase # "idle" => work'[u].run # work'[v].run
  BY <1>4, <1>5, <1>9 DEF WorkerInv
<1>11. \A v \in Workers, r \in rows' : work'[v].phase # "idle" => r.run # work'[v].run
  <2>1. ASSUME NEW v \in Workers, NEW r \in rows', work'[v].phase # "idle" PROVE r.run # work'[v].run
    <3>1. PICK q \in rows : r.run = q.run
      BY <1>7
    <3> QED BY <1>4, <1>5, <1>8, <2>1, <3>1 DEF WorkerInv
  <2> QED BY <2>1
<1>12. servers \subseteq 1 .. n
  BY <1>3
<1> QED BY <1>3, <1>4, <1>6, <1>7, <1>10, <1>11, <1>12 DEF WorkerInv

\* The orchestrator records the run and the worker is free.
LEMMA WorkerRecords ==
  ASSUME WorkerInv, NEW w \in Workers, RecordRun(w)
  PROVE  WorkerInv'
<1> DEFINE x == work[w]
<1>1. PICK code : /\ rows' = rows \cup {RunRow(x, code)}
                  /\ code = x.code \/ x.code = "accepted"
  BY DEF RecordRun
<1>2. /\ x.phase = "ended" /\ work' = [work EXCEPT ![w] = IdleWorker]
      /\ UNCHANGED <<disk, servers, runs>>
  BY DEF RecordRun
<1>3. RunHolds(x, runs, disk, servers)
  BY DEF WorkerInv
<1>4. /\ DOMAIN work' = Workers /\ work'[w] = IdleWorker
      /\ \A v \in Workers : v # w => work'[v] = work[v]
  BY <1>2 DEF WorkerInv
<1> DEFINE row == RunRow(x, code)
<1>5. /\ RowFields \subseteq DOMAIN row
      /\ row.run = x.run /\ row.cleanup = x.cleanup /\ row.recovered = FALSE /\ row.code = code
      /\ row.turns = x.turns /\ row.repaired = x.repaired /\ row.request = x.request
      /\ row.normal = x.normal /\ row.commands = x.commands /\ row.session = x.session
  BY DEF RunRow, RowFields
<1> HIDE DEF row, x
<1>6. RowHolds(row, runs, disk, servers)
  <2>1. row.cleanup = "ok" => row.run \notin disk /\ (row.run \in servers => NeverStarted(row))
    BY <1>1, <1>2, <1>3, <1>5 DEF RunHolds, NeverStarted
  <2> QED BY <1>1, <1>2, <1>3, <1>5, <2>1, VerdictIsEarned DEF RowHolds, RunHolds
<1>7. RunHolds(IdleWorker, runs, disk, servers) /\ IdleWorker.phase = "idle"
  BY DEF RunHolds, IdleWorker, WorkFields, NormalHolds, NothingNormal
<1>8. \A v \in Workers : RunHolds(work'[v], runs, disk, servers)
  BY <1>4, <1>7 DEF WorkerInv
<1>9. \A r \in rows' : RowHolds(r, runs, disk, servers)
  BY <1>1, <1>6 DEF WorkerInv, row
<1>10. \A u, v \in Workers :
         u # v /\ work'[u].phase # "idle" /\ work'[v].phase # "idle" => work'[u].run # work'[v].run
  BY <1>4, <1>7 DEF WorkerInv
<1>11. \A v \in Workers : v # w /\ work[v].phase # "idle" => row.run # work[v].run
  BY <1>2, <1>5 DEF WorkerInv, x
<1>12. \A v \in Workers, r \in rows' : work'[v].phase # "idle" => r.run # work'[v].run
  BY <1>1, <1>4, <1>7, <1>11 DEF WorkerInv, row
<1> QED BY <1>2, <1>4, <1>8, <1>9, <1>10, <1>12 DEF WorkerInv

\* Every step of every worker keeps the invariant.
LEMMA WorkerStep == WorkerInv /\ [WorkerNext]_workerVars => WorkerInv'
<1> SUFFICES ASSUME WorkerInv, [WorkerNext]_workerVars PROVE WorkerInv'
  OBVIOUS
<1>1. CASE UNCHANGED workerVars
  BY <1>1 DEF workerVars, WorkerInv
<1>2. ASSUME NEW w \in Workers,
             \/ IsolationRefused(w) \/ Materialize(w) \/ MaterializeFails(w)
             \/ FailAfterSandbox(w) \/ StartServerFails(w) \/ StartServer(w)
             \/ TurnAnswered(w) \/ TurnFails(w)
             \/ BindingFails(w) \/ CleanUp(w) \/ WorkerCrash(w)
      PROVE  WorkerInv'
  <2> DEFINE x == work[w]
  <2>1. RunHolds(x, runs, disk, servers) /\ DOMAIN work = Workers /\ WorkFields \subseteq DOMAIN x
    BY DEF WorkerInv, RunHolds
  <2>2. /\ rows' = rows /\ runs' = runs /\ x.phase # "idle"
    BY <1>2 DEF IsolationRefused, Materialize, MaterializeFails, FailAfterSandbox, StartServer,
                StartServerFails, EndWithoutSession, TurnAnswered, TurnFails, BindingFails, CleanUp, WorkerCrash
  \* A step that sets the phase, the code and the report of the cleanup.
  <2>3. ASSUME NEW phase, NEW code, NEW cleanup,
               work' = [work EXCEPT ![w] = [x EXCEPT !.phase = phase, !.code = code,
                                                     !.cleanup = cleanup]],
               phase \in {"materialized", "clean up", "ended"},
               \A y : y \in disk' => y \in disk \/ y = x.run,
               \A y : y \in servers' => y \in servers \/ (phase = "ended" /\ y = x.run),
               phase = "materialized" => x.phase = "started",
               phase # "ended" => cleanup = x.cleanup /\ x.phase # "ended",
               phase = "ended" /\ cleanup = "ok" =>
                 /\ x.run \notin disk'
                 /\ x.run \in servers' => x.session = FALSE /\ code = "app_server_start_failed",
               phase \in {"clean up", "ended"} /\ code = "accepted" =>
                 x.phase = "clean up" /\ x.code = "accepted",
               phase = "ended" /\ code = "accepted" => cleanup = "ok"
        PROVE  WorkerInv'
    <3> DEFINE new == [x EXCEPT !.phase = phase, !.code = code, !.cleanup = cleanup]
    <3>1. /\ DOMAIN new = DOMAIN x /\ new.phase = phase /\ new.code = code
          /\ new.cleanup = cleanup /\ new.run = x.run /\ new.request = x.request
          /\ new.normal = x.normal /\ new.commands = x.commands /\ new.turns = x.turns
          /\ new.repaired = x.repaired /\ new.session = x.session
      BY <2>1 DEF WorkFields
    <3>2. work' = [work EXCEPT ![w] = new]
      BY <2>3
    <3> HIDE DEF new, x
    <3>3. RunHolds(new, runs, disk', servers')
      BY <2>1, <2>2, <2>3, <3>1 DEF RunHolds, NeverStarted
    <3> QED BY <2>2, <2>3, <3>1, <3>2, <3>3, WorkerMoves DEF x
  <2>4. CASE IsolationRefused(w)
    <3>1. x.phase = "started" /\ x.cleanup = "unknown"
      BY <2>1, <2>4 DEF IsolationRefused, RunHolds
    <3> DEFINE code == "isolation"
               cleanup == "unknown"
    <3>2. /\ work' = [work EXCEPT ![w] = [x EXCEPT !.phase = "ended", !.code = code,
                                                   !.cleanup = cleanup]]
          /\ disk' = disk /\ servers' = servers /\ code # "accepted" /\ cleanup # "ok"
      BY <2>1, <2>4, <3>1 DEF IsolationRefused, FailWith, WorkFields
    <3> HIDE DEF x, code, cleanup
    <3> QED BY <2>3, <3>1, <3>2
  <2>5. CASE Materialize(w)
    <3>1. /\ work' = [work EXCEPT ![w] = [x EXCEPT !.phase = "materialized", !.code = x.code,
                                                   !.cleanup = x.cleanup]]
          /\ disk' = disk \cup {x.run} /\ servers' = servers /\ x.phase = "started"
      BY <2>1, <2>5 DEF Materialize, WorkFields
    <3> QED BY <2>3, <3>1
  <2>6. CASE MaterializeFails(w)
    <3>1. x.phase = "started" /\ x.cleanup = "unknown"
      BY <2>1, <2>6 DEF MaterializeFails, RunHolds
    <3> DEFINE code == "sandbox_bypass"
               cleanup == "unknown"
    <3>2. /\ work' = [work EXCEPT ![w] = [x EXCEPT !.phase = "ended", !.code = code,
                                                   !.cleanup = cleanup]]
          /\ disk' \in {disk, disk \cup {x.run}} /\ servers' = servers
          /\ code # "accepted" /\ cleanup # "ok"
      BY <2>1, <2>6, <3>1 DEF MaterializeFails, FailWith, WorkFields
    <3> HIDE DEF x, code, cleanup
    <3>3. \A y : y \in disk' => y \in disk \/ y = x.run
      BY <3>2
    <3> QED BY <2>3, <3>1, <3>2, <3>3
  <2>7. CASE FailAfterSandbox(w) \/ StartServerFails(w)
    <3>1. PICK reason \in {"not_started", "app_server_start_failed"} :
            /\ EndWithoutSession(w, reason)
            /\ servers' = servers
               \/ (reason = "app_server_start_failed" /\ servers' = servers \cup {x.run})
      BY <2>7 DEF FailAfterSandbox, StartServerFails
    <3>2. PICK removal \in RemoveCheckout(x.run) :
            /\ disk' = removal.disk
            /\ work' = [work EXCEPT ![w].phase = "ended",
                                    ![w].cleanup = IF removal.ok THEN "ok" ELSE "failed",
                                    ![w].code = IF removal.ok THEN reason
                                                ELSE "worker_cleanup_failed"]
      BY <3>1 DEF EndWithoutSession
    <3>3. x.phase = "materialized" /\ x.run \notin servers /\ x.session = FALSE
      BY <2>1, <2>7 DEF FailAfterSandbox, StartServerFails, RunHolds
    <3> DEFINE cleanup == IF removal.ok THEN "ok" ELSE "failed"
               code == IF removal.ok THEN reason ELSE "worker_cleanup_failed"
    <3>4. work' = [work EXCEPT ![w] = [x EXCEPT !.phase = "ended", !.code = code,
                                                !.cleanup = cleanup]]
      BY <2>1, <3>2 DEF WorkFields
    <3>5. code # "accepted" /\ (cleanup = "ok" => removal.ok /\ code = reason)
      <4>1. CASE removal.ok
        BY <4>1
      <4>2. CASE ~removal.ok
        BY <4>2
      <4> QED BY <4>1, <4>2
    <3>6. removal.disk \subseteq disk /\ (removal.ok => x.run \notin removal.disk)
      BY DEF RemoveCheckout
    <3> HIDE DEF code, cleanup, x
    <3>7. cleanup = "ok" =>
            /\ x.run \notin disk'
            /\ x.run \in servers' => x.session = FALSE /\ code = "app_server_start_failed"
      BY <3>1, <3>2, <3>3, <3>5, <3>6
    <3>8. \A y : y \in servers' => y \in servers \/ y = x.run
      BY <3>1
    <3> QED BY <2>3, <3>2, <3>3, <3>4, <3>5, <3>6, <3>7, <3>8
  <2>8. CASE StartServer(w)
    <3> DEFINE new == [x EXCEPT !.phase = "turn", !.session = TRUE, !.turns = 1]
    <3>1. /\ work' = [work EXCEPT ![w] = new] /\ x.phase = "materialized"
          /\ disk' = disk /\ servers' = servers \cup {x.run}
      BY <2>1, <2>8 DEF StartServer, WorkFields
    <3>2. /\ DOMAIN new = DOMAIN x /\ new.phase = "turn" /\ new.code = x.code
          /\ new.cleanup = x.cleanup /\ new.run = x.run /\ new.request = x.request
          /\ new.normal = x.normal /\ new.commands = x.commands /\ new.turns = 1
          /\ new.repaired = x.repaired
      BY <2>1 DEF WorkFields
    <3> HIDE DEF new, x
    <3>3. RunHolds(new, runs, disk', servers')
      BY <2>1, <3>1, <3>2 DEF RunHolds
    <3> QED BY <2>2, <3>1, <3>2, <3>3, WorkerMoves DEF x
  <2>9. CASE TurnAnswered(w)
    <3>1. PICK response \in Responses, commands \in CommandRuns :
            work' = [work EXCEPT ![w] = AfterTurn(x, response, commands)]
      BY <2>9 DEF TurnAnswered
    <3>2. disk' = disk /\ servers' = servers /\ x.phase = "turn"
      BY <2>9 DEF TurnAnswered
    <3> DEFINE normal == Normalized(response, ModelKinds(x.request))
               sum == IF x.turns = 1 THEN normal ELSE MergedResponse(x.normal, normal)
               done == [x EXCEPT !.normal = sum, !.commands = x.commands \o commands]
               again == x.turns = 1 /\ RepairRequired(x.policy, x.request, response, normal, done.commands)
               new == IF again THEN [done EXCEPT !.turns = 2, !.repaired = TRUE] ELSE Judged(done)
    <3>3. AfterTurn(x, response, commands) = new
      BY DEF AfterTurn
    <3>4. NormalHolds(x.request, normal) /\ NormalHolds(x.request, x.normal)
      BY <2>1, NormalizedHolds DEF RunHolds
    <3> HIDE DEF normal, x
    <3>5. NormalHolds(x.request, sum)
      BY <3>4, MergedHolds
    <3> HIDE DEF sum
    <3>6. /\ DOMAIN done = DOMAIN x /\ done.phase = "turn" /\ done.code = x.code
          /\ done.cleanup = x.cleanup /\ done.run = x.run /\ done.request = x.request
          /\ done.normal = sum /\ done.turns = x.turns /\ done.repaired = x.repaired
      BY <2>1, <3>2 DEF WorkFields
    <3>7. again => x.turns = 1
      OBVIOUS
    <3> HIDE DEF done, again
    <3>8. RunHolds(done, runs, disk, servers)
      BY <2>1, <3>2, <3>5, <3>6 DEF RunHolds
    <3>9. CASE again
      <4> DEFINE more == [done EXCEPT !.turns = 2, !.repaired = TRUE]
      <4>1. /\ DOMAIN more = DOMAIN done /\ more.phase = "turn" /\ more.code = done.code
            /\ more.cleanup = done.cleanup /\ more.run = done.run /\ more.request = done.request
            /\ more.normal = done.normal /\ more.turns = 2 /\ more.repaired = TRUE
        BY <3>6, <3>8 DEF RunHolds, WorkFields
      <4>2. new = more
        BY <3>9
      <4> HIDE DEF more
      <4>3. more.repaired \in BOOLEAN /\ (more.turns = 2 <=> more.repaired = TRUE)
        BY <4>1
      <4>4. RunHolds(more, runs, disk, servers)
        BY <3>6, <3>8, <4>1, <4>3 DEF RunHolds
      <4> QED BY <2>2, <3>1, <3>2, <3>3, <3>6, <4>1, <4>2, <4>4, WorkerMoves DEF x
    <3>10. CASE ~again
      <4> DEFINE judged == Judged(done)
      <4>1. /\ DOMAIN judged = DOMAIN done /\ judged.phase = "clean up"
            /\ judged.code = Verdict(done.request, done.normal, done.commands)
            /\ judged.cleanup = done.cleanup /\ judged.run = done.run
            /\ judged.request = done.request /\ judged.normal = done.normal
            /\ judged.commands = done.commands
            /\ judged.turns = done.turns /\ judged.repaired = done.repaired
        BY <3>8 DEF Judged, RunHolds, WorkFields
      <4>2. new = judged
        BY <3>10
      <4> HIDE DEF judged
      <4>3. RunHolds(judged, runs, disk, servers)
        BY <3>6, <3>8, <4>1 DEF RunHolds
      <4> QED BY <2>2, <3>1, <3>2, <3>3, <3>6, <4>1, <4>2, <4>3, WorkerMoves DEF x
    <3> QED BY <3>9, <3>10
  <2>10. CASE TurnFails(w)
    <3>1. /\ work' = [work EXCEPT ![w] = [x EXCEPT !.phase = "clean up", !.code = "turn_failed",
                                                   !.cleanup = x.cleanup]]
          /\ disk' = disk /\ servers' = servers /\ x.phase = "turn"
      BY <2>1, <2>10 DEF TurnFails, WorkFields
    <3> HIDE DEF x
    <3> QED BY <2>3, <3>1
  <2>11. CASE BindingFails(w)
    <3>1. /\ work' = [work EXCEPT ![w] = [x EXCEPT !.phase = "clean up",
                                                   !.code = "evidence_binding_failed",
                                                   !.cleanup = x.cleanup]]
          /\ disk' = disk /\ servers' = servers /\ x.phase = "clean up"
      BY <2>1, <2>11 DEF BindingFails, WorkFields
    <3> HIDE DEF x
    <3> QED BY <2>3, <3>1
  <2>12. CASE CleanUp(w)
    <3>1. PICK stop \in StopServer(x.run), removal \in RemoveCheckout(x.run) :
            /\ servers' = stop.servers
            /\ disk' = removal.disk
            /\ work' = [work EXCEPT ![w].phase = "ended",
                                    ![w].cleanup = IF stop.ok /\ removal.ok THEN "ok" ELSE "failed",
                                    ![w].code = CodeAfterCleanup(@, stop.ok /\ removal.ok)]
      BY <2>12 DEF CleanUp
    <3>2. x.phase = "clean up"
      BY <2>12 DEF CleanUp
    <3> DEFINE ok == stop.ok /\ removal.ok
               cleanup == IF ok THEN "ok" ELSE "failed"
               code == CodeAfterCleanup(x.code, ok)
    <3>3. work' = [work EXCEPT ![w] = [x EXCEPT !.phase = "ended", !.code = code,
                                                !.cleanup = cleanup]]
      BY <2>1, <3>1 DEF WorkFields
    <3>4. (code = "accepted" => ok /\ x.code = "accepted") /\ (cleanup = "ok" <=> ok)
      BY DEF CodeAfterCleanup
    <3>5. removal.disk \subseteq disk /\ (removal.ok => x.run \notin removal.disk)
      BY DEF RemoveCheckout
    <3>6. stop.servers \subseteq servers /\ (stop.ok => x.run \notin stop.servers)
      BY DEF StopServer
    <3>7. ok => x.run \notin disk' \cup servers'
      BY <3>1, <3>5, <3>6
    <3> HIDE DEF ok, code, cleanup, x
    <3> QED BY <2>3, <3>1, <3>2, <3>3, <3>4, <3>5, <3>6, <3>7
  <2>13. CASE WorkerCrash(w)
    <3>1. /\ work' = [work EXCEPT ![w] = IdleWorker] /\ disk' = disk
          /\ servers' \in {servers, servers \ {x.run}}
      BY <2>13 DEF WorkerCrash
    <3>2. RunHolds(IdleWorker, runs, disk', servers') /\ IdleWorker.phase = "idle"
      BY DEF RunHolds, IdleWorker, WorkFields, NormalHolds, NothingNormal
    <3>3. \A y : y \in servers' => y \in servers
      BY <3>1
    <3> QED BY <2>2, <3>1, <3>2, <3>3, WorkerMoves
  <2> QED BY <1>2, <2>4, <2>5, <2>6, <2>7, <2>8, <2>9, <2>10, <2>11, <2>12, <2>13
<1>3. ASSUME NEW w \in Workers, StartRun(w) \/ RecordRun(w) PROVE WorkerInv'
  BY <1>3, WorkerStarts, WorkerRecords
<1> QED BY <1>1, <1>2, <1>3 DEF WorkerNext

\* Initially nobody works and nothing is there.
LEMMA WorkerStart == WorkerInit => WorkerInv
<1> SUFFICES ASSUME WorkerInit PROVE WorkerInv
  OBVIOUS
<1>1. RunHolds(IdleWorker, 0, {}, {}) /\ IdleWorker.phase = "idle"
  BY DEF RunHolds, IdleWorker, WorkFields, NormalHolds, NothingNormal
<1> QED BY <1>1 DEF WorkerInit, WorkerInv

\* The invariant says that the report is true.
LEMMA WorkerReports == WorkerInv => WorkerReportIsTrue
  BY DEF WorkerInv, RowHolds, NeverStarted, WorkerReportIsTrue

-----------------------------------------------------------------------------
(* The MCP server *)

Els(s) == {s[i] : i \in DOMAIN s}

\* A sequence gets longer and shorter.
LEMMA AppendElement ==
  ASSUME NEW S, NEW s \in Seq(S), NEW x \in S
  PROVE  /\ Append(s, x) \in Seq(S) /\ Els(Append(s, x)) = Els(s) \cup {x}
         /\ DOMAIN s = 1 .. Len(s) /\ Len(s) \in Nat /\ Len(Append(s, x)) = Len(s) + 1
         /\ DOMAIN Append(s, x) = 1 .. (Len(s) + 1)
         /\ Append(s, x)[Len(s) + 1] = x /\ \A i \in 1 .. Len(s) : Append(s, x)[i] = s[i]
<1> DEFINE n == Len(s)
           t == Append(s, x)
<1>1. /\ n \in Nat /\ DOMAIN s = 1 .. n /\ t \in Seq(S) /\ DOMAIN t = 1 .. (n + 1)
      /\ t[n + 1] = x /\ \A i \in 1 .. n : t[i] = s[i]
      /\ Len(t) = n + 1
  OBVIOUS
<1> HIDE DEF n, t
<1>2. \A i \in 1 .. (n + 1) : i \in 1 .. n \/ i = n + 1
  BY <1>1
<1>3. n + 1 \in 1 .. (n + 1) /\ \A i \in 1 .. n : i \in 1 .. (n + 1)
  BY <1>1
<1>4. Els(t) \subseteq Els(s) \cup {x}
  BY <1>1, <1>2 DEF Els
<1>5. Els(s) \cup {x} \subseteq Els(t)
  BY <1>1, <1>3 DEF Els
<1> QED BY <1>1, <1>4, <1>5 DEF n, t

LEMMA ElementsOf ==
  ASSUME NEW S, NEW s \in Seq(S)
  PROVE  Els(s) \subseteq S
<1>1. \A i \in DOMAIN s : s[i] \in S
  OBVIOUS
<1> QED BY <1>1 DEF Els

LEMMA TakeElement ==
  ASSUME NEW S, NEW s \in Seq(S), s # <<>>
  PROVE  /\ Head(s) \in S /\ Head(s) \in Els(s) /\ Tail(s) \in Seq(S) /\ Els(Tail(s)) \subseteq Els(s)
         /\ Head(s) = s[1] /\ 1 \in DOMAIN s
         /\ \A i \in DOMAIN Tail(s) : i \in Nat /\ i >= 1 /\ i + 1 \in DOMAIN s /\ Tail(s)[i] = s[i + 1]
<1> DEFINE n == Len(s)
           t == Tail(s)
<1>1. n \in Nat /\ n > 0 /\ DOMAIN s = 1 .. n /\ Head(s) = s[1] /\ Head(s) \in S
  OBVIOUS
<1>2. t \in Seq(S) /\ DOMAIN t = 1 .. (n - 1) /\ \A i \in 1 .. (n - 1) : t[i] = s[i + 1]
  OBVIOUS
<1> HIDE DEF n, t
<1>3. \A i \in 1 .. (n - 1) : i \in Nat /\ i >= 1 /\ i + 1 \in 1 .. n
  BY <1>1
<1>4. 1 \in 1 .. n
  BY <1>1
<1>5. Head(s) \in Els(s) /\ Els(t) \subseteq Els(s)
  BY <1>1, <1>2, <1>3, <1>4 DEF Els
<1> QED BY <1>1, <1>2, <1>3, <1>4, <1>5 DEF t

Methods ==
  {"tools/call", "tools/list", "initialize", "garbage", "notifications/initialized",
   "notifications/cancelled"}
Kinds == Methods \cup {"error", "cancelled", "change", "resolved", "unsafe", "bypass",
                       "not stored", "queue full"}
SentLine == [method : Methods, id : Ids \cup {NoId}, need : Arguments \cup {NoNeed}, at : Nat]
Reply == [at : Nat, kind : Kinds, ordinal : Nat]
Entry == [need : Arguments \cup {NoNeed}, satisfied : BOOLEAN]

InOrder(s) == \A i, j \in DOMAIN s : i < j => s[i].at < s[j].at

\* Queue-full answers overtake the others.
InTurn(a) == a.kind # "queue full"
RepliesInOrder(s) ==
  \A i, j \in DOMAIN s : i < j /\ InTurn(s[i]) /\ InTurn(s[j]) => s[i].at < s[j].at

\* What was answered came before the running call, that before what waits, and
\* that before what is still on its way; n lines were sent.
OrderHolds(replies, call, waiting, coming, n) ==
  /\ RepliesInOrder(replies) /\ InOrder(waiting) /\ InOrder(coming)
  /\ \A l \in Els(waiting) \cup Els(coming) : l.at <= n
  /\ \A l \in Els(waiting), m \in Els(coming) : l.at < m.at
  /\ call.pc # "none" =>
       call.at <= n /\ \A l \in Els(waiting) \cup Els(coming) : call.at < l.at
  /\ \A a \in Els(replies) : InTurn(a) =>
       /\ a.at <= n
       /\ call.pc # "none" => a.at < call.at
       /\ \A l \in Els(waiting) \cup Els(coming) : a.at < l.at

\* Only what the client asked to cancel is cancelled.
CancelHolds(call, waiting, coming, cancels, cancelled) ==
  /\ cancelled \subseteq cancels
  /\ \A l \in Els(waiting) \cup Els(coming) :
       l.method = "notifications/cancelled" => l.id \in cancels
  /\ call.pc # "none" /\ call.cancelled = TRUE => call.id \in cancels
  /\ call.pc = "cancel" \/ call.response.kind = "cancelled" => call.id \in cancels

CallFields == {"pc", "id", "need", "at", "ordinal", "turn", "cancelled", "response"}

CallHolds(call) ==
  /\ CallFields \subseteq DOMAIN call
  /\ call.at \in Nat /\ call.ordinal \in Nat /\ call.need \in Arguments \cup {NoNeed}
  /\ call.cancelled \in BOOLEAN /\ call.response \in Reply
  /\ call.pc = "answered" => call.response.at = call.at

\* The ordinal of a call is its place in the ledger, or the last that there is.
OrdinalHolds(call, ledger) ==
  call.pc \in {"resolving", "deliver", "deliver unsafe", "bypass", "cancel"} =>
    \/ call.ordinal = Len(ledger) + 1
    \/ Len(ledger) >= OrdinalMax /\ call.ordinal = OrdinalMax

StepIs(step, k, entry) ==
  /\ step.ordinal = k /\ step.states[Len(step.states)] = "delivered"
  /\ step.need = entry.need /\ step.satisfied = entry.satisfied

LedgerHolds(ledger, steps) == \A k \in DOMAIN ledger : \E step \in steps : StepIs(step, k, ledger[k])

McpFields == {"protocol", "initialized", "seen", "cancelled", "nextTurn", "ledger", "workers"}

McpInv ==
  /\ client.sent \in Nat
  /\ input \in Seq(SentLine) /\ queued \in Seq(SentLine) /\ answers \in Seq(Reply)
  /\ McpFields \subseteq DOMAIN mcp /\ mcp.ledger \in Seq(Entry)
  /\ CallHolds(active) /\ OrdinalHolds(active, mcp.ledger)
  /\ OrderHolds(answers, active, queued, input, client.sent)
  /\ CancelHolds(active, queued, input, client.cancels, mcp.cancelled)
  /\ LedgerHolds(mcp.ledger, stored)

\* A line is added behind all others.
LEMMA AppendLine ==
  ASSUME NEW s \in Seq(SentLine), NEW x \in SentLine, InOrder(s), \A l \in Els(s) : l.at < x.at
  PROVE  Append(s, x) \in Seq(SentLine) /\ Els(Append(s, x)) = Els(s) \cup {x} /\ InOrder(Append(s, x))
<1> DEFINE n == Len(s)
           t == Append(s, x)
<1>1. /\ t \in Seq(SentLine) /\ Els(t) = Els(s) \cup {x}
      /\ n \in Nat /\ DOMAIN s = 1 .. n /\ DOMAIN t = 1 .. (n + 1) /\ t[n + 1] = x
      /\ \A i \in 1 .. n : t[i] = s[i]
  BY AppendElement
<1> HIDE DEF n, t
<1>2. ASSUME NEW i \in 1 .. (n + 1), NEW j \in 1 .. (n + 1), i < j PROVE t[i].at < t[j].at
  <2>1. i \in 1 .. n /\ (j \in 1 .. n \/ j = n + 1)
    BY <1>1, <1>2
  <2>2. s[i] \in Els(s)
    BY <1>1, <2>1 DEF Els
  <2> QED BY <1>1, <1>2, <2>1, <2>2 DEF InOrder
<1>3. InOrder(t)
  BY <1>1, <1>2 DEF InOrder
<1> QED BY <1>1, <1>3 DEF t

\* The first line is taken.
LEMMA TakeFirst ==
  ASSUME NEW s \in Seq(SentLine), s # <<>>, InOrder(s)
  PROVE  /\ Head(s) \in SentLine /\ Head(s) \in Els(s)
         /\ Tail(s) \in Seq(SentLine) /\ Els(Tail(s)) \subseteq Els(s) /\ InOrder(Tail(s))
         /\ \A l \in Els(Tail(s)) : Head(s).at < l.at
<1>1. /\ Head(s) \in SentLine /\ Head(s) \in Els(s)
      /\ Tail(s) \in Seq(SentLine) /\ Els(Tail(s)) \subseteq Els(s)
      /\ Head(s) = s[1] /\ 1 \in DOMAIN s
      /\ \A i \in DOMAIN Tail(s) : i \in Nat /\ i >= 1 /\ i + 1 \in DOMAIN s /\ Tail(s)[i] = s[i + 1]
  BY TakeElement
<1> DEFINE t == Tail(s)
<1> HIDE DEF t
<1>2. \A i, j \in DOMAIN t : i < j => i + 1 < j + 1
  BY <1>1 DEF t
<1>3. InOrder(t)
  BY <1>1, <1>2 DEF InOrder, t
<1>4. \A i \in DOMAIN t : s[1].at < t[i].at
  <2>1. \A i \in DOMAIN t : 1 < i + 1
    BY <1>1 DEF t
  <2> QED BY <1>1, <2>1 DEF InOrder, t
<1> QED BY <1>1, <1>3, <1>4 DEF Els, t

\* An answer is added.
LEMMA AppendReply ==
  ASSUME NEW s \in Seq(Reply), NEW x \in Reply, RepliesInOrder(s),
         InTurn(x) => \A a \in Els(s) : InTurn(a) => a.at < x.at
  PROVE  Append(s, x) \in Seq(Reply) /\ Els(Append(s, x)) = Els(s) \cup {x} /\ RepliesInOrder(Append(s, x))
<1> DEFINE n == Len(s)
           t == Append(s, x)
<1>1. /\ t \in Seq(Reply) /\ Els(t) = Els(s) \cup {x}
      /\ n \in Nat /\ DOMAIN s = 1 .. n /\ DOMAIN t = 1 .. (n + 1) /\ t[n + 1] = x
      /\ \A i \in 1 .. n : t[i] = s[i]
  BY AppendElement
<1> HIDE DEF n, t
<1>2. ASSUME NEW i \in 1 .. (n + 1), NEW j \in 1 .. (n + 1), i < j, InTurn(t[i]), InTurn(t[j])
      PROVE  t[i].at < t[j].at
  <2>1. i \in 1 .. n /\ (j \in 1 .. n \/ j = n + 1)
    BY <1>1, <1>2
  <2>2. s[i] \in Els(s)
    BY <1>1, <2>1 DEF Els
  <2> QED BY <1>1, <1>2, <2>1, <2>2 DEF RepliesInOrder
<1>3. RepliesInOrder(t)
  BY <1>1, <1>2 DEF RepliesInOrder
<1> QED BY <1>1, <1>3 DEF t

\* The client sends a line.
LEMMA McpSends ==
  ASSUME McpInv, NEW line \in Lines, ClientSends(line)
  PROVE  McpInv'
<1> DEFINE n == client.sent
           numbered == [line EXCEPT !.at = n + 1]
<1>1. n \in Nat /\ input \in Seq(SentLine) /\ OrderHolds(answers, active, queued, input, n)
  BY DEF McpInv
<1>2. /\ input' = Append(input, numbered) /\ client'.sent = n + 1
      /\ client'.cancels = IF line.method # "notifications/cancelled"
                           THEN client.cancels ELSE client.cancels \cup {line.id}
      /\ UNCHANGED <<queued, mcp, active, stored, answers>>
  BY DEF ClientSends
<1>3. numbered \in SentLine /\ numbered.at = n + 1 /\ numbered.method = line.method /\ numbered.id = line.id
  <2>1. line \in SentLine
    <3>1. \A id \in Ids : Line("notifications/cancelled", id, NoNeed) \in SentLine
      BY DEF Line, SentLine, Methods
    <3>2. \A id \in Ids, argument \in Arguments : Line("tools/call", id, argument) \in SentLine
      BY DEF Line, SentLine, Methods
    <3>3. \A id \in Ids : /\ Line("initialize", id, NoNeed) \in SentLine
                          /\ Line("tools/list", id, NoNeed) \in SentLine
      BY DEF Line, SentLine, Methods
    <3>4. /\ Line("notifications/initialized", NoId, NoNeed) \in SentLine
          /\ Line("garbage", NoId, NoNeed) \in SentLine
      BY DEF Line, SentLine, Methods
    <3> QED BY <3>1, <3>2, <3>3, <3>4 DEF Lines
  <2> QED BY <1>1, <2>1 DEF SentLine
<1> HIDE DEF numbered
<1>4. \A l \in Els(input) : l.at \in Nat /\ l.at <= n
  <2>1. Els(input) \subseteq SentLine
    BY <1>1, ElementsOf
  <2> QED BY <1>1, <2>1 DEF OrderHolds, SentLine
<1>5. \A l \in Els(queued) : l.at \in Nat /\ l.at <= n
  <2>1. Els(queued) \subseteq SentLine
    BY ElementsOf DEF McpInv
  <2> QED BY <1>1, <2>1 DEF OrderHolds, SentLine
<1>6. \A a \in Els(answers) : a.at \in Nat /\ (InTurn(a) => a.at <= n)
  <2>1. Els(answers) \subseteq Reply
    BY ElementsOf DEF McpInv
  <2> QED BY <1>1, <2>1 DEF OrderHolds, Reply
<1>7. active.at \in Nat
  BY DEF McpInv, CallHolds
<1>8. /\ input' \in Seq(SentLine) /\ Els(input') = Els(input) \cup {numbered} /\ InOrder(input')
  <2>1. \A l \in Els(input) : l.at < numbered.at
    BY <1>1, <1>3, <1>4
  <2> QED BY <1>1, <1>2, <1>3, <2>1, AppendLine DEF OrderHolds
<1>9. OrderHolds(answers, active, queued, input', n + 1)
  BY <1>1, <1>3, <1>4, <1>5, <1>6, <1>7, <1>8 DEF OrderHolds
<1>10. CancelHolds(active, queued, input', client'.cancels, mcp.cancelled)
  <2>1. CancelHolds(active, queued, input, client.cancels, mcp.cancelled)
    BY DEF McpInv
  <2>2. client.cancels \subseteq client'.cancels
    BY <1>2
  <2>3. numbered.method = "notifications/cancelled" => numbered.id \in client'.cancels
    BY <1>2, <1>3
  <2> QED BY <1>8, <2>1, <2>2, <2>3 DEF CancelHolds
<1> HIDE DEF n
<1> QED BY <1>1, <1>2, <1>8, <1>9, <1>10 DEF McpInv

\* A line arrives while a call runs.
LEMMA McpPolls ==
  ASSUME McpInv, PollLine
  PROVE  McpInv'
<1> DEFINE line == Head(input)
           n == client.sent
<1>1. /\ input \in Seq(SentLine) /\ queued \in Seq(SentLine) /\ answers \in Seq(Reply)
      /\ OrderHolds(answers, active, queued, input, n) /\ CallHolds(active)
      /\ CancelHolds(active, queued, input, client.cancels, mcp.cancelled)
  BY DEF McpInv
<1>2. /\ active.pc # "none" /\ input # <<>> /\ input' = Tail(input)
      /\ UNCHANGED <<client, mcp, stored>>
  BY DEF PollLine
<1>3. /\ line \in SentLine /\ line \in Els(input)
      /\ input' \in Seq(SentLine) /\ Els(input') \subseteq Els(input) /\ InOrder(input')
      /\ \A l \in Els(input') : line.at < l.at
  BY <1>1, <1>2, TakeFirst DEF OrderHolds
<1>4. CASE line.method = "notifications/cancelled" /\ line.id = active.id
  <2>1. active' = [active EXCEPT !.cancelled = TRUE] /\ UNCHANGED <<queued, answers>>
    BY <1>4 DEF PollLine
  <2>2. /\ DOMAIN active' = DOMAIN active /\ active'.cancelled = TRUE /\ active'.pc = active.pc
        /\ active'.id = active.id /\ active'.at = active.at /\ active'.ordinal = active.ordinal
        /\ active'.need = active.need /\ active'.response = active.response
    BY <1>1, <2>1 DEF CallHolds, CallFields
  <2>3. active.id \in client.cancels
    BY <1>1, <1>3, <1>4 DEF CancelHolds
  <2> HIDE DEF line
  <2>4. CallHolds(active')
    BY <1>1, <2>2 DEF CallHolds
  <2>5. OrderHolds(answers, active', queued, input', n)
    BY <1>1, <1>3, <2>2 DEF OrderHolds
  <2>6. CancelHolds(active', queued, input', client.cancels, mcp.cancelled)
    BY <1>1, <1>3, <2>2, <2>3 DEF CancelHolds
  <2>7. OrdinalHolds(active', mcp.ledger)
    BY <2>2 DEF OrdinalHolds, McpInv
  <2> HIDE DEF n
  <2> QED BY <1>2, <1>3, <2>1, <2>4, <2>5, <2>6, <2>7 DEF McpInv, n
<1>5. CASE ~(line.method = "notifications/cancelled" /\ line.id = active.id)
  <2>1. SetAside(line) /\ active' = active
    BY <1>5 DEF PollLine
  <2>2. /\ \A l \in Els(queued) : l.at < line.at
        /\ line.at <= n /\ active.at < line.at
        /\ line.method = "notifications/cancelled" => line.id \in client.cancels
        /\ \A a \in Els(answers) : InTurn(a) => a.at < line.at
    BY <1>1, <1>2, <1>3 DEF OrderHolds, CancelHolds
  <2>3. CASE queued' = Append(queued, line) /\ answers' = answers
    <3>1. /\ queued' \in Seq(SentLine) /\ Els(queued') = Els(queued) \cup {line} /\ InOrder(queued')
      BY <1>1, <1>3, <2>2, <2>3, AppendLine DEF OrderHolds
    <3> HIDE DEF line
    <3>2. OrderHolds(answers', active, queued', input', n)
      BY <1>1, <1>3, <2>2, <2>3, <3>1 DEF OrderHolds
    <3>3. CancelHolds(active, queued', input', client.cancels, mcp.cancelled)
      BY <1>1, <1>3, <2>2, <3>1 DEF CancelHolds
    <3> QED BY <1>2, <1>3, <2>1, <2>3, <3>1, <3>2, <3>3 DEF McpInv, n
  <2>4. CASE queued' = queued /\ answers' = answers
    <3> HIDE DEF line
    <3>2. OrderHolds(answers', active, queued', input', n)
      BY <1>1, <1>3, <2>4 DEF OrderHolds
    <3>3. CancelHolds(active, queued', input', client.cancels, mcp.cancelled)
      BY <1>1, <1>3, <2>4 DEF CancelHolds
    <3> QED BY <1>2, <1>3, <2>1, <2>4, <3>2, <3>3 DEF McpInv, n
  <2>5. CASE queued' = queued /\ answers' = Append(answers, Response(line.at, "queue full"))
    <3> DEFINE reply == Response(line.at, "queue full")
    <3>1. reply \in Reply /\ ~InTurn(reply)
      <4>1. line.at \in Nat
        BY <1>3 DEF SentLine
      <4> HIDE DEF line
      <4> QED BY <4>1 DEF Response, Reply, InTurn, Kinds
    <3> HIDE DEF reply, line
    <3>2. answers' \in Seq(Reply) /\ Els(answers') = Els(answers) \cup {reply} /\ RepliesInOrder(answers')
      BY <1>1, <2>5, <3>1, AppendReply DEF OrderHolds, reply
    <3>3. OrderHolds(answers', active, queued', input', n)
      BY <1>1, <1>3, <2>5, <3>1, <3>2 DEF OrderHolds
    <3>4. CancelHolds(active, queued', input', client.cancels, mcp.cancelled)
      BY <1>1, <1>3, <2>5 DEF CancelHolds
    <3> QED BY <1>2, <1>3, <2>1, <2>5, <3>2, <3>3, <3>4 DEF McpInv, n
  <2> QED BY <2>1, <2>3, <2>4, <2>5 DEF SetAside
<1> QED BY <1>4, <1>5

\* The loop takes a line.
LEMMA McpTakes ==
  ASSUME McpInv, TakeLine
  PROVE  McpInv'
<1> DEFINE line == IF queued # <<>> THEN Head(queued) ELSE Head(input)
           n == client.sent
<1>1. /\ input \in Seq(SentLine) /\ queued \in Seq(SentLine) /\ answers \in Seq(Reply)
      /\ OrderHolds(answers, active, queued, input, n) /\ CallHolds(active)
      /\ CancelHolds(active, queued, input, client.cancels, mcp.cancelled)
      /\ McpFields \subseteq DOMAIN mcp
  BY DEF McpInv
<1>2. /\ active.pc = "none" /\ (queued # <<>> \/ input # <<>>)
      /\ UNCHANGED <<client, stored>>
      /\ IF queued # <<>> THEN queued' = Tail(queued) /\ input' = input
         ELSE input' = Tail(input) /\ queued' = queued
  BY DEF TakeLine
\* The line is the first of all that are left.
<1>3. /\ line \in SentLine /\ line \in Els(queued) \cup Els(input)
      /\ queued' \in Seq(SentLine) /\ input' \in Seq(SentLine)
      /\ InOrder(queued') /\ InOrder(input')
      /\ Els(queued') \subseteq Els(queued) /\ Els(input') \subseteq Els(input)
      /\ \A l \in Els(queued') \cup Els(input') : line.at < l.at
  <2>1. CASE queued # <<>>
    <3>1. /\ Head(queued) \in SentLine /\ Head(queued) \in Els(queued)
          /\ Tail(queued) \in Seq(SentLine) /\ Els(Tail(queued)) \subseteq Els(queued)
          /\ InOrder(Tail(queued)) /\ \A l \in Els(Tail(queued)) : Head(queued).at < l.at
      BY <1>1, <2>1, TakeFirst DEF OrderHolds
    <3>2. line = Head(queued) /\ queued' = Tail(queued) /\ input' = input
      BY <1>2, <2>1
    <3> HIDE DEF line
    <3> QED BY <1>1, <3>1, <3>2 DEF OrderHolds
  <2>2. CASE queued = <<>>
    <3>1. input # <<>> /\ line = Head(input) /\ queued' = <<>> /\ input' = Tail(input)
      BY <1>2, <2>2
    <3>2. /\ Head(input) \in SentLine /\ Head(input) \in Els(input)
          /\ Tail(input) \in Seq(SentLine) /\ Els(Tail(input)) \subseteq Els(input)
          /\ InOrder(Tail(input)) /\ \A l \in Els(Tail(input)) : Head(input).at < l.at
      BY <1>1, <3>1, TakeFirst DEF OrderHolds
    <3>3. Els(<<>>) = {} /\ InOrder(<<>>) /\ <<>> \in Seq(SentLine)
      BY DEF Els, InOrder
    <3> HIDE DEF line
    <3> QED BY <2>2, <3>1, <3>2, <3>3
  <2> QED BY <2>1, <2>2
<1>4. /\ line.at \in Nat /\ line.at <= n /\ line.method \in Methods
      /\ line.method = "notifications/cancelled" => line.id \in client.cancels
      /\ \A a \in Els(answers) : InTurn(a) => a.at < line.at
  BY <1>1, <1>3 DEF OrderHolds, CancelHolds, SentLine
<1>5. CASE line.method = "tools/call"
  <2>1. active' = Started(line) /\ UNCHANGED <<mcp, answers>>
    BY <1>5 DEF TakeLine
  <2> HIDE DEF line
  <2>2. /\ CallFields = DOMAIN active' /\ active'.pc = "started" /\ active'.id = line.id
        /\ active'.need = line.need /\ active'.at = line.at /\ active'.ordinal = 0
        /\ active'.cancelled = FALSE /\ active'.response = RpcError(0)
    BY <2>1 DEF Started, NoCall, CallFields
  <2>3. RpcError(0) \in Reply /\ RpcError(0).kind # "cancelled"
    BY DEF RpcError, Response, Reply, Kinds
  <2>4. CallHolds(active')
    <3>1. active'.cancelled \in BOOLEAN
      BY <2>2
    <3>2. line.need \in Arguments \cup {NoNeed}
      BY <1>3 DEF SentLine
    <3> QED BY <1>4, <2>2, <2>3, <3>1, <3>2 DEF CallHolds
  <2>5. OrderHolds(answers, active', queued', input', n)
    BY <1>1, <1>3, <1>4, <2>2 DEF OrderHolds
  <2>6. CancelHolds(active', queued', input', client.cancels, mcp.cancelled)
    BY <1>1, <1>3, <2>2, <2>3 DEF CancelHolds
  <2>7. OrdinalHolds(active', mcp.ledger)
    BY <2>2 DEF OrdinalHolds
  <2> QED BY <1>2, <1>3, <2>1, <2>4, <2>5, <2>6, <2>7 DEF McpInv, n
<1>6. CASE line.method # "tools/call"
  <2>1. RespondAtOnce(line) /\ active' = active
    BY <1>6 DEF TakeLine
  <2> HIDE DEF line
  <2>2. /\ DOMAIN mcp' = DOMAIN mcp /\ mcp'.ledger = mcp.ledger
        /\ \/ mcp'.cancelled = mcp.cancelled
           \/ /\ mcp'.cancelled = mcp.cancelled \cup {line.id}
              /\ line.method = "notifications/cancelled"
    <3>1. CASE line.method = "notifications/cancelled"
      <4>1. mcp' = [mcp EXCEPT !.cancelled = @ \cup {line.id}]
        BY <2>1, <3>1 DEF RespondAtOnce
      <4> QED BY <1>1, <3>1, <4>1 DEF McpFields
    <3>2. CASE line.method # "notifications/cancelled"
      <4>1. \/ mcp' = mcp
            \/ \E ready : mcp' = [mcp EXCEPT !.initialized = ready]
            \/ \E seen : mcp' = [mcp EXCEPT !.seen = seen]
            \/ \E seen, known : mcp' = [mcp EXCEPT !.seen = seen, !.protocol = known]
        <5>1. CASE line.method = "garbage"
          BY <2>1, <5>1 DEF RespondAtOnce
        <5>2. CASE line.method = "notifications/initialized"
          BY <2>1, <5>2 DEF RespondAtOnce
        <5>3. CASE line.method \notin {"garbage", "notifications/initialized",
                                       "notifications/cancelled"}
          BY <2>1, <5>3 DEF RespondAtOnce, Initialize
        <5> QED BY <3>2, <5>1, <5>2, <5>3
      <4> QED BY <1>1, <4>1 DEF McpFields
    <3> QED BY <3>1, <3>2
  <2>3. \/ answers' = answers
        \/ \E kind \in Kinds : answers' = Append(answers, Response(line.at, kind))
    <3>1. Methods \subseteq Kinds /\ "error" \in Kinds
      BY DEF Kinds
    <3>2. CASE line.method = "garbage"
      BY <2>1, <3>1, <3>2 DEF RespondAtOnce, RpcError
    <3>3. CASE line.method \in {"notifications/initialized", "notifications/cancelled"}
      BY <2>1, <3>3 DEF RespondAtOnce
    <3>4. CASE line.method \notin {"garbage", "notifications/initialized",
                                   "notifications/cancelled"}
      <4>1. answers' = Append(answers, Response(line.at, line.method))
        BY <2>1, <3>4 DEF RespondAtOnce
      <4> QED BY <1>4, <3>1, <4>1
    <3> QED BY <3>2, <3>3, <3>4
  <2>4. CancelHolds(active', queued', input', client.cancels, mcp'.cancelled)
    BY <1>1, <1>3, <1>4, <2>1, <2>2 DEF CancelHolds
  <2>5. answers' \in Seq(Reply) /\ OrderHolds(answers', active', queued', input', n)
    <3>1. CASE answers' = answers
      BY <1>1, <1>3, <2>1, <3>1 DEF OrderHolds
    <3>2. ASSUME NEW kind \in Kinds, answers' = Append(answers, Response(line.at, kind))
          PROVE  answers' \in Seq(Reply) /\ OrderHolds(answers', active', queued', input', n)
      <4> DEFINE reply == Response(line.at, kind)
      <4>1. reply \in Reply /\ reply.at = line.at
        BY <1>4 DEF Response, Reply
      <4>2. answers' = Append(answers, reply)
        BY <3>2
      <4> HIDE DEF reply
      <4>3. /\ answers' \in Seq(Reply) /\ Els(answers') = Els(answers) \cup {reply}
            /\ RepliesInOrder(answers')
        BY <1>1, <1>4, <4>1, <4>2, AppendReply DEF OrderHolds
      <4> QED BY <1>1, <1>2, <1>3, <1>4, <2>1, <4>1, <4>3 DEF OrderHolds
    <3> QED BY <2>3, <3>1, <3>2
  <2> QED BY <1>1, <1>2, <1>3, <2>1, <2>2, <2>4, <2>5 DEF McpInv, n
<1> QED BY <1>5, <1>6

\* The response of the call is written.
LEMMA McpWrites ==
  ASSUME McpInv, WriteAnswer
  PROVE  McpInv'
<1> DEFINE n == client.sent
           reply == active.response
<1>1. /\ active.pc = "answered" /\ answers' = Append(answers, reply)
      /\ active' = [NoCall EXCEPT !.cancelled = active.cancelled]
      /\ UNCHANGED <<client, input, queued, mcp, stored>>
  BY DEF WriteAnswer
<1>2. /\ OrderHolds(answers, active, queued, input, n) /\ CallHolds(active)
      /\ CancelHolds(active, queued, input, client.cancels, mcp.cancelled)
      /\ answers \in Seq(Reply)
  BY DEF McpInv
<1>3. reply \in Reply /\ reply.at = active.at
  BY <1>1, <1>2 DEF CallHolds
<1> HIDE DEF reply
<1>4. /\ answers' \in Seq(Reply) /\ Els(answers') = Els(answers) \cup {reply}
      /\ RepliesInOrder(answers')
  <2>1. \A a \in Els(answers) : InTurn(a) => a.at < reply.at
    BY <1>1, <1>2, <1>3 DEF OrderHolds
  <2> QED BY <1>1, <1>2, <1>3, <2>1, AppendReply DEF OrderHolds
<1>5. /\ CallFields = DOMAIN active' /\ active'.pc = "none" /\ active'.at = 0
      /\ active'.need = NoNeed /\ active'.ordinal = 0 /\ active'.response = RpcError(0)
      /\ active'.cancelled = active.cancelled
  BY <1>1 DEF NoCall, CallFields
<1>6. RpcError(0) \in Reply /\ RpcError(0).kind # "cancelled"
  BY DEF RpcError, Response, Reply, Kinds
<1>7. CallHolds(active')
  BY <1>2, <1>5, <1>6 DEF CallHolds
<1>8. OrderHolds(answers', active', queued, input, n)
  BY <1>1, <1>2, <1>3, <1>4, <1>5 DEF OrderHolds
<1>9. CancelHolds(active', queued, input, client.cancels, mcp.cancelled)
  BY <1>2, <1>5, <1>6 DEF CancelHolds
<1>10. OrdinalHolds(active', mcp.ledger)
  BY <1>5 DEF OrdinalHolds
<1> QED BY <1>1, <1>4, <1>7, <1>8, <1>9, <1>10 DEF McpInv, n

\* The thread of the call goes on; the loop and the client are left alone.
LEMMA McpCallMoves ==
  ASSUME McpInv, active.pc # "none", UNCHANGED <<client, input, queued, answers>>,
         CallHolds(active'), active'.pc # "none", active'.id = active.id, active'.at = active.at,
         active'.cancelled = active.cancelled,
         active'.pc = "cancel" \/ active'.response.kind = "cancelled" => active.id \in client.cancels,
         McpFields \subseteq DOMAIN mcp', mcp'.cancelled \subseteq mcp.cancelled,
         mcp'.ledger \in Seq(Entry), OrdinalHolds(active', mcp'.ledger),
         LedgerHolds(mcp'.ledger, stored')
  PROVE  McpInv'
<1>1. OrderHolds(answers, active', queued, input, client.sent)
  BY DEF McpInv, OrderHolds
<1>2. CancelHolds(active', queued, input, client.cancels, mcp'.cancelled)
  BY DEF McpInv, CancelHolds
<1> QED BY <1>1, <1>2 DEF McpInv

\* The thread has its response.
LEMMA McpCallAnswered ==
  ASSUME McpInv, active.pc # "none", UNCHANGED <<client, input, queued, answers>>,
         NEW reply \in Reply, active' = Answered(active, reply), reply.at = active.at,
         reply.kind = "cancelled" => active.id \in client.cancels,
         McpFields \subseteq DOMAIN mcp', mcp'.cancelled \subseteq mcp.cancelled,
         mcp'.ledger \in Seq(Entry), LedgerHolds(mcp'.ledger, stored')
  PROVE  McpInv'
<1>1. CallHolds(active)
  BY DEF McpInv
<1>2. /\ DOMAIN active' = DOMAIN active /\ active'.pc = "answered" /\ active'.response = reply
      /\ active'.id = active.id /\ active'.at = active.at /\ active'.need = active.need
      /\ active'.cancelled = active.cancelled /\ active'.ordinal = active.ordinal
  BY <1>1 DEF Answered, CallHolds, CallFields
<1>3. CallHolds(active') /\ OrdinalHolds(active', mcp'.ledger)
  BY <1>1, <1>2 DEF CallHolds, OrdinalHolds
<1> QED BY <1>2, <1>3, McpCallMoves

\* The checks before the resolution, and the ordinal.
LEMMA McpStarts ==
  ASSUME McpInv, StartCall
  PROVE  McpInv'
<1> DEFINE duplicate == active.id \in mcp.seen
           refused == duplicate \/ ~mcp.initialized \/ active.need = "invalid"
           early == ~duplicate /\ mcp.initialized /\ active.id \in mcp.cancelled
           limited == Overflows \/ ~MultiNeedEnabled \/ NextOrdinal > MaxNeedsPerTask
           cancelled == IF early THEN mcp.cancelled \ {active.id} ELSE mcp.cancelled
           seen == [mcp EXCEPT !.seen = @ \cup {active.id},
                               !.cancelled = IF early THEN @ \ {active.id} ELSE @]
<1>1. /\ active.pc = "started" /\ UNCHANGED <<client, input, queued, stored, answers>>
      /\ IF early
         THEN active' = Answered(active, Response(active.at, "cancelled")) /\ mcp' = seen
         ELSE IF refused
         THEN active' = Answered(active, RpcError(active.at)) /\ mcp' = seen
         ELSE IF active.need = "change"
         THEN active' = Answered(active, Response(active.at, "change")) /\ mcp' = seen
         ELSE /\ active' = [active EXCEPT !.pc = IF limited THEN "bypass" ELSE "resolving",
                                          !.ordinal = NextOrdinal, !.turn = mcp.nextTurn]
              /\ mcp' = [seen EXCEPT !.nextTurn = @ + 1]
  BY DEF StartCall
<1>2. /\ McpFields \subseteq DOMAIN mcp /\ mcp.ledger \in Seq(Entry) /\ CallHolds(active)
      /\ LedgerHolds(mcp.ledger, stored) /\ mcp.cancelled \subseteq client.cancels
      /\ active.response.kind = "cancelled" => active.id \in client.cancels
  BY DEF McpInv, CancelHolds
<1>3. /\ DOMAIN seen = DOMAIN mcp /\ seen.ledger = mcp.ledger
      /\ seen.cancelled \subseteq mcp.cancelled
  BY <1>2 DEF McpFields
<1>4. early => active.id \in client.cancels
  BY <1>2
<1> HIDE DEF seen, early, refused, limited
<1>5. /\ McpFields \subseteq DOMAIN mcp' /\ mcp'.ledger = mcp.ledger
      /\ mcp'.cancelled \subseteq mcp.cancelled
  <2>1. mcp' = seen \/ mcp' = [seen EXCEPT !.nextTurn = @ + 1]
    BY <1>1
  <2> QED BY <1>2, <1>3, <2>1 DEF McpFields
<1>6. active.at \in Nat
  BY <1>2 DEF CallHolds
<1>7. /\ Response(active.at, "cancelled") \in Reply /\ Response(active.at, "change") \in Reply
      /\ RpcError(active.at) \in Reply
      /\ Response(active.at, "cancelled").at = active.at
      /\ Response(active.at, "change").at = active.at /\ Response(active.at, "change").kind = "change"
      /\ RpcError(active.at).at = active.at /\ RpcError(active.at).kind = "error"
  BY <1>6 DEF Response, RpcError, Reply, Kinds
<1>8. CASE early
  BY <1>1, <1>2, <1>4, <1>5, <1>7, <1>8, McpCallAnswered
<1>9. CASE ~early /\ refused
  BY <1>1, <1>2, <1>5, <1>7, <1>9, McpCallAnswered
<1>10. CASE ~early /\ ~refused /\ active.need = "change"
  BY <1>1, <1>2, <1>5, <1>7, <1>10, McpCallAnswered
<1>11. CASE ~early /\ ~refused /\ active.need # "change"
  <2> DEFINE pc == IF limited THEN "bypass" ELSE "resolving"
  <2>1. active' = [active EXCEPT !.pc = pc, !.ordinal = NextOrdinal, !.turn = mcp.nextTurn]
    BY <1>1, <1>11
  <2>2. pc \in {"bypass", "resolving"}
    OBVIOUS
  <2> HIDE DEF pc
  <2>3. /\ DOMAIN active' = DOMAIN active /\ active'.pc = pc /\ active'.response = active.response
        /\ active'.id = active.id /\ active'.at = active.at /\ active'.need = active.need
        /\ active'.cancelled = active.cancelled /\ active'.ordinal = NextOrdinal
    BY <1>2, <2>1 DEF CallHolds, CallFields
  <2>4. /\ NextOrdinal \in Nat
        /\ NextOrdinal = Len(mcp.ledger) + 1 \/ (Len(mcp.ledger) >= OrdinalMax /\ NextOrdinal = OrdinalMax)
    <3>1. Len(mcp.ledger) \in Nat /\ OrdinalMax \in Nat
      BY <1>2, McpSessionAssumption
    <3> QED BY <3>1 DEF NextOrdinal, Overflows
  <2>5. CallHolds(active')
    BY <1>2, <2>2, <2>3, <2>4 DEF CallHolds
  <2>6. OrdinalHolds(active', mcp'.ledger)
    BY <1>5, <2>3, <2>4 DEF OrdinalHolds
  <2> QED BY <1>1, <1>2, <1>5, <2>2, <2>3, <2>5, <2>6, McpCallMoves
<1> QED BY <1>8, <1>9, <1>10, <1>11

\* The resolution ends.
LEMMA McpResolves ==
  ASSUME McpInv, ResolutionEnds
  PROVE  McpInv'
<1>1. /\ active.pc = "resolving" /\ UNCHANGED <<client, input, queued, stored, answers>>
  BY DEF ResolutionEnds, Resolve, ResolveFails
<1>2. /\ McpFields \subseteq DOMAIN mcp /\ mcp.ledger \in Seq(Entry) /\ CallHolds(active)
      /\ LedgerHolds(mcp.ledger, stored) /\ OrdinalHolds(active, mcp.ledger)
      /\ active.response.kind = "cancelled" => active.id \in client.cancels
      /\ active.cancelled = TRUE => active.id \in client.cancels
  BY <1>1 DEF McpInv, CancelHolds
<1>3. /\ McpFields \subseteq DOMAIN mcp' /\ mcp'.ledger = mcp.ledger
      /\ mcp'.cancelled = mcp.cancelled
  BY <1>2 DEF ResolutionEnds, Resolve, ResolveFails, McpFields
<1>4. ASSUME NEW pc \in {"deliver", "deliver unsafe", "bypass", "cancel"},
             active' = [active EXCEPT !.pc = pc],
             pc = "cancel" => active.cancelled = TRUE
      PROVE  McpInv'
  <2>1. /\ DOMAIN active' = DOMAIN active /\ active'.pc = pc /\ active'.response = active.response
        /\ active'.id = active.id /\ active'.at = active.at /\ active'.need = active.need
        /\ active'.cancelled = active.cancelled /\ active'.ordinal = active.ordinal
    BY <1>2, <1>4 DEF CallHolds, CallFields
  <2>2. CallHolds(active')
    BY <1>2, <2>1 DEF CallHolds
  <2>3. OrdinalHolds(active', mcp'.ledger)
    BY <1>1, <1>2, <1>3, <2>1 DEF OrdinalHolds
  <2> QED BY <1>1, <1>2, <1>3, <1>4, <2>1, <2>2, <2>3, McpCallMoves
<1>5. ASSUME NEW spawned, NEW safe \in BOOLEAN, Resolve(spawned, safe) PROVE McpInv'
  <2>1. active' = [active EXCEPT !.pc = "deliver"] \/ active' = [active EXCEPT !.pc = "deliver unsafe"]
    BY <1>5 DEF Resolve
  <2> QED BY <1>4, <2>1
<1>6. CASE ResolveFails
  <2>1. CASE active' = Answered(active, RpcError(active.at))
    <3>1. RpcError(active.at) \in Reply /\ RpcError(active.at).at = active.at /\ RpcError(active.at).kind = "error"
      BY <1>2 DEF RpcError, Response, Reply, Kinds, CallHolds
    <3> QED BY <1>1, <1>2, <1>3, <2>1, <3>1, McpCallAnswered
  <2>2. CASE active.cancelled = TRUE /\ active' = [active EXCEPT !.pc = "cancel"]
    BY <1>4, <2>2
  <2>3. CASE active' = [active EXCEPT !.pc = "bypass"]
    BY <1>4, <2>3
  <2>4. active.cancelled \in BOOLEAN
    BY <1>2 DEF CallHolds
  <2> QED BY <1>6, <2>1, <2>2, <2>3, <2>4 DEF ResolveFails
<1> QED BY <1>5, <1>6 DEF ResolutionEnds

\* The step of the call is written, as far as the store lets it.
LEMMA McpPersists ==
  ASSUME McpInv, NEW written, Persist(written)
  PROVE  McpInv'
<1> DEFINE pc == active.pc
           satisfied == active.pc = "deliver"
           step == Step(active.ordinal, active.turn, active.need, satisfied, written)
           entry == [need |-> active.need, satisfied |-> satisfied]
           n == Len(mcp.ledger)
<1>1. /\ Writing /\ ~OrdinalTaken(active.ordinal)
      /\ stored' = stored \cup {step}
      /\ UNCHANGED <<client, input, queued, answers>>
  BY DEF Persist
<1>2. /\ McpFields \subseteq DOMAIN mcp /\ mcp.ledger \in Seq(Entry) /\ CallHolds(active)
      /\ LedgerHolds(mcp.ledger, stored) /\ OrdinalHolds(active, mcp.ledger)
      /\ active.pc = "cancel" => active.id \in client.cancels
      /\ active.at \in Nat /\ active.ordinal \in Nat
  BY DEF McpInv, CancelHolds, CallHolds
<1>3. pc \in {"deliver", "deliver unsafe", "bypass", "cancel"}
  BY <1>1 DEF Writing
<1>4. LedgerHolds(mcp.ledger, stored')
  BY <1>1, <1>2 DEF LedgerHolds
<1>5. CASE active' = Answered(active, RpcError(active.at)) /\ UNCHANGED mcp
  <2>1. RpcError(active.at) \in Reply /\ RpcError(active.at).at = active.at /\ RpcError(active.at).kind = "error"
    BY <1>2 DEF RpcError, Response, Reply, Kinds
  <2> QED BY <1>1, <1>2, <1>3, <1>4, <1>5, <2>1, McpCallAnswered
<1>6. CASE /\ written = StatesOf(pc)
           /\ mcp' = [mcp EXCEPT !.ledger = Ledger(active, satisfied)]
           /\ active' = Answered(active, [Response(active.at, AnswerOf(pc)) EXCEPT
                                            !.ordinal = active.ordinal])
  <2> DEFINE reply == [Response(active.at, AnswerOf(pc)) EXCEPT !.ordinal = active.ordinal]
  <2>1. AnswerOf(pc) \in Kinds /\ (AnswerOf(pc) = "cancelled" => pc = "cancel")
    <3> HIDE DEF pc
    <3>1. CASE pc = "deliver"
      BY <3>1 DEF AnswerOf, Kinds
    <3>2. CASE pc = "deliver unsafe"
      BY <3>2 DEF AnswerOf, Kinds
    <3>3. CASE pc = "bypass"
      BY <3>3 DEF AnswerOf, Kinds
    <3>4. CASE pc = "cancel"
      BY <3>4 DEF AnswerOf, Kinds
    <3> QED BY <1>3, <3>1, <3>2, <3>3, <3>4
  <2>2. reply \in Reply /\ reply.at = active.at /\ reply.kind = AnswerOf(pc)
    BY <1>2, <2>1 DEF Response, Reply
  <2>3. /\ DOMAIN mcp' = DOMAIN mcp /\ mcp'.cancelled = mcp.cancelled
        /\ mcp'.ledger = Ledger(active, satisfied)
    BY <1>2, <1>6 DEF McpFields
  <2>4. mcp'.ledger \in Seq(Entry) /\ LedgerHolds(mcp'.ledger, stored')
    <3>1. CASE pc = "cancel"
      <4>1. mcp'.ledger = mcp.ledger
        BY <2>3, <3>1 DEF Ledger
      <4> QED BY <1>2, <1>4, <4>1
    <3>2. CASE pc # "cancel"
      <4>1. mcp'.ledger = Append(mcp.ledger, entry)
        BY <2>3, <3>2 DEF Ledger
      <4>2. entry \in Entry /\ entry.need = active.need /\ entry.satisfied = satisfied
        BY <1>2 DEF Entry, CallHolds
      <4>3. /\ step.ordinal = active.ordinal /\ step.need = active.need
            /\ step.satisfied = satisfied /\ step.states = StatesOf(pc)
        BY <1>6 DEF Step
      <4>4. StatesOf(pc)[Len(StatesOf(pc))] = "delivered"
        <5> HIDE DEF pc
        <5>1. CASE pc \in {"deliver", "deliver unsafe"}
          <6>1. StatesOf(pc) = <<"requested", "resolving", "resolved", "delivered">>
            BY <5>1 DEF StatesOf
          <6> QED BY <6>1
        <5>2. CASE pc = "bypass"
          <6>1. StatesOf(pc) = <<"requested", "native_fallback", "delivered">>
            BY <5>2 DEF StatesOf
          <6> QED BY <6>1
        <5> QED BY <1>3, <3>2, <5>1, <5>2
      <4> HIDE DEF entry, step, satisfied, pc
      <4>5. /\ n \in Nat /\ DOMAIN mcp.ledger = 1 .. n /\ mcp'.ledger \in Seq(Entry)
            /\ DOMAIN mcp'.ledger = 1 .. (n + 1) /\ mcp'.ledger[n + 1] = entry
            /\ \A i \in 1 .. n : mcp'.ledger[i] = mcp.ledger[i]
        BY <1>2, <4>1, <4>2, AppendElement
      \* Were the ordinals used up, the last one would be taken.
      <4>6. active.ordinal = n + 1
        <5>1. active.ordinal = n + 1 \/ (n >= OrdinalMax /\ active.ordinal = OrdinalMax)
          BY <1>2, <1>3 DEF OrdinalHolds, pc
        <5>2. ASSUME n >= OrdinalMax, active.ordinal = OrdinalMax PROVE FALSE
          <6>1. OrdinalMax \in 1 .. n
            BY <4>5, <5>2, McpSessionAssumption
          <6>2. \E q \in stored : q.ordinal = OrdinalMax
            BY <1>2, <4>5, <6>1 DEF LedgerHolds, StepIs
          <6> QED BY <1>1, <5>2, <6>2 DEF OrdinalTaken
        <5> QED BY <5>1, <5>2
      <4>7. StepIs(step, n + 1, entry)
        BY <4>2, <4>3, <4>4, <4>6 DEF StepIs
      <4>8. \A k \in 1 .. (n + 1) : k \in 1 .. n \/ k = n + 1
        BY <4>5
      <4>9. LedgerHolds(mcp'.ledger, stored')
        BY <1>1, <1>4, <4>5, <4>7, <4>8 DEF LedgerHolds
      <4> QED BY <4>5, <4>9
    <3> QED BY <3>1, <3>2
  <2> HIDE DEF reply
  <2> QED BY <1>1, <1>2, <1>3, <1>6, <2>1, <2>2, <2>3, <2>4, McpCallAnswered DEF reply
<1> QED BY <1>5, <1>6 DEF Persist

\* The first write fails.
LEMMA McpPersistFails ==
  ASSUME McpInv, PersistFails
  PROVE  McpInv'
<1> DEFINE reply == Response(active.at, "not stored")
<1>1. /\ active.pc # "none" /\ active' = Answered(active, reply)
      /\ UNCHANGED <<client, input, queued, mcp, stored, answers>>
  BY DEF PersistFails, Writing
<1>2. reply \in Reply /\ reply.at = active.at /\ reply.kind = "not stored"
  BY DEF Response, Reply, Kinds, McpInv, CallHolds
<1>3. /\ McpFields \subseteq DOMAIN mcp /\ mcp.ledger \in Seq(Entry)
      /\ LedgerHolds(mcp.ledger, stored)
  BY DEF McpInv
<1> HIDE DEF reply
<1> QED BY <1>1, <1>2, <1>3, McpCallAnswered

\* Every step of the server and its client keeps the invariant.
LEMMA McpStep == McpInv /\ [McpNext]_mcpVars => McpInv'
<1> SUFFICES ASSUME McpInv, [McpNext]_mcpVars PROVE McpInv'
  OBVIOUS
<1>1. CASE UNCHANGED mcpVars
  BY <1>1 DEF mcpVars, McpInv
<1>2. CASE WriteStep
  BY <1>2, McpPersists, McpPersistFails DEF WriteStep
<1> QED
  BY <1>1, <1>2, McpSends, McpPolls, McpTakes, McpStarts, McpResolves, McpWrites
     DEF McpNext, ServeStep

\* Initially nothing was said.
LEMMA McpStart == McpInit => McpInv
<1> SUFFICES ASSUME McpInit PROVE McpInv
  OBVIOUS
<1>1. /\ <<>> \in Seq(SentLine) /\ <<>> \in Seq(Reply) /\ <<>> \in Seq(Entry)
      /\ Els(<<>>) = {} /\ DOMAIN <<>> = {}
  BY DEF Els
<1>2. RpcError(0) \in Reply /\ RpcError(0).kind # "cancelled"
  BY DEF RpcError, Response, Reply, Kinds
<1>3. /\ CallFields = DOMAIN NoCall /\ NoCall.pc = "none" /\ NoCall.at = 0
      /\ NoCall.need = NoNeed /\ NoCall.ordinal = 0 /\ NoCall.response = RpcError(0)
      /\ NoCall.cancelled = FALSE
  BY DEF NoCall, CallFields
<1>4. CallHolds(NoCall)
  <2>1. NoCall.cancelled \in BOOLEAN
    BY <1>3
  <2>2. /\ CallFields \subseteq DOMAIN NoCall /\ NoCall.at \in Nat /\ NoCall.ordinal \in Nat
        /\ NoCall.need \in Arguments \cup {NoNeed} /\ NoCall.response \in Reply
        /\ NoCall.pc # "answered"
    BY <1>2, <1>3
  <2> QED BY <2>1, <2>2 DEF CallHolds
<1>5. OrdinalHolds(NoCall, <<>>) /\ OrderHolds(<<>>, NoCall, <<>>, <<>>, 0) /\ LedgerHolds(<<>>, {})
  BY <1>1, <1>3 DEF OrdinalHolds, OrderHolds, LedgerHolds, InOrder, RepliesInOrder
<1>6. CancelHolds(NoCall, <<>>, <<>>, {}, {})
  BY <1>1, <1>2, <1>3 DEF CancelHolds
<1>7. /\ McpFields \subseteq DOMAIN mcp /\ mcp.ledger = <<>> /\ mcp.cancelled = {}
      /\ client.sent = 0 /\ client.cancels = {}
  BY DEF McpInit, McpFields
<1> QED BY <1>1, <1>4, <1>5, <1>6, <1>7 DEF McpInit, McpInv

\* The invariant says what the ledger and the answers are.
LEMMA McpHolds == McpInv => LedgerIsStored /\ AnswersInOrder
<1> SUFFICES ASSUME McpInv PROVE LedgerIsStored /\ AnswersInOrder
  OBVIOUS
<1>1. LedgerIsStored
  BY DEF McpInv, LedgerHolds, StepIs, LedgerIsStored
<1>2. AnswersInOrder
  BY DEF McpInv, OrderHolds, RepliesInOrder, InTurn, CancelHolds, AnswersInOrder
<1> QED BY <1>1, <1>2

-----------------------------------------------------------------------------
(* The role profiles *)

Definitions == {Canonical(i) : i \in Inputs}
Revision == [def : Definitions, activated : BOOLEAN]
Row == [latest : Nat, active : Nat, generation : Nat]
Digest == [latest : Nat, latestDef : SUBSET Definitions, active : Nat,
           activeDef : SUBSET Definitions, generation : Nat]
Ops == {"create", "revise", "activate", "deactivate"}
RevisionStates == {"none", "active", "draft", "inactive"}
Audited == [op : Ops, revision : Nat, prior : Digest, result : Digest,
            priorState : RevisionStates, resultState : RevisionStates]
Profiles == [revs : Seq(Revision), row : Row, audit : Seq(Audited)]

\* What an audit row says of the two digests it joins.
OperationHolds(a) ==
  /\ a.result.generation = IF a.op = "create" THEN 0 ELSE a.prior.generation + 1
  /\ CASE a.op = "create" -> a.prior = NoDigest /\ a.result.latest = 1 /\ a.revision = 1
       [] a.op = "revise" -> /\ a.revision = a.prior.latest + 1
                             /\ a.result.latest = a.revision
                             /\ a.result.active = a.prior.active
       [] a.op = "activate" -> /\ a.result.active = a.revision
                               /\ a.prior.active # a.revision
                               /\ a.result.latest = a.prior.latest
       [] a.op = "deactivate" -> /\ a.result.active = 0
                                 /\ a.prior.active = a.revision
                                 /\ a.result.latest = a.prior.latest
  /\ a.resultState = RevisionState(a.result, a.revision)

\* The row points into the revisions, and its generation counts the changes.
PointerHolds(p) ==
  /\ p.row.latest = Len(p.revs) /\ p.row.active <= p.row.latest
  /\ p.row.latest = 0 => p.row.generation = 0 /\ Len(p.audit) = 0
  /\ p.row.latest # 0 => Len(p.audit) = p.row.generation + 1

\* The audit rows join, and the generation of the n-th one is n - 1.
AuditHolds(p) ==
  /\ \A n \in DOMAIN p.audit :
       /\ OperationHolds(p.audit[n])
       /\ p.audit[n].result.latest \in DOMAIN p.revs
       /\ p.audit[n].result.active <= p.audit[n].result.latest
       /\ p.audit[n].result.latestDef = {p.revs[p.audit[n].result.latest].def}
       /\ p.audit[n].result.generation = n - 1
       /\ n > 1 => p.audit[n].prior = p.audit[n - 1].result
  /\ p.row.latest # 0 => p.audit[Len(p.audit)].result = StateDigestOf(p, p.row)

WasActivated(log, n) == \E m \in DOMAIN log : log[m].op = "activate" /\ log[m].revision = n

RevisionsHold(p) ==
  /\ \A n \in DOMAIN p.revs :
       /\ WellFormed(p.revs[n].def) /\ p.revs[n].def.role = p.revs[1].def.role
       /\ \A m \in DOMAIN p.revs : p.revs[m].def = p.revs[n].def => m = n
  /\ \A n \in DOMAIN p.revs : p.revs[n].activated = TRUE <=> WasActivated(p.audit, n)

ProfileHolds(p) == p \in Profiles /\ PointerHolds(p) /\ AuditHolds(p) /\ RevisionsHold(p)

\* The digest d is that of the state after the first n changes.
DigestAt(p, d, n) ==
  /\ n <= Len(p.audit)
  /\ IF n = 0 THEN d = NoDigest ELSE d = p.audit[n].result

EditorFields == {"pc", "seen", "seenAt", "request", "expected", "existed", "answer"}

\* What an editor holds: a digest of some state, and when it is about to commit
\* the one it was checked against.
EditorHolds(p, x) ==
  /\ EditorFields \subseteq DOMAIN x
  /\ x.seenAt \in Nat \cup {-1}
  /\ x.seenAt # -1 => DigestAt(p, x.seen, x.seenAt)
  /\ x.pc \in {"check", "commit"} =>
       /\ x.seenAt # -1
       /\ x.request[1] = "save" => x.request[2] \in Inputs
       /\ x.request[1] = "activate" => x.request[2] \in DOMAIN p.revs
  /\ x.pc = "commit" =>
       /\ x.expected = x.seen
       /\ x.request[1] = "save" =>
            /\ WellFormed(Canonical(x.request[2]))
            /\ x.existed = TRUE <=> x.seen.latest # 0
       /\ x.request[1] # "save" => x.seen.latest # 0
       /\ x.request[1] = "deactivate" => x.seen.active # 0

ReaderFields == {"pc", "row", "since", "got"}

ReaderHolds(p, r) ==
  /\ ReaderFields \subseteq DOMAIN r
  /\ r.pc = "loading" =>
       /\ r.row \in Row /\ r.row.latest \in DOMAIN p.revs /\ r.row.active <= r.row.latest
       /\ r.since \in DOMAIN p.audit /\ p.audit[r.since].result = StateDigestOf(p, r.row)
  /\ r.got # <<>> /\ r.got[1] = "ok" =>
       r.since \in DOMAIN p.audit /\ r.got[2] = p.audit[r.since].result

ProfileInv ==
  /\ ProfileHolds(profile)
  /\ DOMAIN editor = Editors /\ \A e \in Editors : EditorHolds(profile, editor[e])
  /\ ReaderHolds(profile, reader)

\* A profile only grows: audit rows and definitions stay.
Grew(p, q) ==
  /\ Len(p.audit) <= Len(q.audit) /\ \A n \in 1 .. Len(p.audit) : q.audit[n] = p.audit[n]
  /\ Len(p.revs) <= Len(q.revs) /\ \A n \in 1 .. Len(p.revs) : q.revs[n].def = p.revs[n].def

\* A digest and its parts.
LEMMA DigestParts ==
  ASSUME NEW p, p \in Profiles, NEW row \in Row,
         row.latest <= Len(p.revs), row.active <= Len(p.revs)
  PROVE  LET d == StateDigestOf(p, row) IN
         /\ d \in Digest
         /\ d.latest = row.latest /\ d.active = row.active /\ d.generation = row.generation
         /\ row.latest # 0 => d.latestDef = {p.revs[row.latest].def}
<1>1. p.revs \in Seq(Revision) /\ row.latest \in Nat /\ row.active \in Nat /\ row.generation \in Nat
  BY DEF Profiles, Row
<1>2. DOMAIN p.revs = 1 .. Len(p.revs) /\ \A n \in 1 .. Len(p.revs) : p.revs[n] \in Revision
  BY <1>1
<1>3. \A n \in 1 .. Len(p.revs) : {p.revs[n].def} \in SUBSET Definitions
  BY <1>2 DEF Revision
<1> DEFINE l == IF row.latest = 0 THEN {} ELSE {p.revs[row.latest].def}
           a == IF row.active = 0 THEN {} ELSE {p.revs[row.active].def}
<1>4. l \in SUBSET Definitions /\ a \in SUBSET Definitions
  <2>1. row.latest # 0 => row.latest \in 1 .. Len(p.revs)
    BY <1>1
  <2>2. row.active # 0 => row.active \in 1 .. Len(p.revs)
    BY <1>1
  <2> QED BY <2>1, <2>2, <1>3
<1>5. row.latest # 0 => l = {p.revs[row.latest].def}
  OBVIOUS
<1> HIDE DEF l, a
<1>6. StateDigestOf(p, row) = [latest |-> row.latest, latestDef |-> l, active |-> row.active,
                               activeDef |-> a, generation |-> row.generation]
  BY DEF StateDigestOf, l, a
<1> QED BY <1>1, <1>4, <1>5, <1>6 DEF Digest

\* The digest of a state depends on the definitions only.
LEMMA SameDigest ==
  ASSUME NEW p, NEW q, NEW row, row.latest \in Nat, row.active \in Nat,
         row.latest <= Len(p.revs), row.active <= Len(p.revs), Len(p.revs) \in Nat,
         \A n \in 1 .. Len(p.revs) : q.revs[n].def = p.revs[n].def
  PROVE  StateDigestOf(q, row) = StateDigestOf(p, row)
<1>1. /\ row.latest # 0 => row.latest \in 1 .. Len(p.revs)
      /\ row.active # 0 => row.active \in 1 .. Len(p.revs)
  OBVIOUS
<1>2. /\ row.latest # 0 => q.revs[row.latest].def = p.revs[row.latest].def
      /\ row.active # 0 => q.revs[row.active].def = p.revs[row.active].def
  BY <1>1
<1> QED BY <1>2 DEF StateDigestOf

\* What an editor and the reader hold stays true as the profile grows.
LEMMA EditorLater ==
  ASSUME NEW p, NEW q, p \in Profiles, q \in Profiles, Grew(p, q), NEW x, EditorHolds(p, x)
  PROVE  EditorHolds(q, x)
<1>1. p.revs \in Seq(Revision) /\ q.revs \in Seq(Revision) /\ p.audit \in Seq(Audited) /\ q.audit \in Seq(Audited)
  BY DEF Profiles
<1>2. /\ DOMAIN p.revs = 1 .. Len(p.revs) /\ DOMAIN q.revs = 1 .. Len(q.revs)
      /\ Len(p.revs) \in Nat /\ Len(q.revs) \in Nat /\ Len(p.audit) \in Nat /\ Len(q.audit) \in Nat
  BY <1>1
<1>3. DOMAIN p.revs \subseteq DOMAIN q.revs
  BY <1>2 DEF Grew
<1>4. x.seenAt \in Nat \cup {-1} /\ (x.seenAt # -1 => DigestAt(p, x.seen, x.seenAt))
  BY DEF EditorHolds
<1>5. x.seenAt # -1 => DigestAt(q, x.seen, x.seenAt)
  <2> SUFFICES ASSUME x.seenAt \in Nat, DigestAt(p, x.seen, x.seenAt) PROVE DigestAt(q, x.seen, x.seenAt)
    BY <1>4
  <2>1. x.seenAt # 0 => x.seenAt \in 1 .. Len(p.audit)
    BY <1>2 DEF DigestAt
  <2>2. x.seenAt # 0 => q.audit[x.seenAt] = p.audit[x.seenAt]
    BY <2>1 DEF Grew
  <2> QED BY <2>2, <1>2 DEF DigestAt, Grew
<1> QED BY <1>3, <1>4, <1>5 DEF EditorHolds

LEMMA ReaderLater ==
  ASSUME NEW p, NEW q, p \in Profiles, q \in Profiles, Grew(p, q), NEW r, ReaderHolds(p, r)
  PROVE  ReaderHolds(q, r)
<1>1. p.revs \in Seq(Revision) /\ q.revs \in Seq(Revision) /\ p.audit \in Seq(Audited) /\ q.audit \in Seq(Audited)
  BY DEF Profiles
<1>2. /\ DOMAIN p.revs = 1 .. Len(p.revs) /\ DOMAIN q.revs = 1 .. Len(q.revs)
      /\ DOMAIN p.audit = 1 .. Len(p.audit) /\ DOMAIN q.audit = 1 .. Len(q.audit)
      /\ Len(p.revs) \in Nat /\ Len(q.revs) \in Nat /\ Len(p.audit) \in Nat /\ Len(q.audit) \in Nat
  BY <1>1
<1>3. DOMAIN p.revs \subseteq DOMAIN q.revs /\ DOMAIN p.audit \subseteq DOMAIN q.audit
  BY <1>2 DEF Grew
<1>4. \A n \in DOMAIN p.audit : q.audit[n] = p.audit[n]
  BY <1>2 DEF Grew
<1>5. r.pc = "loading" => StateDigestOf(q, r.row) = StateDigestOf(p, r.row)
  <2> SUFFICES ASSUME r.pc = "loading" PROVE StateDigestOf(q, r.row) = StateDigestOf(p, r.row)
    OBVIOUS
  <2>1. r.row \in Row /\ r.row.latest \in 1 .. Len(p.revs) /\ r.row.active <= r.row.latest
    BY <1>2 DEF ReaderHolds
  <2>2. /\ r.row.latest \in Nat /\ r.row.active \in Nat
        /\ r.row.latest <= Len(p.revs) /\ r.row.active <= Len(p.revs)
    BY <2>1, <1>2 DEF Row
  <2> QED BY <2>2, <1>2, SameDigest DEF Grew
<1> QED BY <1>3, <1>4, <1>5 DEF ReaderHolds

\* One more change: the rows of the audit still join.
LEMMA AuditGrows ==
  ASSUME NEW p, NEW q, NEW a, p \in Profiles, q \in Profiles, a \in Audited, Grew(p, q),
         AuditHolds(p), q.audit = Append(p.audit, a), OperationHolds(a),
         q.row.latest = Len(q.revs), q.row.latest # 0, q.row.active <= q.row.latest,
         q.row.generation = Len(p.audit), a.result = StateDigestOf(q, q.row),
         Len(p.audit) # 0 => a.prior = p.audit[Len(p.audit)].result
  PROVE  AuditHolds(q)
<1>1. /\ p.revs \in Seq(Revision) /\ q.revs \in Seq(Revision) /\ p.audit \in Seq(Audited)
      /\ q.row \in Row /\ q.row.latest \in Nat /\ q.row.active \in Nat
  BY DEF Profiles, Row
<1> DEFINE k == Len(p.audit)
<1>2. /\ k \in Nat /\ DOMAIN p.audit = 1 .. k /\ DOMAIN q.audit = 1 .. (k + 1) /\ Len(q.audit) = k + 1
      /\ q.audit[k + 1] = a /\ \A n \in 1 .. k : q.audit[n] = p.audit[n]
  BY <1>1, AppendElement
<1>3. /\ DOMAIN p.revs = 1 .. Len(p.revs) /\ DOMAIN q.revs = 1 .. Len(q.revs)
      /\ Len(p.revs) \in Nat /\ Len(q.revs) \in Nat
  BY <1>1
<1>4. /\ a.result.latest = q.row.latest /\ a.result.generation = k
      /\ a.result.active <= a.result.latest
      /\ a.result.latestDef = {q.revs[q.row.latest].def}
  BY <1>1, <1>3, DigestParts
<1>5. q.row.latest \in DOMAIN q.revs
  BY <1>1, <1>3
<1>6. k # 0 => a.prior = p.audit[k].result
  OBVIOUS
<1> HIDE DEF k
<1>7. ASSUME NEW n \in 1 .. k
      PROVE  /\ OperationHolds(q.audit[n])
             /\ q.audit[n].result.latest \in DOMAIN q.revs
             /\ q.audit[n].result.active <= q.audit[n].result.latest
             /\ q.audit[n].result.latestDef = {q.revs[q.audit[n].result.latest].def}
             /\ q.audit[n].result.generation = n - 1
             /\ n > 1 => q.audit[n].prior = q.audit[n - 1].result
  <2>1. q.audit[n] = p.audit[n] /\ n \in DOMAIN p.audit
    BY <1>2
  <2>2. n > 1 => q.audit[n - 1] = p.audit[n - 1]
    BY <1>2
  <2>3. p.audit[n].result.latest \in 1 .. Len(p.revs)
    BY <1>3, <2>1 DEF AuditHolds
  <2>4. q.revs[p.audit[n].result.latest].def = p.revs[p.audit[n].result.latest].def
    BY <2>3 DEF Grew
  <2>5. p.audit[n].result.latest \in DOMAIN q.revs
    BY <2>3, <1>3 DEF Grew
  <2> QED BY <2>1, <2>2, <2>4, <2>5 DEF AuditHolds
<1>8. k + 1 > 1 => q.audit[k + 1].prior = q.audit[(k + 1) - 1].result
  <2>1. k + 1 > 1 => k # 0 /\ k \in 1 .. k /\ (k + 1) - 1 = k
    BY <1>2
  <2> QED BY <2>1, <1>2, <1>6
<1>9. (k + 1) - 1 = k
  BY <1>2
<1>10. \A n \in 1 .. (k + 1) : n \in 1 .. k \/ n = k + 1
  BY <1>2
<1>11. \A n \in DOMAIN q.audit :
         /\ OperationHolds(q.audit[n])
         /\ q.audit[n].result.latest \in DOMAIN q.revs
         /\ q.audit[n].result.active <= q.audit[n].result.latest
         /\ q.audit[n].result.latestDef = {q.revs[q.audit[n].result.latest].def}
         /\ q.audit[n].result.generation = n - 1
         /\ n > 1 => q.audit[n].prior = q.audit[n - 1].result
  <2> SUFFICES ASSUME NEW n \in 1 .. (k + 1)
               PROVE  /\ OperationHolds(q.audit[n])
                      /\ q.audit[n].result.latest \in DOMAIN q.revs
                      /\ q.audit[n].result.active <= q.audit[n].result.latest
                      /\ q.audit[n].result.latestDef = {q.revs[q.audit[n].result.latest].def}
                      /\ q.audit[n].result.generation = n - 1
                      /\ n > 1 => q.audit[n].prior = q.audit[n - 1].result
    BY <1>2
  <2>1. CASE n \in 1 .. k
    BY <2>1, <1>7
  <2>2. CASE n = k + 1
    BY <2>2, <1>2, <1>4, <1>5, <1>8, <1>9
  <2> QED BY <2>1, <2>2, <1>10
<1> QED BY <1>2, <1>11 DEF AuditHolds

LEMMA StateOfRevision ==
  ASSUME NEW row, NEW n
  PROVE  RevisionState(row, n) \in RevisionStates
BY DEF RevisionState, RevisionStates

LEMMA SameRevisionState ==
  ASSUME NEW row, NEW d, NEW n, d.latest = row.latest, d.active = row.active
  PROVE  RevisionState(d, n) = RevisionState(row, n)
BY DEF RevisionState

\* What stays and what is added when a change is stored with its audit row.
LEMMA ProfileChanges ==
  ASSUME ProfileHolds(profile), NEW op \in Ops, NEW n \in Nat, NEW before \in RevisionStates,
         NEW after, after \in Profiles, after.audit = profile.audit,
         after.row.latest = Len(after.revs), after.row.latest # 0,
         after.row.active <= after.row.latest,
         after.row.generation = Len(profile.audit),
         Len(profile.revs) <= Len(after.revs),
         \A m \in 1 .. Len(profile.revs) : after.revs[m].def = profile.revs[m].def,
         OperationHolds(AuditRow(op, n, before, after))
  PROVE  LET q == WithAudit(op, n, before, after) IN
         /\ q \in Profiles /\ PointerHolds(q) /\ AuditHolds(q) /\ Grew(profile, q)
         /\ q.revs = after.revs /\ q.row = after.row
         /\ q.audit = Append(profile.audit, AuditRow(op, n, before, after))
         /\ AuditRow(op, n, before, after).op = op
         /\ AuditRow(op, n, before, after).revision = n
         /\ AuditRow(op, n, before, after) \in Audited
<1> DEFINE a == AuditRow(op, n, before, after)
           q == WithAudit(op, n, before, after)
<1>1. /\ profile \in Profiles /\ profile.revs \in Seq(Revision) /\ profile.audit \in Seq(Audited)
      /\ profile.row \in Row
      /\ profile.row.latest = Len(profile.revs) /\ profile.row.active <= profile.row.latest
  BY DEF ProfileHolds, PointerHolds, Profiles
<1>2. after.revs \in Seq(Revision) /\ after.row \in Row
  BY DEF Profiles
<1>3. /\ profile.row.latest \in Nat /\ profile.row.active \in Nat /\ after.row.latest \in Nat
      /\ after.row.active \in Nat
  BY <1>1, <1>2 DEF Row
<1>4. StateDigestOf(profile, profile.row) \in Digest
  BY <1>1, <1>3, DigestParts
<1>5. /\ StateDigestOf(after, after.row) \in Digest
  BY <1>2, <1>3, DigestParts
<1>6. /\ a = [op |-> op, revision |-> n, prior |-> StateDigestOf(profile, profile.row),
              result |-> StateDigestOf(after, after.row),
              priorState |-> before, resultState |-> RevisionState(after.row, n)]
  BY DEF AuditRow
<1>7. a \in Audited /\ a.op = op /\ a.revision = n
      /\ a.prior = StateDigestOf(profile, profile.row) /\ a.result = StateDigestOf(after, after.row)
  BY <1>4, <1>5, <1>6, StateOfRevision DEF Audited
<1>8. q = [after EXCEPT !.audit = Append(after.audit, a)]
  BY DEF WithAudit
<1> HIDE DEF a, q
<1>9. Append(after.audit, a) \in Seq(Audited)
  BY <1>1, <1>7, AppendElement
<1>10. q \in Profiles /\ q.revs = after.revs /\ q.row = after.row /\ q.audit = Append(profile.audit, a)
  BY <1>8, <1>9 DEF Profiles
<1>11. /\ Len(profile.audit) \in Nat /\ Len(q.audit) = Len(profile.audit) + 1
       /\ \A m \in 1 .. Len(profile.audit) : q.audit[m] = profile.audit[m]
  BY <1>1, <1>7, <1>10, AppendElement
<1>12. Grew(profile, q)
  BY <1>10, <1>11 DEF Grew
<1>13. PointerHolds(q)
  BY <1>10, <1>11, <1>3 DEF PointerHolds
<1>14. StateDigestOf(q, q.row) = StateDigestOf(after, after.row)
  BY <1>10 DEF StateDigestOf
<1>15. Len(profile.audit) # 0 => a.prior = profile.audit[Len(profile.audit)].result
  BY <1>7 DEF ProfileHolds, PointerHolds, AuditHolds
<1>16. OperationHolds(a)
  BY DEF a
<1>17. AuditHolds(profile)
  BY DEF ProfileHolds
<1>18. AuditHolds(q)
  BY <1>1, <1>7, <1>10, <1>12, <1>14, <1>15, <1>16, <1>17, AuditGrows
<1> QED BY <1>7, <1>10, <1>12, <1>13, <1>18 DEF a, q

\* The parts of the stored profile.
LEMMA ProfileParts ==
  ASSUME ProfileHolds(profile)
  PROVE  /\ profile \in Profiles /\ profile.revs \in Seq(Revision) /\ profile.audit \in Seq(Audited)
         /\ Len(profile.revs) \in Nat /\ Len(profile.audit) \in Nat
         /\ DOMAIN profile.revs = 1 .. Len(profile.revs)
         /\ DOMAIN profile.audit = 1 .. Len(profile.audit)
         /\ profile.row \in Row /\ profile.row.latest = Len(profile.revs)
         /\ profile.row.active \in Nat /\ profile.row.generation \in Nat
         /\ profile.row.active <= profile.row.latest
         /\ DigestOfProfile \in Digest
         /\ DigestOfProfile.latest = profile.row.latest /\ DigestOfProfile.active = profile.row.active
         /\ DigestOfProfile.generation = profile.row.generation
<1>1. /\ profile \in Profiles /\ profile.revs \in Seq(Revision) /\ profile.audit \in Seq(Audited)
      /\ profile.row \in Row /\ profile.row.latest = Len(profile.revs)
      /\ profile.row.active <= profile.row.latest
  BY DEF ProfileHolds, PointerHolds, Profiles
<1>2. profile.row.active \in Nat /\ profile.row.generation \in Nat /\ profile.row.latest \in Nat
  BY <1>1 DEF Row
<1>3. /\ Len(profile.revs) \in Nat /\ Len(profile.audit) \in Nat
      /\ DOMAIN profile.revs = 1 .. Len(profile.revs)
      /\ DOMAIN profile.audit = 1 .. Len(profile.audit)
  BY <1>1
<1>4. LET d == StateDigestOf(profile, profile.row) IN
      /\ d \in Digest /\ d.latest = profile.row.latest /\ d.active = profile.row.active
      /\ d.generation = profile.row.generation
  BY <1>1, <1>2, <1>3, DigestParts
<1> QED BY <1>1, <1>2, <1>3, <1>4 DEF DigestOfProfile

\* An operation that is no activation leaves the activations.
LEMMA ActivationsAfter ==
  ASSUME NEW log \in Seq(Audited), NEW a \in Audited, NEW n
  PROVE  WasActivated(Append(log, a), n)
           <=> WasActivated(log, n) \/ (a.op = "activate" /\ a.revision = n)
<1> DEFINE k == Len(log)
           t == Append(log, a)
<1>1. /\ k \in Nat /\ DOMAIN log = 1 .. k /\ DOMAIN t = 1 .. (k + 1) /\ t[k + 1] = a
      /\ \A i \in 1 .. k : t[i] = log[i]
  BY AppendElement
<1> HIDE DEF k, t
<1>2. \A i \in 1 .. (k + 1) : i \in 1 .. k \/ i = k + 1
  BY <1>1
<1>3. k + 1 \in 1 .. (k + 1) /\ \A i \in 1 .. k : i \in 1 .. (k + 1)
  BY <1>1
<1>4. WasActivated(t, n) <=> WasActivated(log, n) \/ (a.op = "activate" /\ a.revision = n)
  BY <1>1, <1>2, <1>3 DEF WasActivated
<1> QED BY <1>4 DEF t

\* create_role_profile.
LEMMA CreatedHolds ==
  ASSUME ProfileHolds(profile), ~Exists, NEW d \in Definitions, WellFormed(d)
  PROVE  ProfileHolds(Created(d)) /\ Grew(profile, Created(d))
<1> DEFINE rev == [def |-> d, activated |-> FALSE]
           revs == <<rev>>
           row == [latest |-> 1, active |-> 0, generation |-> 0]
           after == [profile EXCEPT !.revs = revs, !.row = row]
           a == AuditRow("create", 1, "none", after)
           q == WithAudit("create", 1, "none", after)
<1>1. /\ rev \in Revision /\ rev.def = d /\ rev.activated = FALSE
      /\ row \in Row /\ row.latest = 1 /\ row.active = 0 /\ row.generation = 0
  BY DEF Revision, Row
<1> HIDE DEF rev, row
<1>2. revs \in Seq(Revision) /\ Len(revs) = 1 /\ revs[1] = rev /\ DOMAIN revs = 1 .. 1
  BY <1>1
<1> HIDE DEF revs
<1>3. /\ profile.row.latest = 0 /\ Len(profile.revs) = 0 /\ profile.row.active = 0
      /\ profile.row.generation = 0 /\ Len(profile.audit) = 0
  BY ProfileParts DEF Exists, ProfileHolds, PointerHolds
<1>4. /\ after \in Profiles /\ after.revs = revs /\ after.row = row
      /\ after.audit = profile.audit
  BY <1>1, <1>2, ProfileParts DEF Profiles
<1> HIDE DEF after
<1>5. StateDigestOf(profile, profile.row) = NoDigest
  BY <1>3 DEF StateDigestOf, NoDigest
<1>6. LET r == StateDigestOf(after, after.row) IN
      r.latest = 1 /\ r.active = 0 /\ r.generation = 0
  <2>1. /\ after.row \in Row /\ after.row.latest = 1 /\ after.row.active = 0
        /\ Len(after.revs) = 1
    BY <1>1, <1>2, <1>4
  <2>2. after.row.latest <= Len(after.revs) /\ after.row.active <= Len(after.revs)
    BY <2>1
  <2> QED BY <1>1, <1>4, <2>1, <2>2, DigestParts
<1>7. /\ a.op = "create" /\ a.revision = 1 /\ a.prior = NoDigest
      /\ a.result = StateDigestOf(after, after.row) /\ a.resultState = RevisionState(after.row, 1)
  BY <1>5 DEF AuditRow
<1>8. RevisionState(a.result, 1) = RevisionState(after.row, 1)
  BY <1>1, <1>4, <1>6, <1>7, SameRevisionState
<1>9. OperationHolds(a)
  BY <1>6, <1>7, <1>8 DEF OperationHolds
<1>10. /\ q \in Profiles /\ PointerHolds(q) /\ AuditHolds(q) /\ Grew(profile, q)
       /\ q.revs = revs /\ q.audit = Append(profile.audit, a) /\ a \in Audited
  <2>1. "create" \in Ops /\ "none" \in RevisionStates /\ 1 \in Nat
    BY DEF Ops, RevisionStates
  <2>2. /\ after.row.latest = Len(after.revs) /\ after.row.latest # 0
        /\ after.row.active <= after.row.latest /\ after.row.generation = Len(profile.audit)
        /\ Len(profile.revs) <= Len(after.revs)
        /\ \A m \in 1 .. Len(profile.revs) : after.revs[m].def = profile.revs[m].def
    BY <1>1, <1>2, <1>3, <1>4
  <2>3. /\ q \in Profiles /\ PointerHolds(q) /\ AuditHolds(q) /\ Grew(profile, q)
        /\ q.revs = after.revs /\ q.audit = Append(profile.audit, a) /\ a \in Audited
    BY <1>4, <1>9, <2>1, <2>2, ProfileChanges
  <2> QED BY <1>4, <2>3
<1> HIDE DEF a, q
<1>11. \A n : ~WasActivated(profile.audit, n)
  BY <1>3, ProfileParts DEF WasActivated
<1>12. ~WasActivated(q.audit, 1)
  BY <1>7, <1>10, <1>11, ProfileParts, ActivationsAfter
<1>13. \A n \in DOMAIN q.revs : n = 1
  BY <1>2, <1>10
<1>14. q.revs[1].def = d /\ q.revs[1].activated = FALSE
  BY <1>1, <1>2, <1>10
<1>15. RevisionsHold(q)
  BY <1>12, <1>13, <1>14 DEF RevisionsHold
<1>16. q = Created(d)
  BY DEF q, after, rev, revs, row, Created
<1> QED BY <1>10, <1>15, <1>16 DEF ProfileHolds

\* revise_role_profile.
LEMMA RevisedHolds ==
  ASSUME ProfileHolds(profile), Exists, NEW d \in Definitions, WellFormed(d), ~Duplicate(d),
         d.role = profile.revs[1].def.role
  PROVE  ProfileHolds(Revised(d)) /\ Grew(profile, Revised(d))
<1> DEFINE k == profile.row.latest
           rev == [def |-> d, activated |-> FALSE]
           revs == Append(profile.revs, rev)
           row == [profile.row EXCEPT !.latest = k + 1, !.generation = @ + 1]
           before == RevisionState(profile.row, profile.row.latest)
           after == [profile EXCEPT !.revs = Append(@, rev), !.row.latest = k + 1,
                                    !.row.generation = @ + 1]
           a == AuditRow("revise", k + 1, before, after)
           q == WithAudit("revise", k + 1, before, after)
<1>1. k \in Nat /\ k # 0 /\ k = Len(profile.revs)
  BY ProfileParts DEF Exists
<1>2. /\ rev \in Revision /\ rev.def = d /\ rev.activated = FALSE
      /\ row \in Row /\ row.latest = k + 1 /\ row.active = profile.row.active
      /\ row.generation = profile.row.generation + 1
  <2>1. rev \in Revision /\ rev.def = d /\ rev.activated = FALSE
    BY DEF Revision
  <2>2. /\ row \in Row /\ row.latest = k + 1 /\ row.active = profile.row.active
        /\ row.generation = profile.row.generation + 1
    <3>1. profile.row \in Row /\ k + 1 \in Nat /\ profile.row.generation + 1 \in Nat
      BY <1>1, ProfileParts
    <3> HIDE DEF k
    <3> QED BY <3>1 DEF Row
  <2> QED BY <2>1, <2>2
<1>3. before \in RevisionStates
  BY StateOfRevision
<1> HIDE DEF rev, row, before
<1>4. /\ revs \in Seq(Revision) /\ Len(revs) = k + 1 /\ DOMAIN revs = 1 .. (k + 1)
      /\ revs[k + 1] = rev /\ \A i \in 1 .. k : revs[i] = profile.revs[i]
  BY <1>1, <1>2, ProfileParts, AppendElement
<1> HIDE DEF k, revs
<1>5. row.generation = Len(profile.audit)
  BY <1>1, <1>2, ProfileParts DEF ProfileHolds, PointerHolds, k
<1>6. /\ after \in Profiles /\ after.revs = revs /\ after.row = row
      /\ after.audit = profile.audit
  BY <1>2, <1>4, ProfileParts DEF Profiles, Row, revs, row
<1> HIDE DEF after
<1>7. LET p == StateDigestOf(profile, profile.row) IN
      p.latest = k /\ p.active = profile.row.active /\ p.generation = profile.row.generation
  BY ProfileParts DEF DigestOfProfile, k
<1>8. profile.row.active <= k + 1 /\ profile.row.active \in Nat
  BY <1>1, ProfileParts DEF k
<1>9. LET r == StateDigestOf(after, after.row) IN
      r.latest = k + 1 /\ r.active = profile.row.active /\ r.generation = profile.row.generation + 1
  BY <1>1, <1>2, <1>4, <1>6, <1>8, DigestParts
<1>10. /\ a.op = "revise" /\ a.revision = k + 1 /\ a.prior = StateDigestOf(profile, profile.row)
       /\ a.result = StateDigestOf(after, after.row) /\ a.resultState = RevisionState(after.row, k + 1)
  BY DEF AuditRow
<1>11. RevisionState(a.result, k + 1) = RevisionState(after.row, k + 1)
  BY <1>2, <1>6, <1>9, <1>10, SameRevisionState
<1>12. OperationHolds(a)
  BY <1>7, <1>9, <1>10, <1>11 DEF OperationHolds
<1>13. /\ q \in Profiles /\ PointerHolds(q) /\ AuditHolds(q) /\ Grew(profile, q)
       /\ q.revs = revs /\ q.audit = Append(profile.audit, a) /\ a \in Audited
  <2>1. "revise" \in Ops
    BY DEF Ops
  <2>2. /\ k + 1 \in Nat /\ after.row.latest = Len(after.revs) /\ after.row.latest # 0
        /\ after.row.active <= after.row.latest /\ after.row.generation = Len(profile.audit)
    BY <1>1, <1>2, <1>4, <1>5, <1>6, <1>8
  <2>3. /\ Len(profile.revs) <= Len(after.revs)
        /\ \A m \in 1 .. Len(profile.revs) : after.revs[m].def = profile.revs[m].def
    BY <1>1, <1>4, <1>6
  <2> QED BY <1>3, <1>6, <1>12, <2>1, <2>2, <2>3, ProfileChanges
<1> HIDE DEF a, q
<1>14. \A n : WasActivated(q.audit, n) <=> WasActivated(profile.audit, n)
  BY <1>10, <1>13, ProfileParts, ActivationsAfter
<1>15. ~WasActivated(profile.audit, k + 1)
  <2> SUFFICES ASSUME NEW m \in DOMAIN profile.audit, profile.audit[m].op = "activate",
                      profile.audit[m].revision = k + 1
               PROVE  FALSE
    BY DEF WasActivated
  <2>1. /\ OperationHolds(profile.audit[m]) /\ profile.audit[m].result.latest \in 1 .. k
        /\ profile.audit[m].result.active <= profile.audit[m].result.latest
    BY <1>1, ProfileParts DEF ProfileHolds, AuditHolds
  <2>2. profile.audit[m].result.active = k + 1
    BY <2>1 DEF OperationHolds
  <2> QED BY <1>1, <2>1, <2>2
<1>16. DOMAIN profile.revs = 1 .. k /\ DOMAIN q.revs = 1 .. (k + 1)
  BY <1>1, <1>4, <1>13, ProfileParts
<1>17. \A i \in 1 .. k : ~(profile.revs[i].def = d)
  BY <1>16 DEF Duplicate, Revisions
<1>18. RevisionsHold(q)
  <2>1. /\ \A n \in 1 .. k : q.revs[n] = profile.revs[n]
        /\ q.revs[k + 1] = rev /\ 1 \in 1 .. k
        /\ \A n \in 1 .. (k + 1) : n \in 1 .. k \/ n = k + 1
    BY <1>1, <1>4, <1>13
  <2>2. /\ \A n \in 1 .. k : WellFormed(profile.revs[n].def)
                             /\ profile.revs[n].def.role = profile.revs[1].def.role
        /\ \A n, m \in 1 .. k : profile.revs[m].def = profile.revs[n].def => m = n
        /\ \A n \in 1 .. k : profile.revs[n].activated = TRUE <=> WasActivated(profile.audit, n)
    BY <1>16 DEF ProfileHolds, RevisionsHold
  <2>3. \A n \in 1 .. (k + 1) : WellFormed(q.revs[n].def) /\ q.revs[n].def.role = q.revs[1].def.role
    BY <1>2, <2>1, <2>2
  <2>4. \A n, m \in 1 .. (k + 1) : q.revs[m].def = q.revs[n].def => m = n
    BY <1>2, <1>17, <2>1, <2>2
  <2>5. \A n \in 1 .. (k + 1) : q.revs[n].activated = TRUE <=> WasActivated(q.audit, n)
    BY <1>2, <1>14, <1>15, <2>1, <2>2
  <2> QED BY <1>16, <2>3, <2>4, <2>5 DEF RevisionsHold
<1>19. q = Revised(d)
  BY DEF q, after, a, before, rev, revs, row, k, Revised
<1> QED BY <1>13, <1>18, <1>19 DEF ProfileHolds

\* activate_role_profile_checked, of a revision that is not active.
LEMMA ActivatedHolds ==
  ASSUME ProfileHolds(profile), NEW n \in DOMAIN profile.revs, profile.row.active # n
  PROVE  ProfileHolds(Activated(n)) /\ Grew(profile, Activated(n))
<1> DEFINE k == profile.row.latest
           revs == [profile.revs EXCEPT ![n].activated = TRUE]
           row == [profile.row EXCEPT !.active = n, !.generation = @ + 1]
           before == RevisionState(profile.row, n)
           after == [profile EXCEPT !.revs[n].activated = TRUE, !.row.active = n,
                                    !.row.generation = @ + 1]
           a == AuditRow("activate", n, before, after)
           q == WithAudit("activate", n, before, after)
<1>1. k \in Nat /\ k # 0 /\ k = Len(profile.revs) /\ n \in 1 .. k /\ n \in Nat /\ n <= k
  BY ProfileParts
<1>2. /\ row \in Row /\ row.latest = k /\ row.active = n
      /\ row.generation = profile.row.generation + 1
  <2>1. profile.row \in Row /\ n \in Nat /\ profile.row.generation + 1 \in Nat
    BY <1>1, ProfileParts
  <2> QED BY <2>1 DEF Row
<1>3. before \in RevisionStates
  BY StateOfRevision
<1>4. /\ revs \in Seq(Revision) /\ Len(revs) = k /\ DOMAIN revs = 1 .. k
      /\ \A i \in 1 .. k : revs[i].def = profile.revs[i].def
      /\ \A i \in 1 .. k : i # n => revs[i] = profile.revs[i]
  <2>1. /\ profile.revs \in Seq(Revision) /\ DOMAIN profile.revs = 1 .. k /\ Len(profile.revs) = k
        /\ profile.revs[n] \in Revision
    BY <1>1, ProfileParts
  <2> DEFINE r == [profile.revs[n] EXCEPT !.activated = TRUE]
  <2>2. r \in Revision /\ r.def = profile.revs[n].def
    BY <2>1 DEF Revision
  <2>3. revs = [profile.revs EXCEPT ![n] = r]
    OBVIOUS
  <2> HIDE DEF r, revs
  <2>4. /\ revs \in Seq(Revision) /\ Len(revs) = k /\ DOMAIN revs = 1 .. k /\ revs[n] = r
        /\ \A i \in 1 .. k : i # n => revs[i] = profile.revs[i]
    BY <1>1, <2>1, <2>2, <2>3
  <2> QED BY <2>2, <2>4
<1>5. revs[n].activated = TRUE
  <2>1. /\ profile.revs \in Seq(Revision) /\ DOMAIN profile.revs = 1 .. k
        /\ profile.revs[n] \in Revision
    BY <1>1, ProfileParts
  <2> QED BY <1>1, <2>1 DEF Revision
<1>6. row.generation = Len(profile.audit)
  BY <1>1, <1>2, ProfileParts DEF ProfileHolds, PointerHolds
<1>7. /\ after \in Profiles /\ after.revs = revs /\ after.row = row
      /\ after.audit = profile.audit
  <2>1. profile \in Profiles /\ revs \in Seq(Revision) /\ row \in Row
    BY <1>2, <1>4, ProfileParts
  <2>2. after = [profile EXCEPT !.revs = revs, !.row = row]
    BY <2>1 DEF Profiles, Row
  <2> HIDE DEF after, revs, row
  <2> QED BY <2>1, <2>2 DEF Profiles
<1> HIDE DEF after, revs, row, k, before
<1>8. LET p == StateDigestOf(profile, profile.row) IN
      p.latest = k /\ p.active = profile.row.active /\ p.generation = profile.row.generation
  BY ProfileParts DEF DigestOfProfile, k
<1>9. LET r == StateDigestOf(after, after.row) IN
      r.latest = k /\ r.active = n /\ r.generation = profile.row.generation + 1
  <2>1. /\ after.row \in Row /\ after.row.latest = k /\ after.row.active = n
        /\ Len(after.revs) = k
    BY <1>2, <1>4, <1>7
  <2>2. after.row.latest <= Len(after.revs) /\ after.row.active <= Len(after.revs)
    BY <1>1, <2>1
  <2> QED BY <1>2, <1>7, <2>1, <2>2, DigestParts
<1>10. /\ a.op = "activate" /\ a.revision = n /\ a.prior = StateDigestOf(profile, profile.row)
       /\ a.result = StateDigestOf(after, after.row) /\ a.resultState = RevisionState(after.row, n)
  BY DEF AuditRow
<1>11. RevisionState(a.result, n) = RevisionState(after.row, n)
  BY <1>2, <1>7, <1>9, <1>10, SameRevisionState
<1>12. OperationHolds(a)
  BY <1>8, <1>9, <1>10, <1>11 DEF OperationHolds
<1>13. /\ q \in Profiles /\ PointerHolds(q) /\ AuditHolds(q) /\ Grew(profile, q)
       /\ q.revs = revs /\ q.audit = Append(profile.audit, a) /\ a \in Audited
  <2>1. "activate" \in Ops
    BY DEF Ops
  <2>2. /\ after.row.latest = Len(after.revs) /\ after.row.latest # 0
        /\ after.row.active <= after.row.latest /\ after.row.generation = Len(profile.audit)
    BY <1>1, <1>2, <1>4, <1>6, <1>7
  <2>3. /\ Len(profile.revs) <= Len(after.revs)
        /\ \A m \in 1 .. Len(profile.revs) : after.revs[m].def = profile.revs[m].def
    BY <1>1, <1>4, <1>7
  <2> QED BY <1>1, <1>3, <1>7, <1>12, <2>1, <2>2, <2>3, ProfileChanges
<1> HIDE DEF a, q
<1>14. \A m : WasActivated(q.audit, m) <=> WasActivated(profile.audit, m) \/ m = n
  BY <1>10, <1>13, ProfileParts, ActivationsAfter
<1>15. RevisionsHold(q)
  <2>1. DOMAIN profile.revs = 1 .. k /\ DOMAIN q.revs = 1 .. k /\ 1 \in 1 .. k
    BY <1>1, <1>4, <1>13, ProfileParts
  <2>2. /\ \A m \in 1 .. k : WellFormed(profile.revs[m].def)
                             /\ profile.revs[m].def.role = profile.revs[1].def.role
        /\ \A l, m \in 1 .. k : profile.revs[m].def = profile.revs[l].def => m = l
        /\ \A m \in 1 .. k : profile.revs[m].activated = TRUE <=> WasActivated(profile.audit, m)
    BY <2>1 DEF ProfileHolds, RevisionsHold
  <2>3. \A m \in 1 .. k : WellFormed(q.revs[m].def) /\ q.revs[m].def.role = q.revs[1].def.role
    BY <1>4, <1>13, <2>1, <2>2
  <2>4. \A l, m \in 1 .. k : q.revs[m].def = q.revs[l].def => m = l
    BY <1>4, <1>13, <2>2
  <2>5. \A m \in 1 .. k : q.revs[m].activated = TRUE <=> WasActivated(q.audit, m)
    BY <1>4, <1>5, <1>13, <1>14, <2>2
  <2> QED BY <2>1, <2>3, <2>4, <2>5 DEF RevisionsHold
<1>16. q = Activated(n)
  BY DEF q, after, before, Activated
<1> QED BY <1>13, <1>15, <1>16 DEF ProfileHolds

\* deactivate_role_profile_checked.
LEMMA DeactivatedHolds ==
  ASSUME ProfileHolds(profile), profile.row.active # 0
  PROVE  ProfileHolds(Deactivated) /\ Grew(profile, Deactivated)
<1> DEFINE k == profile.row.latest
           n == profile.row.active
           row == [profile.row EXCEPT !.active = 0, !.generation = @ + 1]
           after == [profile EXCEPT !.row.active = 0, !.row.generation = @ + 1]
           a == AuditRow("deactivate", n, "active", after)
           q == WithAudit("deactivate", n, "active", after)
<1>1. k \in Nat /\ k # 0 /\ k = Len(profile.revs) /\ n \in Nat /\ DOMAIN profile.revs = 1 .. k
  BY ProfileParts
<1>2. /\ row \in Row /\ row.latest = k /\ row.active = 0
      /\ row.generation = profile.row.generation + 1
  <2>1. profile.row \in Row /\ profile.row.generation + 1 \in Nat
    BY ProfileParts
  <2> QED BY <2>1 DEF Row
<1>3. row.generation = Len(profile.audit)
  BY <1>1, <1>2, ProfileParts DEF ProfileHolds, PointerHolds
<1>4. /\ after \in Profiles /\ after.revs = profile.revs /\ after.row = row
      /\ after.audit = profile.audit
  <2>1. profile \in Profiles /\ row \in Row
    BY <1>2, ProfileParts
  <2>2. after = [profile EXCEPT !.row = row]
    BY <2>1 DEF Profiles, Row
  <2> HIDE DEF after, row
  <2> QED BY <2>1, <2>2 DEF Profiles
<1> HIDE DEF after, row, k, n
<1>5. LET p == StateDigestOf(profile, profile.row) IN
      p.latest = k /\ p.active = n /\ p.generation = profile.row.generation
  BY ProfileParts DEF DigestOfProfile, k, n
<1>6. LET r == StateDigestOf(after, after.row) IN
      r.latest = k /\ r.active = 0 /\ r.generation = profile.row.generation + 1
  <2>1. /\ after.row \in Row /\ after.row.latest = k /\ after.row.active = 0
        /\ Len(after.revs) = k
    BY <1>1, <1>2, <1>4
  <2>2. after.row.latest <= Len(after.revs) /\ after.row.active <= Len(after.revs)
    BY <1>1, <2>1
  <2> QED BY <1>2, <1>4, <2>1, <2>2, DigestParts
<1>7. /\ a.op = "deactivate" /\ a.revision = n /\ a.prior = StateDigestOf(profile, profile.row)
      /\ a.result = StateDigestOf(after, after.row) /\ a.resultState = RevisionState(after.row, n)
  BY DEF AuditRow
<1>8. RevisionState(a.result, n) = RevisionState(after.row, n)
  BY <1>2, <1>4, <1>6, <1>7, SameRevisionState
<1>9. OperationHolds(a)
  BY <1>5, <1>6, <1>7, <1>8 DEF OperationHolds
<1>10. /\ q \in Profiles /\ PointerHolds(q) /\ AuditHolds(q) /\ Grew(profile, q)
       /\ q.revs = profile.revs /\ q.audit = Append(profile.audit, a) /\ a \in Audited
  <2>1. "deactivate" \in Ops /\ "active" \in RevisionStates
    BY DEF Ops, RevisionStates
  <2>2. /\ after.row.latest = Len(after.revs) /\ after.row.latest # 0
        /\ after.row.active <= after.row.latest /\ after.row.generation = Len(profile.audit)
    BY <1>1, <1>2, <1>3, <1>4
  <2>3. /\ Len(profile.revs) <= Len(after.revs)
        /\ \A m \in 1 .. Len(profile.revs) : after.revs[m].def = profile.revs[m].def
    BY <1>1, <1>4
  <2> QED BY <1>1, <1>4, <1>9, <2>1, <2>2, <2>3, ProfileChanges
<1> HIDE DEF a, q
<1>11. \A m : WasActivated(q.audit, m) <=> WasActivated(profile.audit, m)
  BY <1>7, <1>10, ProfileParts, ActivationsAfter
<1>12. RevisionsHold(q)
  <2>1. RevisionsHold(profile)
    BY DEF ProfileHolds
  <2> QED BY <1>10, <1>11, <2>1 DEF RevisionsHold
<1>13. q = Deactivated
  BY DEF q, after, n, Deactivated
<1> QED BY <1>10, <1>12, <1>13 DEF ProfileHolds

\* A digest that is still the current one was read after the last change.
LEMMA SeenIsNow ==
  ASSUME ProfileHolds(profile), NEW d, NEW n \in Nat, DigestAt(profile, d, n), d = DigestOfProfile
  PROVE  Len(profile.audit) = n
<1>1. CASE n = 0
  <2>1. d.latest = 0
    BY <1>1 DEF DigestAt, NoDigest
  <2> QED BY <1>1, <2>1, ProfileParts DEF ProfileHolds, PointerHolds
<1>2. CASE n # 0
  <2>1. n \in DOMAIN profile.audit /\ d = profile.audit[n].result
    BY <1>2, ProfileParts DEF DigestAt
  <2>2. d.generation = n - 1 /\ d.latest \in 1 .. Len(profile.revs)
    BY <2>1, ProfileParts DEF ProfileHolds, AuditHolds
  <2>3. profile.row.latest # 0 /\ profile.row.generation = n - 1
    BY <2>2, ProfileParts
  <2> QED BY <2>3, ProfileParts DEF ProfileHolds, PointerHolds
<1> QED BY <1>1, <1>2

\* The current digest is the one after the last change.
LEMMA NowIsLast ==
  ASSUME ProfileHolds(profile)
  PROVE  DigestAt(profile, DigestOfProfile, Len(profile.audit))
<1>1. CASE profile.row.latest = 0
  <2>1. /\ profile.row.active = 0 /\ profile.row.generation = 0 /\ Len(profile.audit) = 0
    BY <1>1, ProfileParts DEF ProfileHolds, PointerHolds
  <2> QED BY <1>1, <2>1 DEF DigestAt, DigestOfProfile, StateDigestOf, NoDigest
<1>2. CASE profile.row.latest # 0
  <2>1. Len(profile.audit) # 0 /\ Len(profile.audit) \in Nat
    BY <1>2, ProfileParts DEF ProfileHolds, PointerHolds
  <2>2. profile.audit[Len(profile.audit)].result = DigestOfProfile
    BY <1>2 DEF ProfileHolds, AuditHolds, DigestOfProfile
  <2> QED BY <2>1, <2>2 DEF DigestAt
<1> QED BY <1>1, <1>2

\* An editor moves, and the profile may grow.
LEMMA EditorMoves ==
  ASSUME ProfileInv, NEW e \in Editors, NEW x, Set(e, x), UNCHANGED reader,
         ProfileHolds(profile'), Grew(profile, profile'), EditorHolds(profile', x)
  PROVE  ProfileInv'
<1>1. /\ ProfileHolds(profile) /\ profile \in Profiles /\ profile' \in Profiles
      /\ DOMAIN editor = Editors
  BY DEF ProfileInv, ProfileHolds
<1>2. /\ DOMAIN editor' = Editors /\ editor'[e] = x
      /\ \A o \in Editors : o # e => editor'[o] = editor[o]
  BY <1>1 DEF Set
<1>3. \A o \in Editors : EditorHolds(profile', editor'[o])
  BY <1>1, <1>2, EditorLater DEF ProfileInv
<1>4. ReaderHolds(profile', reader')
  BY <1>1, ReaderLater DEF ProfileInv
<1> QED BY <1>2, <1>3, <1>4 DEF ProfileInv

\* A profile has grown by nothing.
LEMMA GrewNothing ==
  ASSUME ProfileInv
  PROVE  Grew(profile, profile) /\ ProfileHolds(profile)
<1>1. ProfileHolds(profile)
  BY DEF ProfileInv
<1> QED BY <1>1, ProfileParts DEF Grew

\* An editor that waits or has its answer holds a digest and nothing else.
LEMMA EditorRests ==
  ASSUME NEW p, NEW x, EditorHolds(p, x), NEW y, EditorFields \subseteq DOMAIN y,
         y.seen = x.seen, y.seenAt = x.seenAt, y.pc \notin {"check", "commit"}
  PROVE  EditorHolds(p, y)
BY DEF EditorHolds

LEMMA ProfileFetches ==
  ASSUME ProfileInv, NEW e \in Editors, Fetch(e) \/ Respond(e)
  PROVE  ProfileInv'
<1>1. /\ profile' = profile /\ reader' = reader /\ EditorHolds(profile, editor[e])
      /\ EditorFields \subseteq DOMAIN editor[e] /\ ProfileHolds(profile)
  BY DEF Fetch, Respond, ProfileInv, EditorHolds
<1>2. DigestAt(profile, DigestOfProfile, Len(profile.audit)) /\ Len(profile.audit) \in Nat
  BY <1>1, NowIsLast, ProfileParts
<1>3. PICK x : /\ Set(e, x) /\ EditorFields \subseteq DOMAIN x /\ x.pc = "idle"
               /\ x.seen = DigestOfProfile /\ x.seenAt = Len(profile.audit)
  <2>1. CASE Fetch(e)
    <3> DEFINE x == [editor[e] EXCEPT !.seen = DigestOfProfile, !.seenAt = Len(profile.audit),
                                      !.answer = "none"]
    <3>1. Set(e, x) /\ editor[e].pc = "idle"
      BY <2>1 DEF Fetch
    <3>2. /\ EditorFields \subseteq DOMAIN x /\ x.pc = "idle" /\ x.seen = DigestOfProfile
          /\ x.seenAt = Len(profile.audit)
      BY <1>1, <3>1 DEF EditorFields
    <3> HIDE DEF x
    <3> QED BY <3>1, <3>2
  <2>2. CASE Respond(e)
    <3> DEFINE x == [editor[e] EXCEPT !.pc = "idle", !.answer = "ok", !.request = <<>>,
                                      !.expected = NoDigest, !.existed = FALSE,
                                      !.seen = DigestOfProfile, !.seenAt = Len(profile.audit)]
    <3>1. Set(e, x)
      BY <2>2 DEF Respond
    <3>2. /\ EditorFields \subseteq DOMAIN x /\ x.pc = "idle" /\ x.seen = DigestOfProfile
          /\ x.seenAt = Len(profile.audit)
      BY <1>1 DEF EditorFields
    <3> HIDE DEF x
    <3> QED BY <3>1, <3>2
  <2> QED BY <2>1, <2>2
<1>4. EditorHolds(profile, x)
  BY <1>2, <1>3 DEF EditorHolds
<1> QED BY <1>1, <1>3, <1>4, GrewNothing, EditorMoves

LEMMA ProfileSubmits ==
  ASSUME ProfileInv, NEW e \in Editors, NEW request \in Requests, Submit(e, request)
  PROVE  ProfileInv'
<1> DEFINE x == [editor[e] EXCEPT !.pc = "check", !.request = request, !.answer = "none"]
<1>1. /\ profile' = profile /\ reader' = reader /\ EditorHolds(profile, editor[e]) /\ Set(e, x)
      /\ EditorFields \subseteq DOMAIN editor[e] /\ ProfileHolds(profile) /\ editor[e].seenAt # -1
  BY DEF Submit, ProfileInv, EditorHolds
<1>2. /\ EditorFields \subseteq DOMAIN x /\ x.pc = "check" /\ x.request = request
      /\ x.seen = editor[e].seen /\ x.seenAt = editor[e].seenAt
  BY <1>1 DEF EditorFields
<1>3. /\ request[1] = "save" => request[2] \in Inputs
      /\ request[1] = "activate" => request[2] \in DOMAIN profile.revs
  BY DEF Requests, Revisions
<1> HIDE DEF x
<1>4. EditorHolds(profile, x)
  BY <1>1, <1>2, <1>3 DEF EditorHolds
<1> QED BY <1>1, <1>4, GrewNothing, EditorMoves

\* An editor that gets an answer.
LEMMA ProfileAnswers ==
  ASSUME ProfileInv, NEW e \in Editors, NEW status, Answer(e, status), UNCHANGED <<profile, reader>>
  PROVE  ProfileInv'
<1> DEFINE x == [editor[e] EXCEPT !.pc = "idle", !.answer = status,
                                  !.request = <<>>, !.expected = NoDigest, !.existed = FALSE]
<1>1. /\ EditorHolds(profile, editor[e]) /\ Set(e, x) /\ EditorFields \subseteq DOMAIN editor[e]
  BY DEF Answer, ProfileInv, EditorHolds
<1>2. /\ EditorFields \subseteq DOMAIN x /\ x.pc = "idle"
      /\ x.seen = editor[e].seen /\ x.seenAt = editor[e].seenAt
  BY <1>1 DEF EditorFields
<1> HIDE DEF x
<1>3. EditorHolds(profile, x)
  BY <1>1, <1>2, EditorRests
<1> QED BY <1>1, <1>3, GrewNothing, EditorMoves

\* save_draft up to the store call.
LEMMA ProfileChecksSave ==
  ASSUME ProfileInv, NEW e \in Editors, CheckSave(e)
  PROVE  ProfileInv'
<1> DEFINE i == editor[e].request[2]
           x == [editor[e] EXCEPT !.pc = "commit", !.expected = DigestOfProfile, !.existed = Exists]
<1>1. /\ profile' = profile /\ reader' = reader /\ EditorHolds(profile, editor[e])
      /\ EditorFields \subseteq DOMAIN editor[e] /\ ProfileHolds(profile)
      /\ editor[e].pc = "check" /\ editor[e].request[1] = "save"
  BY DEF CheckSave, ProfileInv, EditorHolds
<1>2. CASE Acceptable(i) /\ IfMatch(e)
  <2>1. Set(e, x)
    BY <1>2 DEF CheckSave
  <2>2. /\ EditorFields \subseteq DOMAIN x /\ x.pc = "commit" /\ x.request = editor[e].request
        /\ x.seen = editor[e].seen /\ x.seenAt = editor[e].seenAt /\ x.expected = DigestOfProfile
    BY <1>1 DEF EditorFields
  <2>3. x.existed = Exists
    BY <1>1 DEF EditorFields
  <2>4. x.existed = TRUE <=> DigestOfProfile.latest # 0
    BY <1>1, <2>3, ProfileParts DEF Exists
  <2> HIDE DEF x
  <2>5. WellFormed(Canonical(i)) /\ editor[e].seen = DigestOfProfile
    BY <1>2 DEF Acceptable, IfMatch
  <2>6. EditorHolds(profile, x)
    BY <1>1, <2>2, <2>4, <2>5 DEF EditorHolds
  <2> QED BY <1>1, <2>1, <2>6, GrewNothing, EditorMoves
<1>3. CASE ~(Acceptable(i) /\ IfMatch(e))
  <2>1. Answer(e, IF Acceptable(i) THEN "precondition_failed" ELSE "unprocessable")
    BY <1>3 DEF CheckSave
  <2> QED BY <1>1, <2>1, ProfileAnswers
<1> QED BY <1>2, <1>3

\* activate and deactivate up to the store call.
LEMMA ProfileChecksPointer ==
  ASSUME ProfileInv, NEW e \in Editors, CheckPointer(e)
  PROVE  ProfileInv'
<1> DEFINE r == editor[e].request
           possible == \/ r[1] = "activate" /\ r[2] \in Revisions
                       \/ r[1] = "deactivate" /\ profile.row.active # 0
           x == [editor[e] EXCEPT !.pc = "commit", !.expected = DigestOfProfile]
<1>1. /\ profile' = profile /\ reader' = reader /\ EditorHolds(profile, editor[e])
      /\ EditorFields \subseteq DOMAIN editor[e] /\ ProfileHolds(profile)
      /\ editor[e].pc = "check" /\ r[1] \in {"activate", "deactivate"}
  BY DEF CheckPointer, ProfileInv, EditorHolds
<1>2. CASE Exists /\ IfMatch(e) /\ possible
  <2>1. Set(e, x)
    BY <1>2 DEF CheckPointer
  <2>2. /\ EditorFields \subseteq DOMAIN x /\ x.pc = "commit" /\ x.request = r
        /\ x.seen = editor[e].seen /\ x.seenAt = editor[e].seenAt /\ x.expected = DigestOfProfile
    BY <1>1 DEF EditorFields
  <2> HIDE DEF x
  <2>3. /\ editor[e].seen = DigestOfProfile /\ DigestOfProfile.latest # 0
        /\ r[1] = "deactivate" => DigestOfProfile.active # 0
    BY <1>1, <1>2, ProfileParts DEF IfMatch, Exists
  <2>4. EditorHolds(profile, x)
    BY <1>1, <2>2, <2>3 DEF EditorHolds
  <2> QED BY <1>1, <2>1, <2>4, GrewNothing, EditorMoves
<1>3. CASE ~(Exists /\ IfMatch(e) /\ possible)
  <2>1. \E status : Answer(e, status)
    BY <1>3 DEF CheckPointer
  <2> QED BY <1>1, <2>1, ProfileAnswers
<1> QED BY <1>2, <1>3

\* An editor whose change was stored or refused.
LEMMA ProfileCommits ==
  ASSUME ProfileInv, NEW e \in Editors, NEW pc, pc \notin {"check", "commit"},
         Set(e, [editor[e] EXCEPT !.pc = pc]), UNCHANGED reader,
         ProfileHolds(profile'), Grew(profile, profile')
  PROVE  ProfileInv'
<1> DEFINE x == [editor[e] EXCEPT !.pc = pc]
<1>1. EditorHolds(profile, editor[e]) /\ EditorFields \subseteq DOMAIN editor[e] /\ Set(e, x)
  BY DEF ProfileInv, EditorHolds
<1>2. /\ EditorFields \subseteq DOMAIN x /\ x.pc = pc
      /\ x.seen = editor[e].seen /\ x.seenAt = editor[e].seenAt
  BY <1>1 DEF EditorFields
<1> HIDE DEF x
<1>3. EditorHolds(profile, x)
  BY <1>1, <1>2, EditorRests
<1>4. profile \in Profiles /\ profile' \in Profiles
  BY DEF ProfileInv, ProfileHolds
<1>5. EditorHolds(profile', x)
  BY <1>3, <1>4, EditorLater
<1> QED BY <1>1, <1>5, EditorMoves

\* create_role_profile or revise_role_profile: a change is stored only when the
\* profile is still the one that was seen.
LEMMA ProfileSaves ==
  ASSUME ProfileInv, NEW e \in Editors, CommitSave(e)
  PROVE  /\ ProfileInv'
         /\ editor'[e].pc = "respond" => Len(profile.audit) = editor[e].seenAt
<1> DEFINE d == Canonical(editor[e].request[2])
           existed == editor[e].existed = TRUE
           wrongRole == existed /\ Unmoved(e) /\ d.role # profile.revs[1].def.role
           kept == IF existed THEN Unmoved(e) /\ ~Duplicate(d) ELSE ~Exists
<1>1. /\ reader' = reader /\ EditorHolds(profile, editor[e]) /\ ProfileHolds(profile)
      /\ editor[e].pc = "commit" /\ editor[e].request[1] = "save"
      /\ DOMAIN editor = Editors /\ EditorFields \subseteq DOMAIN editor[e]
  BY DEF CommitSave, ProfileInv, EditorHolds
<1>2. /\ editor[e].request[2] \in Inputs /\ WellFormed(d) /\ d \in Definitions
      /\ editor[e].expected = editor[e].seen /\ editor[e].seenAt \in Nat
      /\ DigestAt(profile, editor[e].seen, editor[e].seenAt)
      /\ existed <=> editor[e].seen.latest # 0
  BY <1>1 DEF EditorHolds, Definitions
<1>3. \/ /\ ~wrongRole /\ kept
         /\ profile' = IF existed THEN Revised(d) ELSE Created(d)
         /\ Set(e, [editor[e] EXCEPT !.pc = "respond"])
      \/ (\E status : Answer(e, status)) /\ UNCHANGED profile
      \/ Set(e, [editor[e] EXCEPT !.pc = "refused"]) /\ UNCHANGED profile
  BY DEF CommitSave
<1> HIDE DEF d, existed
<1>4. CASE /\ ~wrongRole /\ kept
           /\ profile' = IF existed THEN Revised(d) ELSE Created(d)
           /\ Set(e, [editor[e] EXCEPT !.pc = "respond"])
  <2>1. CASE existed
    <3>1. editor[e].seen = DigestOfProfile /\ ~Duplicate(d) /\ d.role = profile.revs[1].def.role
      BY <1>2, <1>4, <2>1 DEF Unmoved
    <3>2. Exists
      BY <1>1, <1>2, <2>1, <3>1, ProfileParts DEF Exists
    <3>3. ProfileHolds(profile') /\ Grew(profile, profile')
      BY <1>1, <1>2, <1>4, <2>1, <3>1, <3>2, RevisedHolds
    <3>4. Len(profile.audit) = editor[e].seenAt
      BY <1>1, <1>2, <3>1, SeenIsNow
    <3> QED BY <1>1, <1>4, <3>3, <3>4, ProfileCommits
  <2>2. CASE ~existed
    <3>1. ~Exists /\ profile' = Created(d)
      BY <1>4, <2>2
    <3>2. ProfileHolds(profile') /\ Grew(profile, profile')
      BY <1>1, <1>2, <3>1, CreatedHolds
    <3>3. Len(profile.audit) = 0 /\ profile.row.latest = 0
      BY <1>1, <3>1, ProfileParts DEF Exists, ProfileHolds, PointerHolds
    <3>4. editor[e].seenAt = 0
      BY <1>1, <1>2, <3>3, ProfileParts DEF DigestAt
    <3> QED BY <1>1, <1>4, <3>2, <3>3, <3>4, ProfileCommits
  <2> QED BY <2>1, <2>2
<1>5. CASE (\E status : Answer(e, status)) /\ UNCHANGED profile
  <2>1. editor'[e].pc = "idle"
    BY <1>1, <1>5 DEF Answer, Set, EditorFields
  <2> QED BY <1>1, <1>5, <2>1, ProfileAnswers
<1>6. CASE Set(e, [editor[e] EXCEPT !.pc = "refused"]) /\ UNCHANGED profile
  <2>1. editor'[e].pc = "refused"
    BY <1>1, <1>6 DEF Set, EditorFields
  <2>2. ProfileHolds(profile') /\ Grew(profile, profile')
    BY <1>6, GrewNothing
  <2> QED BY <1>1, <1>6, <2>1, <2>2, ProfileCommits
<1> QED BY <1>3, <1>4, <1>5, <1>6

\* activate_role_profile_checked and deactivate_role_profile_checked.
LEMMA ProfilePoints ==
  ASSUME ProfileInv, NEW e \in Editors, CommitActivate(e) \/ CommitDeactivate(e)
  PROVE  /\ ProfileInv'
         /\ editor'[e].pc = "respond" => Len(profile.audit) = editor[e].seenAt
<1>1. /\ reader' = reader /\ EditorHolds(profile, editor[e]) /\ ProfileHolds(profile)
      /\ editor[e].pc = "commit" /\ DOMAIN editor = Editors
      /\ EditorFields \subseteq DOMAIN editor[e]
  BY DEF CommitActivate, CommitDeactivate, ProfileInv, EditorHolds
<1>2. /\ editor[e].expected = editor[e].seen /\ editor[e].seenAt \in Nat
      /\ DigestAt(profile, editor[e].seen, editor[e].seenAt)
  BY <1>1 DEF EditorHolds
<1>3. CASE ~Unmoved(e)
  <2>1. Answer(e, "precondition_failed") /\ UNCHANGED profile
    BY <1>3 DEF CommitActivate, CommitDeactivate
  <2>2. editor'[e].pc = "idle"
    BY <1>1, <2>1 DEF Answer, Set, EditorFields
  <2> QED BY <1>1, <2>1, <2>2, ProfileAnswers
<1>4. CASE Unmoved(e)
  <2>1. Set(e, [editor[e] EXCEPT !.pc = "respond"])
    BY <1>4 DEF CommitActivate, CommitDeactivate
  <2>2. editor[e].seen = DigestOfProfile
    BY <1>2, <1>4 DEF Unmoved
  <2>3. Len(profile.audit) = editor[e].seenAt
    BY <1>1, <1>2, <2>2, SeenIsNow
  <2>4. CASE CommitActivate(e)
    <3> DEFINE n == editor[e].request[2]
    <3>1. n \in DOMAIN profile.revs
      BY <1>1, <2>4 DEF CommitActivate, EditorHolds
    <3>2. profile' = IF profile.row.active = n THEN profile ELSE Activated(n)
      BY <1>4, <2>4 DEF CommitActivate
    <3> HIDE DEF n
    <3>3. ProfileHolds(profile') /\ Grew(profile, profile')
      BY <1>1, <3>1, <3>2, GrewNothing, ActivatedHolds
    <3> QED BY <1>1, <2>1, <2>3, <3>3, ProfileCommits
  <2>5. CASE CommitDeactivate(e)
    <3>1. profile' = Deactivated /\ editor[e].request[1] = "deactivate"
      BY <1>4, <2>5 DEF CommitDeactivate
    <3>2. profile.row.active # 0
      BY <1>1, <2>2, <3>1, ProfileParts DEF EditorHolds
    <3>3. ProfileHolds(profile') /\ Grew(profile, profile')
      BY <1>1, <3>1, <3>2, DeactivatedHolds
    <3> QED BY <1>1, <2>1, <2>3, <3>3, ProfileCommits
  <2> QED BY <2>4, <2>5
<1> QED BY <1>3, <1>4

\* load_state in another process.
LEMMA ProfileReads ==
  ASSUME ProfileInv, ReadRow \/ ReadRevisions
  PROVE  ProfileInv'
<1>1. /\ profile' = profile /\ editor' = editor /\ ProfileHolds(profile)
      /\ ReaderHolds(profile, reader) /\ ReaderFields \subseteq DOMAIN reader
  BY DEF ReadRow, ReadRevisions, ProfileInv, ReaderHolds
<1>2. ReaderHolds(profile, reader')
  <2>1. CASE ReadRow
    <3>1. /\ reader' = [reader EXCEPT !.pc = "loading", !.row = profile.row,
                                      !.since = Len(profile.audit), !.got = <<>>]
          /\ profile.row.latest # 0
      BY <2>1 DEF ReadRow, Exists
    <3>2. /\ ReaderFields \subseteq DOMAIN reader' /\ reader'.row = profile.row
          /\ reader'.since = Len(profile.audit) /\ reader'.got = <<>>
      BY <1>1, <3>1 DEF ReaderFields
    <3>3. Len(profile.audit) \in DOMAIN profile.audit /\ profile.row.latest \in DOMAIN profile.revs
      BY <1>1, <3>1, ProfileParts DEF ProfileHolds, PointerHolds
    <3>4. profile.audit[Len(profile.audit)].result = StateDigestOf(profile, profile.row)
      BY <1>1, <3>1 DEF ProfileHolds, AuditHolds
    <3> QED BY <1>1, <3>2, <3>3, <3>4, ProfileParts DEF ReaderHolds
  <2>2. CASE ReadRevisions
    <3> DEFINE whole == /\ Len(profile.revs) = LoadedRow.latest
                        /\ LoadedRow.active <= LoadedRow.latest
                        /\ LoadedRow.generation >= LoadedRow.latest - 1
                        /\ LoadedRow.active # 0 => profile.revs[LoadedRow.active].activated
               got == IF whole THEN <<"ok", StateDigestOf(profile, LoadedRow)>> ELSE <<"corruption">>
    <3>1. /\ reader.pc = "loading"
          /\ reader' = [reader EXCEPT !.pc = "idle", !.row = Absent, !.got = got]
      BY <2>2 DEF ReadRevisions
    <3>2. got[1] = "ok" => got[2] = StateDigestOf(profile, reader.row)
      <4> HIDE DEF whole
      <4>1. CASE whole
        BY <4>1 DEF LoadedRow
      <4>2. CASE ~whole
        BY <4>2
      <4> QED BY <4>1, <4>2
    <3> HIDE DEF got
    <3>3. /\ ReaderFields \subseteq DOMAIN reader' /\ reader'.pc = "idle"
          /\ reader'.since = reader.since /\ reader'.got = got
      BY <1>1, <3>1 DEF ReaderFields
    <3> QED BY <1>1, <3>1, <3>2, <3>3 DEF ReaderHolds
  <2> QED BY <2>1, <2>2
<1> QED BY <1>1, <1>2 DEF ProfileInv

\* Every step of the editors and the reader keeps the invariant, and stores only
\* what was seen.
LEMMA ProfileStep ==
  ASSUME ProfileInv, [ProfileNext]_profileVars
  PROVE  /\ ProfileInv'
         /\ \A e \in Editors : editor[e].pc = "commit" /\ editor'[e].pc = "respond"
                                 => Len(profile.audit) = editor[e].seenAt
<1> DEFINE Kept(e) == editor[e].pc = "commit" /\ editor'[e].pc = "respond"
                        => Len(profile.audit) = editor[e].seenAt
<1>1. /\ DOMAIN editor = Editors
      /\ \A e \in Editors : EditorFields \subseteq DOMAIN editor[e]
  BY DEF ProfileInv, EditorHolds
<1>2. CASE UNCHANGED profileVars
  BY <1>2 DEF profileVars, ProfileInv
<1>3. CASE ReadRow \/ ReadRevisions
  BY <1>3, ProfileReads DEF ReadRow, ReadRevisions
<1>4. ASSUME NEW e \in Editors,
             \/ Fetch(e) \/ CheckSave(e) \/ CheckPointer(e) \/ CommitSave(e) \/ Refused(e)
             \/ CommitActivate(e) \/ CommitDeactivate(e) \/ Respond(e)
             \/ \E request \in Requests : Submit(e, request)
      PROVE  ProfileInv' /\ \A o \in Editors : Kept(o)
  <2>1. \A o \in Editors : o # e => editor'[o] = editor[o]
    BY <1>1, <1>4 DEF Fetch, CheckSave, CheckPointer, CommitSave, Refused, CommitActivate,
       CommitDeactivate, Respond, Submit, Set, Answer
  <2>2. \A o \in Editors : o # e => Kept(o)
    BY <2>1
  <2>3. CASE CommitSave(e)
    BY <2>2, <2>3, ProfileSaves
  <2>4. CASE CommitActivate(e) \/ CommitDeactivate(e)
    BY <2>2, <2>4, ProfilePoints
  <2>5. CASE ~CommitSave(e) /\ ~CommitActivate(e) /\ ~CommitDeactivate(e)
    <3>1. ProfileInv'
      <4>1. CASE Refused(e)
        <5>1. \E status : Answer(e, status) /\ UNCHANGED <<profile, reader>>
          BY <4>1 DEF Refused
        <5> QED BY <5>1, ProfileAnswers
      <4> QED BY <1>4, <2>5, <4>1, ProfileFetches, ProfileChecksSave, ProfileChecksPointer, ProfileSubmits
    <3>2. editor[e].pc = "commit" => editor'[e].pc # "respond"
      BY <1>4, <2>5 DEF Fetch, CheckSave, CheckPointer, Refused, Respond, Submit
    <3> QED BY <2>2, <3>1, <3>2
  <2> QED BY <2>3, <2>4, <2>5
<1> QED BY <1>2, <1>3, <1>4 DEF ProfileNext

\* Initially there is no profile.
LEMMA ProfileStart == ProfileInit => ProfileInv
<1> SUFFICES ASSUME ProfileInit PROVE ProfileInv
  OBVIOUS
<1>1. /\ <<>> \in Seq(Revision) /\ <<>> \in Seq(Audited) /\ Len(<<>>) = 0 /\ DOMAIN <<>> = {}
      /\ Absent \in Row /\ Absent.latest = 0 /\ Absent.active = 0 /\ Absent.generation = 0
  BY DEF Absent, Row
<1>2. /\ profile \in Profiles /\ profile.revs = <<>> /\ profile.audit = <<>> /\ profile.row = Absent
  BY <1>1 DEF ProfileInit, Profiles
<1>3. ProfileHolds(profile)
  BY <1>1, <1>2 DEF ProfileHolds, PointerHolds, AuditHolds, RevisionsHold
<1>4. ReaderHolds(profile, reader)
  BY <1>1, <1>2 DEF ProfileInit, ReaderHolds, ReaderFields
<1>5. DOMAIN editor = Editors /\ \A e \in Editors : EditorHolds(profile, editor[e])
  <2>1. /\ DOMAIN editor = Editors
        /\ \A e \in Editors : /\ EditorFields \subseteq DOMAIN editor[e]
                              /\ editor[e].pc = "idle" /\ editor[e].seenAt = -1
    BY DEF ProfileInit, EditorFields
  <2> QED BY <2>1 DEF EditorHolds
<1> QED BY <1>3, <1>4, <1>5 DEF ProfileInv

\* The invariant says what the log and the reader show.
LEMMA ProfileReplays == ProfileInv => AuditReplays /\ ReadsOneState
<1> SUFFICES ASSUME ProfileInv PROVE AuditReplays /\ ReadsOneState
  OBVIOUS
<1>1. /\ ProfileHolds(profile) /\ RevisionsHold(profile) /\ AuditHolds(profile)
      /\ profile.revs \in Seq(Revision)
  BY DEF ProfileInv, ProfileHolds, Profiles
<1>2. \A n \in DOMAIN profile.audit : AuditedStep(profile.audit[n])
  BY <1>1 DEF AuditHolds, OperationHolds, AuditedStep
<1>3. \A n \in Revisions : profile.revs[n].activated \in BOOLEAN
  <2>1. \A n \in Revisions : profile.revs[n] \in Revision
    BY <1>1 DEF Revisions
  <2>2. \A r \in Revision : r.activated \in BOOLEAN
    BY DEF Revision
  <2> QED BY <2>1, <2>2
<1>4. \A n \in Revisions :
        profile.revs[n].activated <=>
          \E m \in DOMAIN profile.audit : profile.audit[m].op = "activate" /\ profile.audit[m].revision = n
  BY <1>1, <1>3 DEF RevisionsHold, WasActivated, Revisions
<1>5. Exists => profile.audit[Len(profile.audit)].result = DigestOfProfile
  BY <1>1 DEF AuditHolds, Exists, DigestOfProfile
<1>6. AuditReplays
  BY <1>1, <1>2, <1>4, <1>5 DEF AuditReplays, AuditHolds, RevisionsHold, Revisions
<1>7. ReadsOneState
  BY DEF ProfileInv, ReaderHolds, ReadsOneState
<1> QED BY <1>6, <1>7

-----------------------------------------------------------------------------
(* The services together *)

\* A step of the services is a step of one of them and leaves the others alone.
LEMMA StepOfEach ==
  ASSUME [ServicesNext]_serviceVars
  PROVE  /\ [McpNext]_mcpVars /\ [ProfileNext]_profileVars /\ [WorkerNext]_workerVars
         /\ [InstanceNext]_instanceVars /\ [PlaneNext]_planeVars
         /\ [OpeningNext]_openingVars /\ [PilotNext]_pilotVars
  BY DEF ServicesNext, serviceVars

\* Processes start side by side without harm (acquire, publish, initialize), for
\* any number of servers, clients and openers and any history of migrations.
THEOREM StartsAreSafe == ServicesSpec => []ProcessesStartSafely
<1>1. ServicesInit => InstanceInv /\ OpeningInv
  BY InstanceStart, OpeningStart DEF ServicesInit
<1>2. (InstanceInv /\ OpeningInv) /\ [ServicesNext]_serviceVars => (InstanceInv /\ OpeningInv)'
  BY StepOfEach, InstanceStep, OpeningStep
<1>3. InstanceInv /\ OpeningInv => ProcessesStartSafely
  BY InstanceServes, OpeningIsWhole DEF ProcessesStartSafely
<1> QED BY <1>1, <1>2, <1>3, PTL DEF ServicesSpec

\* Whoever made a capability authoritative did so on evidence that can be
\* retraced (set_capability_mode, execute), for any number of tabs and tasks and
\* whatever the sessions of the pilot do.
THEOREM AuthorityEarned == ServicesSpec => []AuthorityIsEarned
<1>1. ServicesInit => PlaneInv /\ PilotInv
  BY PlaneStart, PilotStart DEF ServicesInit
<1>2. (PlaneInv /\ PilotInv) /\ [ServicesNext]_serviceVars => (PlaneInv /\ PilotInv)'
  BY StepOfEach, PlaneStep, PilotStep
<1>3. PlaneInv /\ PilotInv => AuthorityIsEarned
  BY PlaneIsAudited, PilotEarns DEF AuthorityIsEarned
<1> QED BY <1>1, <1>2, <1>3, PTL DEF ServicesSpec

\* What worker_runs says of a run is true (cleanup_worker_resources, the match
\* in execute_inner), for any number of workers, runs and requests and whatever
\* the provider answers.
THEOREM WorkerReportsAreTrue == ServicesSpec => []WorkerReportIsTrue
<1>1. ServicesInit => WorkerInv
  BY WorkerStart DEF ServicesInit
<1>2. WorkerInv /\ [ServicesNext]_serviceVars => WorkerInv'
  BY StepOfEach, WorkerStep
<1> QED BY <1>1, <1>2, WorkerReports, PTL DEF ServicesSpec

\* The ledger of a connection is what the store has of it (tool_call,
\* limit_bypass, cancelled_failure), for any limits, queue and number of lines.
THEOREM LedgerStored == ServicesSpec => []LedgerIsStored
<1>1. ServicesInit => McpInv
  BY McpStart DEF ServicesInit
<1>2. McpInv /\ [ServicesNext]_serviceVars => McpInv'
  BY StepOfEach, McpStep
<1>3. McpInv => LedgerIsStored
  BY McpHolds
<1> QED BY <1>1, <1>2, <1>3, PTL DEF ServicesSpec

\* Requests are answered in the order they were sent, and only what was to be
\* cancelled is (serve, resolve_while_accepting_cancellation).
THEOREM AnsweredInOrder == ServicesSpec => []AnswersInOrder
<1>1. ServicesInit => McpInv
  BY McpStart DEF ServicesInit
<1>2. McpInv /\ [ServicesNext]_serviceVars => McpInv'
  BY StepOfEach, McpStep
<1>3. McpInv => AnswersInOrder
  BY McpHolds
<1> QED BY <1>1, <1>2, <1>3, PTL DEF ServicesSpec

\* The audit log of a profile reproduces its state (insert_audit, load_state),
\* for any number of editors, definitions and changes.
THEOREM AuditsReplay == ServicesSpec => []AuditReplays
<1>1. ServicesInit => ProfileInv
  BY ProfileStart DEF ServicesInit
<1>2. ProfileInv /\ [ServicesNext]_serviceVars => ProfileInv'
  BY StepOfEach, ProfileStep
<1>3. ProfileInv => AuditReplays
  BY ProfileReplays
<1> QED BY <1>1, <1>2, <1>3, PTL DEF ServicesSpec

\* A reader in another process gets one state of a profile, never the parts of
\* two (load_state), for any number of readers and editors.
THEOREM ReadersSeeOneState == ServicesSpec => []ReadsOneState
<1>1. ServicesInit => ProfileInv
  BY ProfileStart DEF ServicesInit
<1>2. ProfileInv /\ [ServicesNext]_serviceVars => ProfileInv'
  BY StepOfEach, ProfileStep
<1>3. ProfileInv => ReadsOneState
  BY ProfileReplays
<1> QED BY <1>1, <1>2, <1>3, PTL DEF ServicesSpec

\* A change of a profile is stored only when nothing changed since the editor
\* read it (save_draft, activate, deactivate, compare_state).
THEOREM EditsOfTheSeen == ServicesSpec => EditsWhatItSaw
<1>1. ServicesInit => ProfileInv
  BY ProfileStart DEF ServicesInit
<1>2. ProfileInv /\ [ServicesNext]_serviceVars => ProfileInv'
  BY StepOfEach, ProfileStep
<1>3. ProfileInv /\ [ServicesNext]_serviceVars
        => [\A e \in Editors :
              editor[e].pc = "commit" /\ editor'[e].pc = "respond"
                => Len(profile.audit) = editor[e].seenAt]_profileVars
  BY StepOfEach, ProfileStep
<1> QED BY <1>1, <1>2, <1>3, PTL DEF ServicesSpec, EditsWhatItSaw
=============================================================================
