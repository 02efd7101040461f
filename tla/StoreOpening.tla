---------------------------- MODULE StoreOpening ----------------------------
(***************************************************************************)
(* Opening the database: RuntimeStore::initialize, which almost every      *)
(* store call runs first (needle-runtime/src/store.rs).  Servers, hooks    *)
(* and MCP processes of one or of different builds open the same file, and *)
(* any of them may die in between.                                         *)
(*                                                                         *)
(* A migration is its text and its checksum is that text.  The first one   *)
(* only creates what is missing and runs every time, statement by          *)
(* statement; the others run once each, in a transaction with their        *)
(* checksum.  Which statements of the first were reached is not told       *)
(* apart: another run completes them.                                      *)
(***************************************************************************)
EXTENDS Naturals, Sequences

CONSTANTS
  Openers,       \* processes that open the store
  Migrations,    \* opener -> the migrations its program was built with
  MaxOpenings    \* bound on the calls of initialize

ASSUME OpeningConstants ==
  /\ MaxOpenings \in Nat
  /\ \A o \in Openers : Migrations[o] \in Seq(STRING) /\ Len(Migrations[o]) > 0

\* The text of MIGRATION_V1 is the same in every build: of two builds that
\* disagree on it, one that opens a new file at the same moment as the other
\* would not notice (INSERT OR IGNORE).
ASSUME FirstIsFixed == \A o, p \in Openers : Migrations[o][1] = Migrations[p][1]

VARIABLES
  database,   \* applied: rows of schema_migrations by version; ran: texts executed, in order
  opener,     \* per process: where its call of initialize is
  openings    \* calls made

openingVars == <<database, opener, openings>>

Closed == [phase |-> "closed", version |-> 0]

OpeningInit ==
  /\ database = [applied |-> <<>>, ran |-> <<>>]
  /\ opener = [o \in Openers |-> Closed]
  /\ openings = 0

\* initialize is called; the connection of the store is opened if need be.
Connect(o) ==
  /\ opener[o].phase \in {"closed", "open", "refused"}
  /\ openings < MaxOpenings
  /\ openings' = openings + 1
  /\ opener' = [opener EXCEPT ![o] = [phase |-> "run first", version |-> 1]]
  /\ UNCHANGED database

ToVersion(o, phase, version) == opener' = [opener EXCEPT ![o] = [phase |-> phase, version |-> version]]

\* MIGRATION_V1 runs before its checksum is looked at.
RunFirst(o) ==
  /\ opener[o].phase = "run first"
  /\ ToVersion(o, "check", 1)
  /\ UNCHANGED <<database, openings>>

Applied(version) == version <= Len(database.applied)

\* The checksum is read: the migration is known, has another text, or is missing.
CheckVersion(o) ==
  LET v == opener[o].version IN
  /\ opener[o].phase = "check"
  /\ ToVersion(o, IF ~Applied(v) THEN "migrate"
                  ELSE IF database.applied[v] = Migrations[o][v] THEN "next" ELSE "refused", v)
  /\ UNCHANGED <<database, openings>>

\* INSERT OR IGNORE: whoever comes second leaves the row as it is.
RecordFirst(o) ==
  /\ opener[o].phase = "migrate" /\ opener[o].version = 1
  /\ database' = IF Applied(1) THEN database
                 ELSE [applied |-> <<Migrations[o][1]>>, ran |-> <<Migrations[o][1]>>]
  /\ ToVersion(o, "next", 1)
  /\ UNCHANGED openings

\* Fault: the migration commits before its checksum is recorded.
ApplyInTwoSteps(o) ==
  LET v == opener[o].version IN
  /\ v > 1
  /\ UNCHANGED openings
  /\ \/ /\ opener[o].phase = "migrate"
        /\ database' = [database EXCEPT !.ran = Append(@, Migrations[o][v])]
        /\ ToVersion(o, "record", v)
     \/ /\ opener[o].phase = "record" /\ Len(database.applied) = v - 1
        /\ database' = [database EXCEPT !.applied = Append(@, Migrations[o][v])]
        /\ ToVersion(o, "next", v)

\* The transaction of apply_migration.  If another process was faster, the
\* objects exist and the version is taken: an error, and nothing is changed.
ApplyMigration(o) ==
  LET v == opener[o].version IN
  /\ opener[o].phase = "migrate" /\ v > 1
  /\ IF Applied(v)
     THEN ToVersion(o, "refused", v) /\ UNCHANGED database
     ELSE /\ database' = [applied |-> Append(database.applied, Migrations[o][v]),
                          ran |-> Append(database.ran, Migrations[o][v])]
          /\ ToVersion(o, "next", v)
  /\ UNCHANGED openings

\* The next version; after the last one the default settings are inserted.
NextVersion(o) ==
  LET v == opener[o].version IN
  /\ opener[o].phase = "next"
  /\ IF v < Len(Migrations[o]) THEN ToVersion(o, "check", v + 1) ELSE ToVersion(o, "open", v)
  /\ UNCHANGED <<database, openings>>

\* The disk fails, or the lock is held for longer than busy_timeout.
OpeningFails(o) ==
  /\ opener[o].phase \notin {"closed", "open", "refused"}
  /\ ToVersion(o, "refused", opener[o].version)
  /\ UNCHANGED <<database, openings>>

OpenerDies(o) ==
  /\ opener[o] # Closed
  /\ opener' = [opener EXCEPT ![o] = Closed]
  /\ UNCHANGED <<database, openings>>

OpeningNext ==
  \E o \in Openers :
    \/ Connect(o) \/ RunFirst(o) \/ CheckVersion(o) \/ RecordFirst(o) \/ ApplyMigration(o)
    \/ NextVersion(o) \/ OpeningFails(o) \/ OpenerDies(o)

-----------------------------------------------------------------------------
\* An open store has the schema the program was built for: all its versions
\* with its own texts, however many processes of whatever build opened the
\* file, failed or died before and since; a migration ran once, in order,
\* and the journal of versions says which ran.
OpenStoreIsWhole ==
  /\ database.ran = database.applied
  /\ \A o \in Openers : opener[o].phase = "open" =>
       \A v \in DOMAIN Migrations[o] : Applied(v) /\ database.applied[v] = Migrations[o][v]
=============================================================================
