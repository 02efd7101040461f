------------------------- MODULE SingleFlightProofs -------------------------
(***************************************************************************)
(* Theorems about SingleFlight, for every number of calls, every set of    *)
(* trees and every timeout.                                                *)
(***************************************************************************)
EXTENDS SingleFlight, TLAPS

\* An outcome for snapshot s whose digests are of the bytes the worker read, but
\* for an edit that was undone before the second capture.
Sound(o, s) == o \in Bound /\ o.origin = s /\ (o.bound = s.dep \/ o.undone)

\* The digests a brief of o delivers: those of typed groups are read once more.
Says(o, told, late) ==
    \/ told = o.origin.dep \/ o.undone
    \/ o.form # "legacy" /\ late

\* What a call that captured s may answer.
Servable(o, told, late, s) ==
    /\ Sound(o, o.origin)
    /\ Says(o, told, late)
    /\ o.origin = s \/ o.form = "typed-semantic"

\* What holds of one call, given the tree src.  A call that finds its snapshot in
\* place knows that the evidence was bound to it, or that an edit was undone since;
\* one that goes on to materialize compared the tree, or was overtaken by an edit.
CallGood(c, src) ==
    /\ c.pc # "idle" => c.snap \in Source
    /\ c.pc \in {"acquire", "waiting", "reacquire"} => c.owner # None
    /\ c.pc \in {"idle", "gate", "artifact", "cache", "stamp"} => c.owner = None
    /\ c.leased => c.pc \in Working \cup {"release"}
    /\ c.pc \in {"bind", "validate", "recapture"} =>
          c.result \in Outcome /\ c.result.origin = c.snap
    /\ c.pc \in {"validate", "recapture"} =>
          c.result \in Bound /\ (src = c.snap => Sound(c.result, c.snap))
    /\ c.pc \in {"materialize", "bundle", "publish"} => Sound(c.result, c.snap)
    /\ c.pc = "materialize" => c.late \/ c.result.undone \/ src.dep = c.snap.dep
    /\ c.pc \in {"bundle", "publish"} =>
          c.told \in Deps /\ Says(c.result, c.told, c.late)
    /\ c.pc \notin {"release", "done", "crashed"} => c.answer = None
    /\ c.answer \in Answers => Servable(c.result, c.told, c.late, c.snap)

\* What is stored under a snapshot was read from, and bound to, that snapshot.
StoreGood ==
    /\ \A s \in Source : cache[s] # None => Sound(cache[s], s)
    /\ \A i \in DOMAIN artifacts :
          LET a == artifacts[i]
          IN  /\ Sound(a.outcome, a.outcome.origin)
              /\ Says(a.outcome, a.told, a.late)

\* A call that works under an unexpired lease is the one the table names.
LeaseNamesHolder ==
    /\ \A r \in Requesters : req[r].leased => req[r].owner # None
    /\ OwnersCollide \/ \A r \in Requesters :
          Holding(r) => lease[req[r].snap] = [owner |-> req[r].owner,
                                              expires |-> req[r].expires]

FlightInv ==
    /\ TypeOK
    /\ \A r \in Requesters : CallGood(req[r], source)
    /\ StoreGood
    /\ LeaseNamesHolder

-----------------------------------------------------------------------------

\* The invariant holds of an empty store with no calls.
LEMMA FlightInit == Init => FlightInv
<1> SUFFICES ASSUME Init PROVE FlightInv
  OBVIOUS
<1> USE DEF Init
<1>1. TypeOK
  <2>1. Idle \in Call
    BY DEF Idle, Call, InStages, Answers
  <2>2. artifacts \in Seq(Artifact)
    OBVIOUS
  <2> QED BY <2>1, <2>2, SingleFlightAssumption DEF TypeOK, Source
<1>2. \A r \in Requesters : CallGood(req[r], source)
  BY NoneIsNoValue DEF CallGood, Idle, InStages
<1>3. StoreGood
  BY DEF StoreGood
<1>4. LeaseNamesHolder
  BY DEF LeaseNamesHolder, Holding, Idle, Working
<1> QED BY <1>1, <1>2, <1>3, <1>4 DEF FlightInv

\* The types of the two result tables.
StoreTyped ==
    /\ cache \in [Source -> Bound \cup {None}]
    /\ artifacts \in Seq(Artifact)

\* Call r goes from req[r] to n, makes no owner string and does not begin to
\* hold a lease; the tree, the clock and the leases stay as they are.
LocalStep(r, n) ==
    /\ UNCHANGED <<now, source, edits, promoted, lease>>
    /\ req' = [req EXCEPT ![r] = n]
    /\ n.owner = req[r].owner /\ (n.leased => req[r].leased)
    /\ n.pc \in Working => req[r].pc \in Working \/ ~req[r].leased
    /\ n.pc \in Working /\ n.leased =>
          n.expires = req[r].expires /\ n.snap = req[r].snap

\* Such a step preserves the invariant when it leaves the call and the tables good.
LEMMA LocalStepPreserves ==
  ASSUME FlightInv, NEW r \in Requesters, NEW n \in Call, LocalStep(r, n),
         CallGood(n, source), StoreTyped', StoreGood'
  PROVE  FlightInv'
<1> USE DEF FlightInv
<1>0. /\ req' \in [Requesters -> Call] /\ req'[r] = n
      /\ \A q \in Requesters \ {r} : req'[q] = req[q]
  BY DEF LocalStep, TypeOK
<1>1. TypeOK'
  BY <1>0 DEF TypeOK, LocalStep, StoreTyped
<1>2. \A q \in Requesters : CallGood(req'[q], source')
  BY <1>0 DEF LocalStep
<1>4. LeaseNamesHolder'
  <2>1. \A q \in Requesters : req'[q].owner = req[q].owner /\ (req'[q].leased => req[q].leased)
    BY <1>0 DEF LocalStep
  <2>2. OwnersCollide' <=> OwnersCollide
    BY <2>1 DEF OwnersCollide
  <2>3. \A q \in Requesters : Holding(q)' =>
          Holding(q) /\ req'[q].snap = req[q].snap /\ req'[q].expires = req[q].expires
    BY <1>0, <2>1 DEF Holding, LocalStep
  <2> QED BY <2>1, <2>2, <2>3 DEF LeaseNamesHolder, LocalStep
<1> QED BY <1>1, <1>2, <1>4

\* Tables that are not written stay good.
LEMMA StoreStays ==
  ASSUME FlightInv, UNCHANGED <<cache, artifacts>>
  PROVE  StoreTyped' /\ StoreGood'
BY DEF FlightInv, TypeOK, StoreTyped, StoreGood

\* What the invariant says of one call.
LEMMA GoodCall ==
  ASSUME FlightInv, NEW r \in Requesters
  PROVE  /\ req \in [Requesters -> Call] /\ req[r] \in Call
         /\ CallGood(req[r], source) /\ source \in Source /\ source.dep \in Deps
         /\ req[r].pc # "idle" => req[r].snap \in Source
BY DEF FlightInv, TypeOK, CallGood, Source

\* publish_artifact of a sound outcome keeps the artifact table sound.
LEMMA PublishArtifactPreserves ==
  ASSUME FlightInv, NEW o, NEW told \in Deps, NEW late \in BOOLEAN, Sound(o, o.origin),
         Says(o, told, late), PublishArtifact(o, told, late), cache' = cache
  PROVE  StoreTyped' /\ StoreGood'
<1> DEFINE row == [outcome |-> o, told |-> told, late |-> late,
                   manifest |-> IF o.form = "legacy" THEN o.bound ELSE source.dep]
<1>1. /\ row \in Artifact /\ Sound(row.outcome, row.outcome.origin)
      /\ Says(row.outcome, row.told, row.late)
  <2>1. o \in Bound /\ o.bound \in Deps /\ source.dep \in Deps
    BY DEF Sound, Bound, Outcome, FlightInv, TypeOK, Source
  <2> QED BY <2>1 DEF Artifact
<1>2. StoreTyped /\ StoreGood
  BY DEF FlightInv, TypeOK, StoreTyped
<1>3. artifacts' = artifacts \/ artifacts' = Append(artifacts, row)
  BY DEF PublishArtifact
<1> HIDE DEF row
<1>4. CASE artifacts' = artifacts
  BY <1>2, <1>4 DEF StoreTyped, StoreGood
<1>5. CASE artifacts' = Append(artifacts, row)
  <2>1. StoreTyped'
    BY <1>1, <1>2, <1>5 DEF StoreTyped
  <2>2. \A i \in DOMAIN artifacts' :
           \/ i \in DOMAIN artifacts /\ artifacts'[i] = artifacts[i]
           \/ artifacts'[i] = row
    BY <1>1, <1>2, <1>5 DEF StoreTyped
  <2> QED BY <2>1, <2>2, <1>1, <1>2 DEF StoreGood
<1> QED BY <1>3, <1>4, <1>5

-----------------------------------------------------------------------------
(* The steps that touch nothing but the locals of one call and the result  *)
(* tables.                                                                 *)

\* A call that is over: no lease, no worker, no wait.
LEMMA OverIs ==
  ASSUME NEW c \in Call, NEW p \in {"done", "crashed"},
         NEW answer \in Answers \cup {"failed", None}
  PROVE  /\ Over(c, p, answer) \in Call
         /\ Over(c, p, answer).pc = p /\ Over(c, p, answer).answer = answer
         /\ Over(c, p, answer).snap = c.snap /\ Over(c, p, answer).owner = c.owner
         /\ ~Over(c, p, answer).leased
<1>1. Idle \in Call /\ ~Idle.leased
  BY DEF Idle, Call, InStages, Answers
<1>2. c.snap \in Source \cup {None} /\ c.owner \in Owner \cup {None}
  BY SMTT(30) DEF Call
<1> DEFINE o == [Idle EXCEPT !.pc = p, !.owner = c.owner, !.snap = c.snap, !.answer = answer]
<1>3. o \in Call
  BY <1>1, <1>2, ZenonT(60) DEF Call
<1>4. o.pc = p /\ o.answer = answer /\ o.snap = c.snap /\ o.owner = c.owner /\ ~o.leased
  BY <1>1, SMTT(30) DEF Call
<1>5. Over(c, p, answer) = o
  BY DEF Over
<1> QED BY <1>3, <1>4, <1>5

\* Return is sound when what it returns is.
LEMMA ReturnIs ==
  ASSUME FlightInv, NEW r \in Requesters,
         NEW answer \in Answers \cup {"failed", None}, NEW result \in Outcome \cup {None},
         NEW told \in Deps \cup {None}, NEW late \in BOOLEAN,
         Return(r, answer, result, told, late)
  PROVE  \E n \in Call :
            /\ req' = [req EXCEPT ![r] = n]
            /\ n.pc = "done" /\ n.answer = answer /\ n.result = result
            /\ n.told = told /\ n.late = late
            /\ n.snap = req[r].snap /\ n.owner = req[r].owner /\ ~n.leased
<1> DEFINE o == Over(req[r], "done", answer)
           n == [o EXCEPT !.result = result, !.told = told, !.late = late,
                          !.live = source.dep]
<1>1. /\ o \in Call /\ o.pc = "done" /\ o.answer = answer /\ o.snap = req[r].snap
      /\ o.owner = req[r].owner /\ ~o.leased /\ source.dep \in Deps
  BY GoodCall, OverIs
<1>2. req' = [req EXCEPT ![r] = n]
  BY DEF Return
<1> HIDE DEF o
<1>3. n \in Call
  BY <1>1, ZenonT(60) DEF Call
<1>4. /\ n.pc = "done" /\ n.answer = answer /\ n.result = result
      /\ n.told = told /\ n.late = late
      /\ n.snap = req[r].snap /\ n.owner = req[r].owner /\ ~n.leased
  BY <1>1, SMTT(30) DEF Call
<1> QED BY <1>2, <1>3, <1>4

\* A call that is over and answers nothing, or something servable, is good.
LEMMA OverGood ==
  ASSUME NEW c, c.pc \in {"done", "crashed"}, c.snap \in Source, ~c.leased,
         c.answer \in Answers => Servable(c.result, c.told, c.late, c.snap), NEW src
  PROVE  CallGood(c, src)
BY DEF CallGood

\* So a step that ends in Return keeps the invariant.
LEMMA ReturnPreserves ==
  ASSUME FlightInv, NEW r \in Requesters, req[r].pc \in InStages,
         NEW answer \in Answers \cup {"failed", None}, NEW result \in Outcome \cup {None},
         NEW told \in Deps \cup {None}, NEW late \in BOOLEAN,
         answer \in Answers => Servable(result, told, late, req[r].snap),
         Return(r, answer, result, told, late),
         UNCHANGED <<now, source, edits, promoted, lease>>, StoreTyped', StoreGood'
  PROVE  FlightInv'
<1> PICK n \in Call : /\ req' = [req EXCEPT ![r] = n]
                      /\ n.pc = "done" /\ n.answer = answer /\ n.result = result
                      /\ n.told = told /\ n.late = late
                      /\ n.snap = req[r].snap /\ n.owner = req[r].owner /\ ~n.leased
  BY ReturnIs
<1>1. req[r].snap \in Source
  BY GoodCall DEF InStages
<1>4. CallGood(n, source)
  BY <1>1, OverGood
<1>5. LocalStep(r, n)
  BY DEF LocalStep, Working
<1> QED BY <1>4, <1>5, LocalStepPreserves

\* An error that returns at once.
LEMMA RefusePreserves ==
  ASSUME FlightInv, NEW r \in Requesters, req[r].pc \in InStages, Refuse(r),
         UNCHANGED <<now, source, edits, promoted, cache, artifacts, lease>>
  PROVE  FlightInv'
<1> DEFINE n == Over(req[r], "done", "failed")
<1>1. /\ n \in Call /\ n.pc = "done" /\ n.answer = "failed" /\ n.snap = req[r].snap
      /\ n.owner = req[r].owner /\ ~n.leased /\ req[r].snap \in Source
  BY GoodCall, OverIs DEF InStages
<1>2. req' = [req EXCEPT ![r] = n]
  BY DEF Refuse
<1> HIDE DEF n
<1>3. CallGood(n, source)
  BY <1>1, OverGood DEF Answers
<1>4. LocalStep(r, n)
  BY <1>1, <1>2 DEF LocalStep, Working
<1> QED BY <1>1, <1>3, <1>4, LocalStepPreserves, StoreStays

\* An error of generate returns at once or goes on to release the lease.
LEMMA FailPreserves ==
  ASSUME FlightInv, NEW r \in Requesters, req[r].pc \in InStages, FailGenerate(r),
         UNCHANGED <<now, source, edits, promoted, cache, artifacts, lease>>
  PROVE  FlightInv'
<1>1. CASE ~req[r].leased
  BY <1>1, RefusePreserves DEF FailGenerate
<1>2. CASE req[r].leased
  <2> DEFINE n == [req[r] EXCEPT !.pc = "release", !.answer = "failed", !.result = None,
                                 !.told = None, !.late = FALSE]
  <2>1. req' = [req EXCEPT ![r] = n]
    BY <1>2, GoodCall, ZenonT(60) DEF FailGenerate, Call
  <2>2. n \in Call
    <3>1. FALSE \in BOOLEAN /\ "release" \in InStages
      BY DEF InStages
    <3> QED BY <3>1, GoodCall, ZenonT(60) DEF Call
  <2>3. /\ n.pc = "release" /\ n.answer = "failed" /\ n.snap = req[r].snap
        /\ n.owner = req[r].owner /\ n.leased = req[r].leased
    BY GoodCall, SMTT(30) DEF Call
  <2> HIDE DEF n
  <2>4. CallGood(n, source)
    <3>1. req[r].snap \in Source /\ "failed" \notin Answers
      BY GoodCall DEF InStages, Answers
    <3> QED BY <3>1, <2>3 DEF CallGood
  <2>5. LocalStep(r, n)
    BY <2>1, <2>3 DEF LocalStep, Working
  <2> QED BY <2>2, <2>4, <2>5, LocalStepPreserves, StoreStays
<1> QED BY <1>1, <1>2

\* Moving on to the next stage is sound when what that stage relies on holds.
LEMMA GotoPreserves ==
  ASSUME FlightInv, NEW r \in Requesters, req[r].pc \in InStages,
         NEW p \in InStages, Goto(r, p), req[r].pc # "release",
         p \in Working => req[r].pc \in Working \/ ~req[r].leased,
         p \in {"acquire", "waiting", "reacquire"} => req[r].owner # None,
         p \in Working \/ req[r].pc \notin Working,
         p \in {"gate", "artifact", "cache", "stamp"} =>
            req[r].pc \in {"gate", "artifact", "cache"},
         p \notin {"release", "bind", "validate", "bundle"},
         p = "recapture" => req[r].pc = "validate",
         p \in {"materialize", "publish"} => Sound(req[r].result, req[r].snap),
         p = "materialize" => source.dep = req[r].snap.dep,
         p = "publish" => req[r].pc = "bundle",
         UNCHANGED <<now, source, edits, promoted, lease>>, StoreTyped', StoreGood'
  PROVE  FlightInv'
<1> DEFINE n == [req[r] EXCEPT !.pc = p]
<1>1. req' = [req EXCEPT ![r] = n]
  BY GoodCall, SMTT(30) DEF Goto, Call
<1>2. n \in Call
  BY GoodCall, SMTT(30) DEF Call
<1>3. /\ n.pc = p /\ n.answer = req[r].answer /\ n.result = req[r].result
      /\ n.snap = req[r].snap /\ n.owner = req[r].owner
      /\ n.leased = req[r].leased /\ n.expires = req[r].expires
      /\ n.told = req[r].told /\ n.late = req[r].late
  BY GoodCall, SMTT(30) DEF Call
<1> HIDE DEF n
<1>4. CallGood(n, source)
  <2>1. req[r].pc \notin {"idle", "done", "crashed"}
    BY DEF InStages
  <2>2. n.pc \notin {"release", "done", "crashed"} => n.answer = None
    BY <2>1, <1>3, GoodCall DEF CallGood, InStages
  <2>3. n.pc \in {"idle", "gate", "artifact", "cache", "stamp"} => n.owner = None
    BY <1>3, GoodCall DEF CallGood, InStages
  <2>4. n.leased => n.pc \in Working \cup {"release", "done", "crashed"}
    BY <2>1, <1>3, GoodCall DEF CallGood, InStages
  <2>5. n.pc \in {"bind", "validate", "recapture"} => req[r].pc = "validate"
    BY <1>3
  <2> QED BY <2>1, <2>2, <2>3, <2>4, <2>5, <1>3, GoodCall DEF CallGood
<1>5. LocalStep(r, n)
  BY <1>1, <1>3 DEF LocalStep
<1> QED BY <1>2, <1>4, <1>5, LocalStepPreserves

\* A new call captures the tree that is there.
LEMMA StartPreserves ==
  ASSUME FlightInv, NEW r \in Requesters, NEW allowed \in Policies[r], Start(r, allowed)
  PROVE  FlightInv'
<1> DEFINE n == [req[r] EXCEPT !.pc = "gate", !.snap = source,
                               !.allowed = allowed]
<1>1. req' = [req EXCEPT ![r] = n]
  BY GoodCall, ZenonT(60) DEF Start, Call
<1>2. n \in Call
  <2>1. allowed \in BOOLEAN
    BY SingleFlightAssumption
  <2>2. source \in Source /\ "gate" \in InStages
    BY GoodCall DEF InStages
  <2> QED BY <2>1, <2>2, GoodCall, ZenonT(60) DEF Call
<1>3. CallGood(n, source)
  <2>1. /\ n.pc = "gate" /\ n.snap = source
        /\ n.owner = req[r].owner
        /\ n.answer = req[r].answer /\ n.result = req[r].result
    BY GoodCall, SMTT(30) DEF Call
  <2>2. source \in Source
    BY GoodCall
  <2>3. n.answer = None /\ ~n.leased /\ n.owner = None
    BY <2>1, GoodCall, SMTT(30) DEF CallGood, Start, Call, Working
  <2> QED BY <2>1, <2>2, <2>3, NoneIsNoValue DEF CallGood
<1>4. LocalStep(r, n)
  BY <1>1, GoodCall, ZenonT(60) DEF LocalStep, Start, Call, Working
<1> QED BY <1>2, <1>3, <1>4, LocalStepPreserves, StoreStays DEF Start

\* The gate, the artifact cache and the result cache: what they return is sound.
LEMMA GatePreserves ==
  ASSUME FlightInv, NEW r \in Requesters, Gate(r)
  PROVE  FlightInv'
<1>1. req[r].pc = "gate" /\ "gate" \in InStages /\ "failed" \notin Answers
  BY DEF Gate, InStages, Answers
<1>2. UNCHANGED <<now, source, edits, promoted, lease>> /\ StoreTyped' /\ StoreGood'
  BY StoreStays DEF Gate
<1>3. CASE Goto(r, "artifact")
  BY <1>1, <1>2, <1>3, GotoPreserves DEF InStages, Working
<1>4. CASE Refuse(r)
  BY <1>1, <1>4, RefusePreserves DEF Gate
<1>5. CASE Goto(r, "execute")
  <2>1. ~req[r].leased
    BY <1>1, GoodCall DEF CallGood, Working
  <2> QED BY <1>1, <1>2, <1>5, <2>1, GotoPreserves DEF InStages, Working
<1> QED BY <1>3, <1>4, <1>5 DEF Gate

\* A row of artifacts may be served to a call of its snapshot, and a row whose
\* manifest is complete to any.
LEMMA HitPreserves ==
  ASSUME FlightInv, NEW r \in Requesters, req[r].pc \in InStages, NEW i \in DOMAIN artifacts,
         \/ artifacts[i].outcome.origin = req[r].snap
         \/ artifacts[i].outcome.form = "typed-semantic",
         Hit(r, artifacts[i]),
         UNCHANGED <<now, source, edits, promoted, cache, artifacts, lease>>
  PROVE  FlightInv'
<1> DEFINE a == artifacts[i]
<1>1. Sound(a.outcome, a.outcome.origin) /\ Says(a.outcome, a.told, a.late)
  BY DEF FlightInv, StoreGood
<1>2. a \in Artifact
  BY DEF FlightInv, TypeOK
<1>3. a.outcome \in Outcome /\ a.told \in Deps /\ a.late \in BOOLEAN
  BY <1>2 DEF Artifact, Bound
<1>4. Servable(a.outcome, a.told, a.late, req[r].snap)
  BY <1>1 DEF Servable
<1>5. Return(r, "hit", a.outcome, a.told, a.late) /\ "hit" \in Answers
  BY DEF Hit, Answers
<1> HIDE DEF a
<1> QED BY <1>3, <1>4, <1>5, ReturnPreserves, StoreStays

\* The plan's rows are such rows.
LEMMA PlanHitPreserves ==
  ASSUME FlightInv, NEW r \in Requesters, req[r].pc \in InStages, PlanHit(r),
         UNCHANGED <<now, source, edits, promoted, cache, artifacts, lease>>
  PROVE  FlightInv'
<1> PICK i \in DOMAIN artifacts : PlanFinds(req[r].snap, i) /\ Hit(r, artifacts[i])
  BY DEF PlanHit
<1>1. artifacts[i].outcome.origin = req[r].snap \/ artifacts[i].outcome.form = "typed-semantic"
  BY DEF PlanFinds, Newest, ForSnapshot, Reusable
<1> QED BY <1>1, HitPreserves

\* resolve_route_plan, then the brief.
LEMMA ResolveArtifactPreserves ==
  ASSUME FlightInv, NEW r \in Requesters, ResolveArtifact(r)
  PROVE  FlightInv'
<1>1. /\ req[r].pc = "artifact" /\ req[r].pc \in InStages
      /\ UNCHANGED <<now, source, edits, promoted, cache, artifacts, lease>>
  BY DEF ResolveArtifact, InStages
<1>2. CASE PlanHit(r)
  BY <1>1, <1>2, PlanHitPreserves
<1>3. CASE \E i \in DOMAIN artifacts :
             /\ Newest(ForSnapshot(req[r].snap) \ Typed, i)
             /\ Hit(r, artifacts[i])
  <2> PICK i \in DOMAIN artifacts : /\ Newest(ForSnapshot(req[r].snap) \ Typed, i)
                                    /\ Hit(r, artifacts[i])
    BY <1>3
  <2>1. artifacts[i].outcome.origin = req[r].snap
    BY DEF Newest, ForSnapshot
  <2> QED BY <1>1, <2>1, HitPreserves
<1>4. CASE Goto(r, "cache")
  BY <1>1, <1>4, GotoPreserves, StoreStays DEF InStages, Working
<1> QED BY <1>2, <1>3, <1>4 DEF ResolveArtifact

\* A hit on cache_entries takes over a sound outcome.
LEMMA TakeEntryPreserves ==
  ASSUME FlightInv, NEW r \in Requesters, req[r].pc \in {"cache", "waiting"},
         CachedEntry(r) # None, EvidenceHolds(CachedEntry(r)), TakeEntry(r),
         UNCHANGED <<now, source, edits, promoted, cache, artifacts, lease>>
  PROVE  FlightInv'
<1> DEFINE o == cache[req[r].snap]
           n == [req[r] EXCEPT !.pc = "materialize", !.result = o]
<1>1. req' = [req EXCEPT ![r] = n]
  BY GoodCall, ZenonT(60) DEF TakeEntry, CachedEntry, Call
<1>2. /\ req[r].snap \in Source /\ Sound(o, req[r].snap) /\ o \in Outcome
      /\ o.bound = source.dep
  BY GoodCall DEF FlightInv, StoreGood, Sound, Bound, CachedEntry, EvidenceHolds
<1> HIDE DEF o
<1>3. n \in Call
  BY <1>2, GoodCall, ZenonT(60) DEF Call, InStages
<1>4. /\ n.pc = "materialize" /\ n.answer = req[r].answer /\ n.result = o
      /\ n.snap = req[r].snap /\ n.owner = req[r].owner
      /\ n.leased = req[r].leased
  BY GoodCall, SMTT(30) DEF Call
<1> HIDE DEF n
<1>0. n.answer = None /\ ~n.leased
  BY <1>4, GoodCall DEF CallGood, Working
<1>5. CallGood(n, source)
  <2>2. o.undone \/ source.dep = req[r].snap.dep
    BY <1>2 DEF Sound
  <2> QED BY <1>0, <2>2, <1>2, <1>4, NoneIsNoValue DEF CallGood
<1>6. LocalStep(r, n)
  BY <1>0, <1>1, <1>4 DEF LocalStep
<1> QED BY <1>3, <1>5, <1>6, LocalStepPreserves, StoreStays

\* The exact-hit path of resolve_with_worker_policy.
LEMMA CacheLookupPreserves ==
  ASSUME FlightInv, NEW r \in Requesters, CacheLookup(r)
  PROVE  FlightInv'
<1>1. /\ req[r].pc = "cache" /\ req[r].pc \in InStages
      /\ UNCHANGED <<now, source, edits, promoted, cache, artifacts, lease>>
  BY DEF CacheLookup, InStages
<1>2. CASE CachedEntry(r) # None /\ EvidenceHolds(CachedEntry(r)) /\ TakeEntry(r)
  BY <1>1, <1>2, TakeEntryPreserves
<1>3. CASE Refuse(r)
  BY <1>1, <1>3, RefusePreserves
<1>4. CASE Goto(r, "stamp")
  BY <1>1, <1>4, StoreStays, GotoPreserves DEF InStages, Working
<1> QED BY <1>2, <1>3, <1>4 DEF CacheLookup

\* One turn of wait_for_result.
LEMMA PollPreserves ==
  ASSUME FlightInv, NEW r \in Requesters, Poll(r)
  PROVE  FlightInv'
<1>1. /\ req[r].pc = "waiting" /\ req[r].pc \in InStages /\ CachedEntry(r) # None
      /\ UNCHANGED <<now, source, edits, promoted, cache, artifacts, lease>>
  BY DEF Poll, InStages
<1>2. CASE PlanHit(r)
  BY <1>1, <1>2, PlanHitPreserves
<1>3. CASE EvidenceHolds(CachedEntry(r)) /\ TakeEntry(r)
  BY <1>1, <1>3, TakeEntryPreserves
<1>4. CASE Refuse(r)
  BY <1>1, <1>4, RefusePreserves
<1> QED BY <1>2, <1>3, <1>4 DEF Poll

\* expires is renewed while no lease is held.
LEMMA WaitTimesOutPreserves ==
  ASSUME FlightInv, NEW r \in Requesters, WaitTimesOut(r)
  PROVE  FlightInv'
<1> DEFINE n == [req[r] EXCEPT !.pc = "reacquire", !.expires = now + Timeout]
<1>1. req' = [req EXCEPT ![r] = n]
  BY GoodCall, ZenonT(60) DEF WaitTimesOut, Call
<1>2. n \in Call
  <2>1. now + Timeout \in Nat /\ "reacquire" \in InStages
    BY SingleFlightAssumption DEF FlightInv, TypeOK, InStages
  <2> QED BY <2>1, GoodCall, ZenonT(60) DEF Call
<1>3. /\ n.pc = "reacquire" /\ n.answer = req[r].answer
      /\ n.snap = req[r].snap /\ n.owner = req[r].owner
      /\ n.leased = req[r].leased
  BY GoodCall, SMTT(30) DEF Call
<1> HIDE DEF n
<1>4. req[r].pc = "waiting"
  BY DEF WaitTimesOut
<1>5. CallGood(n, source)
  <2>1. n.answer = None /\ ~n.leased
    BY <1>3, <1>4, GoodCall DEF CallGood, Working
  <2> QED BY <2>1, <1>3, <1>4, GoodCall, NoneIsNoValue DEF CallGood, InStages
<1>6. LocalStep(r, n)
  BY <1>1, <1>3 DEF LocalStep, WaitTimesOut, Working
<1> QED BY <1>2, <1>5, <1>6, LocalStepPreserves, StoreStays DEF WaitTimesOut

\* The steps of generate.
LEMMA EnterSandboxPreserves ==
  ASSUME FlightInv, NEW r \in Requesters, EnterSandbox(r)
  PROVE  FlightInv'
<1>1. req[r].pc = "execute" /\ req[r].pc \in InStages
  BY DEF EnterSandbox, InStages
<1>2. CASE FailGenerate(r)
  BY <1>1, <1>2, FailPreserves DEF EnterSandbox
<1>3. CASE req' = [req EXCEPT ![r].pc = "running", ![r].spawned = TRUE]
  <2> DEFINE n == [req[r] EXCEPT !.pc = "running", !.spawned = TRUE]
  <2>1. req' = [req EXCEPT ![r] = n]
    BY <1>3, GoodCall, ZenonT(60) DEF Call
  <2>2. n \in Call
    <3>1. TRUE \in BOOLEAN /\ "running" \in InStages
      BY DEF InStages
    <3> QED BY <3>1, GoodCall, ZenonT(60) DEF Call
  <2>3. /\ n.pc = "running" /\ n.answer = req[r].answer
        /\ n.snap = req[r].snap /\ n.owner = req[r].owner
        /\ n.leased = req[r].leased /\ n.expires = req[r].expires
    BY GoodCall, SMTT(30) DEF Call
  <2> HIDE DEF n
  <2>4. CallGood(n, source)
    <3>1. n.answer = None
      BY <1>1, <2>3, GoodCall DEF CallGood
    <3> QED BY <3>1, <1>1, <2>3, GoodCall, NoneIsNoValue DEF CallGood, InStages, Working
  <2>5. LocalStep(r, n)
    BY <1>1, <2>1, <2>3 DEF LocalStep, EnterSandbox, Working
  <2> QED BY <2>2, <2>4, <2>5, LocalStepPreserves, StoreStays DEF EnterSandbox
<1> QED BY <1>2, <1>3 DEF EnterSandbox

\* The worker answers from the bytes of its snapshot.
LEMMA WorkerAnswersPreserves ==
  ASSUME FlightInv, NEW r \in Requesters, NEW form \in Forms, WorkerAnswers(r, form)
  PROVE  FlightInv'
<1> DEFINE o == [origin |-> req[r].snap, bound |-> None, form |-> form, by |-> r,
                 undone |-> FALSE]
           n == [req[r] EXCEPT !.pc = "bind", !.result = o]
<1>1. req' = [req EXCEPT ![r] = n]
  BY GoodCall, ZenonT(60) DEF WorkerAnswers, Call
<1>2. req[r].pc = "running" /\ req[r].snap \in Source
  BY GoodCall DEF WorkerAnswers
<1>3. o \in Outcome /\ o.origin = req[r].snap
  BY <1>2 DEF Outcome
<1> HIDE DEF o
<1>4. n \in Call
  BY <1>3, GoodCall, ZenonT(60) DEF Call, InStages
<1>5. /\ n.pc = "bind" /\ n.answer = req[r].answer /\ n.result = o
      /\ n.snap = req[r].snap /\ n.owner = req[r].owner
      /\ n.leased = req[r].leased /\ n.expires = req[r].expires
  BY GoodCall, SMTT(30) DEF Call
<1> HIDE DEF n
<1>6. CallGood(n, source)
  <2>1. n.answer = None
    BY <1>2, <1>5, GoodCall DEF CallGood
  <2> QED BY <2>1, <1>2, <1>3, <1>5, GoodCall, NoneIsNoValue
          DEF CallGood, InStages, Working
<1>7. LocalStep(r, n)
  BY <1>1, <1>2, <1>5 DEF LocalStep, WorkerAnswers, Working
<1> QED BY <1>4, <1>6, <1>7, LocalStepPreserves, StoreStays DEF WorkerAnswers

\* The evidence is bound to what the tree holds now.
LEMMA BindEvidencePreserves ==
  ASSUME FlightInv, NEW r \in Requesters, BindEvidence(r)
  PROVE  FlightInv'
<1> DEFINE o == [req[r].result EXCEPT !.bound = source.dep]
           n == [req[r] EXCEPT !.pc = "validate", !.result = o]
<1>1. req' = [req EXCEPT ![r] = n]
  BY GoodCall, ZenonT(60) DEF BindEvidence, Call
<1>2. /\ req[r].pc = "bind" /\ req[r].result \in Outcome
      /\ req[r].result.origin = req[r].snap
  BY GoodCall DEF BindEvidence, CallGood
<1>3. o \in Outcome /\ o.origin = req[r].snap /\ o.bound = source.dep
  BY <1>2, GoodCall DEF Outcome, Source
<1> HIDE DEF o
<1>4. o \in Bound
  BY <1>3, GoodCall, SingleFlightAssumption DEF Bound, Source
<1>5. n \in Call
  BY <1>3, GoodCall, ZenonT(60) DEF Call, InStages
<1>6. /\ n.pc = "validate" /\ n.answer = req[r].answer /\ n.result = o
      /\ n.snap = req[r].snap /\ n.owner = req[r].owner
      /\ n.leased = req[r].leased /\ n.expires = req[r].expires
  BY GoodCall, SMTT(30) DEF Call
<1> HIDE DEF n
<1>7. CallGood(n, source)
  <2>1. n.answer = None
    BY <1>2, <1>6, GoodCall DEF CallGood
  <2> QED BY <2>1, <1>2, <1>3, <1>4, <1>6, GoodCall, NoneIsNoValue
          DEF CallGood, InStages, Working, Sound
<1>8. LocalStep(r, n)
  BY <1>1, <1>2, <1>6 DEF LocalStep, BindEvidence, Working
<1> QED BY <1>5, <1>7, <1>8, LocalStepPreserves, StoreStays DEF BindEvidence

\* validate_need_result passes the outcome on or drops it.
LEMMA ValidateResultPreserves ==
  ASSUME FlightInv, NEW r \in Requesters, ValidateResult(r)
  PROVE  FlightInv'
<1>1. req[r].pc = "validate" /\ req[r].pc \in InStages
  BY DEF ValidateResult, InStages
<1>2. CASE FailGenerate(r)
  BY <1>1, <1>2, FailPreserves DEF ValidateResult
<1>3. CASE Goto(r, "recapture")
  BY <1>1, <1>3, GotoPreserves, StoreStays DEF ValidateResult, InStages, Working
<1> QED BY <1>2, <1>3 DEF ValidateResult

\* The second capture: the tree is the snapshot, so it was when the evidence was
\* bound, or an edit was undone since.
LEMMA RecapturePreserves ==
  ASSUME FlightInv, NEW r \in Requesters, Recapture(r)
  PROVE  FlightInv'
<1>1. req[r].pc = "recapture" /\ req[r].pc \in InStages
  BY DEF Recapture, InStages
<1>2. UNCHANGED <<now, source, edits, promoted, lease>> /\ StoreTyped' /\ StoreGood'
  BY StoreStays DEF Recapture
<1>3. CASE SourceUnchanged(r) /\ Goto(r, "materialize")
  <2>1. Sound(req[r].result, req[r].snap) /\ source.dep = req[r].snap.dep
    BY <1>1, <1>3, GoodCall DEF CallGood, SourceUnchanged
  <2> QED BY <1>1, <1>2, <1>3, <2>1, GotoPreserves DEF InStages, Working
<1>4. CASE FailGenerate(r)
  BY <1>1, <1>4, FailPreserves DEF Recapture
<1> QED BY <1>3, <1>4 DEF Recapture

\* The payload repeats the bound digests, or hashes the tree: the one compared
\* last unless an edit came in between.
LEMMA MaterializePreserves ==
  ASSUME FlightInv, NEW r \in Requesters, Materialize(r)
  PROVE  FlightInv'
<1> DEFINE d == Told(req[r].result)
           n == [req[r] EXCEPT !.pc = "bundle", !.told = d]
<1>1. req' = [req EXCEPT ![r] = n]
  BY GoodCall, ZenonT(60) DEF Materialize, Call
<1>2. /\ req[r].pc = "materialize" /\ req[r].snap \in Source
      /\ Sound(req[r].result, req[r].snap)
      /\ req[r].late \/ req[r].result.undone \/ source.dep = req[r].snap.dep
      /\ req[r].answer = None
  BY GoodCall DEF CallGood, Materialize
<1>3. d \in Deps /\ Says(req[r].result, d, req[r].late)
  BY <1>2, GoodCall DEF Told, Says, Sound, Bound, Outcome
<1> HIDE DEF d
<1>4. n \in Call
  BY <1>3, GoodCall, ZenonT(60) DEF Call, InStages
<1>5. /\ n.pc = "bundle" /\ n.answer = req[r].answer /\ n.result = req[r].result
      /\ n.snap = req[r].snap /\ n.owner = req[r].owner
      /\ n.leased = req[r].leased /\ n.expires = req[r].expires
      /\ n.told = d /\ n.late = req[r].late
  BY GoodCall, SMTT(30) DEF Call
<1> HIDE DEF n
<1>6. CallGood(n, source)
  BY <1>2, <1>3, <1>5, NoneIsNoValue DEF CallGood, Working
<1>7. LocalStep(r, n)
  BY <1>1, <1>2, <1>5 DEF LocalStep, Materialize, Working
<1> QED BY <1>4, <1>6, <1>7, LocalStepPreserves, StoreStays DEF Materialize

\* The row, or the answer, says what the payload says.
LEMMA BundlePreserves ==
  ASSUME FlightInv, NEW r \in Requesters, Bundle(r)
  PROVE  FlightInv'
<1> DEFINE c == req[r]
<1>1. /\ c.pc = "bundle" /\ c.pc \in InStages
      /\ UNCHANGED <<now, source, edits, promoted, cache, lease>>
  BY DEF Bundle, InStages
<1>2. /\ Sound(c.result, c.snap) /\ c.result.origin = c.snap /\ c.told \in Deps
      /\ Says(c.result, c.told, c.late)
  BY <1>1, GoodCall DEF CallGood, Sound
<1>3. c.late \in BOOLEAN /\ c.result \in Outcome
  BY <1>2, GoodCall, SMTT(30) DEF Call, Sound, Bound
<1>4. Servable(c.result, c.told, c.late, c.snap)
  BY <1>2 DEF Servable
<1>5. CASE /\ PublishArtifact(c.result, c.told, c.late)
           /\ Return(r, "hit", c.result, c.told, c.late)
  <2>1. StoreTyped' /\ StoreGood'
    BY <1>1, <1>2, <1>3, <1>5, PublishArtifactPreserves
  <2> QED BY <1>1, <1>2, <1>3, <1>4, <1>5, <2>1, ReturnPreserves DEF Answers
<1>6. CASE PublishArtifact(c.result, c.told, c.late) /\ Goto(r, "publish")
  <2>1. StoreTyped' /\ StoreGood'
    BY <1>1, <1>2, <1>3, <1>6, PublishArtifactPreserves
  <2> QED BY <1>1, <1>2, <1>6, <2>1, GotoPreserves DEF InStages, Working
<1>7. CASE /\ Return(r, "generated-unpromoted", c.result, c.told, c.late)
           /\ UNCHANGED artifacts
  BY <1>1, <1>2, <1>3, <1>4, <1>7, StoreStays, ReturnPreserves DEF Answers
<1> QED BY <1>5, <1>6, <1>7 DEF Bundle

\* publish: the entry is stored under the snapshot it was computed for.
LEMMA PublishPreserves ==
  ASSUME FlightInv, NEW r \in Requesters, Publish(r)
  PROVE  FlightInv'
<1> DEFINE n == [req[r] EXCEPT !.pc = "release", !.answer = "generated"]
<1>1. req' = [req EXCEPT ![r] = n]
  BY GoodCall, ZenonT(60) DEF Publish, Call
<1>2. req[r].pc = "publish" /\ req[r].snap \in Source
  BY GoodCall DEF Publish
<1>3. Sound(req[r].result, req[r].snap) /\ Says(req[r].result, req[r].told, req[r].late)
  BY <1>2, GoodCall DEF CallGood
<1>4. n \in Call
  BY GoodCall, ZenonT(60) DEF Call, InStages, Answers
<1>5. /\ n.pc = "release" /\ n.result = req[r].result
      /\ n.told = req[r].told /\ n.late = req[r].late
      /\ n.snap = req[r].snap /\ n.owner = req[r].owner
      /\ n.leased = req[r].leased
  BY GoodCall, SMTT(30) DEF Call
<1> HIDE DEF n
<1>6. CallGood(n, source)
  <2>1. Servable(n.result, n.told, n.late, n.snap)
    BY <1>3, <1>5 DEF Servable, Sound
  <2> QED BY <1>2, <1>5, <2>1, GoodCall DEF CallGood
<1>7. LocalStep(r, n)
  BY <1>1, <1>5 DEF LocalStep, Publish, Working
<1>8. StoreTyped' /\ StoreGood'
  <2>1. cache' = [cache EXCEPT ![req[r].snap] = req[r].result] /\ artifacts' = artifacts
    BY DEF Publish
  <2> QED BY <1>2, <1>3, <2>1
          DEF FlightInv, TypeOK, StoreTyped, StoreGood, Sound
<1> QED BY <1>4, <1>6, <1>7, <1>8, LocalStepPreserves

-----------------------------------------------------------------------------
(* The steps that touch the leases, and those of the environment.          *)

\* A new owner string: no lease is held under it yet.
LEMMA StampPreserves ==
  ASSUME FlightInv, NEW r \in Requesters, Stamp(r)
  PROVE  FlightInv'
<1> DEFINE o == <<ProcessOf[r], now>>
           n == [req[r] EXCEPT !.pc = "acquire", !.expires = now + Timeout, !.owner = o]
<1>1. req' = [req EXCEPT ![r] = n]
  BY GoodCall, ZenonT(60) DEF Stamp, Call
<1>2. o \in Owner /\ now + Timeout \in Nat
  BY SingleFlightAssumption DEF Owner, FlightInv, TypeOK
<1> HIDE DEF o
<1>3. n \in Call
  BY <1>2, GoodCall, ZenonT(60) DEF Call, InStages
<1>4. /\ n.pc = "acquire" /\ n.answer = req[r].answer /\ n.owner = o
      /\ n.snap = req[r].snap /\ n.leased = req[r].leased
  BY GoodCall, SMTT(30) DEF Call
<1> HIDE DEF n
<1>5. req[r].pc = "stamp" /\ req[r].owner = None /\ ~req[r].leased /\ req[r].answer = None
  BY GoodCall DEF Stamp, CallGood, Working
<1>6. CallGood(n, source)
  BY <1>2, <1>4, <1>5, GoodCall, NoneIsNoValue DEF CallGood, InStages
<1>7. /\ req' \in [Requesters -> Call] /\ req'[r] = n
      /\ \A q \in Requesters \ {r} : req'[q] = req[q]
  BY <1>1, <1>3, GoodCall
<1>8. LeaseNamesHolder'
  <2>1. OwnersCollide => OwnersCollide'
    BY <1>5, <1>7 DEF OwnersCollide
  <2>2. \A q \in Requesters : Holding(q)' => q # r /\ Holding(q)
    BY <1>4, <1>5, <1>7 DEF Holding, Stamp
  <2>3. LeaseNamesHolder
    BY DEF FlightInv
  <2>4. \A q \in Requesters : req'[q].leased => req'[q].owner # None
    BY <1>4, <1>5, <1>7, <2>3 DEF LeaseNamesHolder
  <2> QED BY <2>1, <2>2, <2>3, <2>4, <1>7 DEF LeaseNamesHolder, Stamp
<1>9. TypeOK' /\ StoreGood'
  BY <1>7 DEF FlightInv, TypeOK, StoreGood, Stamp
<1>10. \A q \in Requesters : CallGood(req'[q], source')
  BY <1>6, <1>7 DEF FlightInv, Stamp
<1> QED BY <1>8, <1>9, <1>10 DEF FlightInv

\* Deleting the expired rows takes no lease from a call that still holds one.
LEMMA LiveLeasesKeepHolders ==
  ASSUME FlightInv, ~OwnersCollide, NEW q \in Requesters, Holding(q)
  PROVE  /\ LiveLeases[req[q].snap] = [owner |-> req[q].owner, expires |-> req[q].expires]
         /\ LiveLeases[req[q].snap] # None
<1>1. req[q].snap \in Source /\ req[q].owner \in Owner /\ req[q].expires \in Nat
  BY GoodCall, SMTT(30) DEF Holding, Working, FlightInv, LeaseNamesHolder, Call
<1>2. lease[req[q].snap] = [owner |-> req[q].owner, expires |-> req[q].expires]
  BY DEF FlightInv, LeaseNamesHolder
<1>3. lease[req[q].snap] \in Lease /\ ~(lease[req[q].snap].expires <= now)
  BY <1>1, <1>2 DEF Lease, Holding, FlightInv, TypeOK
<1> QED BY <1>1, <1>2, <1>3, NoneIsNoValue DEF LiveLeases

\* Deleting expired rows keeps the type of the table.
LEMMA LiveLeasesTyped ==
  ASSUME FlightInv
  PROVE  LiveLeases \in [Source -> Lease \cup {None}]
BY DEF FlightInv, TypeOK, LiveLeases

\* acquire_lease: the caller becomes the holder only when nobody holds the lease.
LEMMA AcquirePreserves ==
  ASSUME FlightInv, NEW r \in Requesters, Acquire(r)
  PROVE  FlightInv'
<1>1. /\ req[r].pc \in {"acquire", "reacquire"} /\ req[r].pc \in InStages
      /\ UNCHANGED <<now, source, edits, promoted, cache, artifacts>>
  BY DEF Acquire, InStages
<1>2. /\ req[r].snap \in Source /\ req[r].owner \in Owner /\ req[r].expires \in Nat
      /\ ~req[r].leased /\ req[r].answer = None /\ req[r].owner # None
  BY <1>1, GoodCall, SMTT(30) DEF CallGood, Call, Working
<1>3. CASE /\ CanAcquire(req[r].snap)
           /\ lease' = [LiveLeases EXCEPT ![req[r].snap] =
                          [owner |-> req[r].owner, expires |-> req[r].expires]]
           /\ req' = [req EXCEPT ![r].pc = "execute", ![r].leased = TRUE]
  <2> DEFINE n == [req[r] EXCEPT !.pc = "execute", !.leased = TRUE]
  <2>1. req' = [req EXCEPT ![r] = n]
    BY <1>3, GoodCall, ZenonT(60) DEF Call
  <2>2. n \in Call
    <3>1. TRUE \in BOOLEAN /\ "execute" \in InStages
      BY DEF InStages
    <3> QED BY <3>1, GoodCall, ZenonT(60) DEF Call
  <2>3. /\ n.pc = "execute" /\ n.answer = req[r].answer /\ n.owner = req[r].owner
        /\ n.snap = req[r].snap /\ n.expires = req[r].expires
    BY GoodCall, SMTT(30) DEF Call
  <2> HIDE DEF n
  <2>4. CallGood(n, source)
    BY <1>1, <1>2, <2>3, GoodCall, NoneIsNoValue DEF CallGood, InStages, Working
  <2>5. /\ req' \in [Requesters -> Call] /\ req'[r] = n
        /\ \A q \in Requesters \ {r} : req'[q] = req[q]
    BY <2>1, <2>2, GoodCall
  <2>6. [owner |-> req[r].owner, expires |-> req[r].expires] \in Lease
    BY <1>2 DEF Lease
  <2>7. TypeOK' /\ StoreGood'
    BY <1>1, <1>2, <1>3, <2>5, <2>6, LiveLeasesTyped DEF FlightInv, TypeOK, StoreGood
  <2>8. LeaseNamesHolder'
    <3>1. \A q \in Requesters : req'[q].owner = req[q].owner
      BY <2>3, <2>5
    <3>2. OwnersCollide' <=> OwnersCollide
      BY <3>1 DEF OwnersCollide
    <3>3. \A q \in Requesters : req'[q].leased => req'[q].owner # None
      BY <1>2, <2>5, <3>1 DEF FlightInv, LeaseNamesHolder
    <3>4. ASSUME ~OwnersCollide, NEW q \in Requesters, Holding(q)'
          PROVE  lease'[req'[q].snap] = [owner |-> req'[q].owner,
                                         expires |-> req'[q].expires]
      <4>1. CASE q = r
        BY <4>1, <1>2, <1>3, <2>3, <2>5, LiveLeasesTyped
      <4>2. CASE q # r
        <5>1. req'[q] = req[q] /\ Holding(q)
          BY <4>2, <3>4, <2>5, <1>1 DEF Holding
        <5>2. req[q].snap # req[r].snap
          BY <5>1, <3>4, <1>3, LiveLeasesKeepHolders DEF CanAcquire
        <5>3. req[q].snap \in Source
          BY <5>1, GoodCall DEF Holding, Working
        <5> QED BY <5>1, <5>2, <5>3, <3>4, <1>3, LiveLeasesKeepHolders, LiveLeasesTyped
      <4> QED BY <4>1, <4>2
    <3> QED BY <3>2, <3>3, <3>4 DEF LeaseNamesHolder
  <2>9. \A q \in Requesters : CallGood(req'[q], source')
    BY <1>1, <2>4, <2>5 DEF FlightInv
  <2> QED BY <2>7, <2>8, <2>9 DEF FlightInv
<1>4. CASE lease' = LiveLeases /\ (Goto(r, "waiting") \/ Refuse(r))
  <2>1. /\ req' \in [Requesters -> Call]
        /\ \A q \in Requesters \ {r} : req'[q] = req[q]
        /\ req'[r].pc \in {"waiting", "done"} /\ req'[r].owner = req[r].owner
        /\ ~req'[r].leased /\ req'[r].snap = req[r].snap
        /\ req'[r].pc = "waiting" => req'[r].answer = req[r].answer
        /\ req'[r].pc = "done" => req'[r].answer = "failed"
    <3>1. CASE Goto(r, "waiting")
      <4> DEFINE n == [req[r] EXCEPT !.pc = "waiting"]
      <4>1. req' = [req EXCEPT ![r] = n]
        BY <3>1, GoodCall, SMTT(30) DEF Goto, Call
      <4>2. n \in Call
        BY GoodCall, SMTT(30) DEF Call, InStages
      <4>3. /\ n.owner = req[r].owner /\ n.leased = req[r].leased
            /\ n.snap = req[r].snap
            /\ n.pc = "waiting" /\ n.answer = req[r].answer
        BY GoodCall, SMTT(30) DEF Call
      <4> HIDE DEF n
      <4> QED BY <1>2, <4>1, <4>2, <4>3, GoodCall
    <3>2. CASE Refuse(r)
      <4> DEFINE n == Over(req[r], "done", "failed")
      <4>1. req' = [req EXCEPT ![r] = n]
        BY <3>2 DEF Refuse
      <4>2. /\ n \in Call /\ n.owner = req[r].owner /\ ~n.leased
            /\ n.snap = req[r].snap /\ n.pc = "done" /\ n.answer = "failed"
        BY GoodCall, OverIs
      <4> HIDE DEF n
      <4> QED BY <4>1, <4>2, GoodCall
    <3> QED BY <1>4, <3>1, <3>2
  <2>2. CallGood(req'[r], source)
    <3>1. req'[r].answer \notin Answers
      BY <1>2, <2>1, NoneIsNoValue DEF Answers
    <3> QED BY <1>1, <1>2, <2>1, <3>1, GoodCall DEF CallGood
  <2>3. TypeOK' /\ StoreGood'
    BY <1>1, <1>4, <2>1, LiveLeasesTyped DEF FlightInv, TypeOK, StoreGood
  <2>4. LeaseNamesHolder'
    <3>1. \A q \in Requesters : req'[q].owner = req[q].owner /\ (req'[q].leased => req[q].leased)
      BY <2>1
    <3>2. OwnersCollide' <=> OwnersCollide
      BY <3>1 DEF OwnersCollide
    <3>3. \A q \in Requesters : Holding(q)' => q # r /\ Holding(q)
      BY <1>1, <2>1 DEF Holding, Working
    <3>4. LeaseNamesHolder
      BY DEF FlightInv
    <3> QED BY <1>4, <2>1, <3>1, <3>2, <3>3, <3>4, LiveLeasesKeepHolders DEF LeaseNamesHolder
  <2>5. \A q \in Requesters : CallGood(req'[q], source')
    BY <1>1, <2>1, <2>2 DEF FlightInv
  <2> QED BY <2>3, <2>4, <2>5 DEF FlightInv
<1> QED BY <1>3, <1>4 DEF Acquire

\* release_lease deletes the row of its own owner string only.
LEMMA ReleasePreserves ==
  ASSUME FlightInv, NEW r \in Requesters, Release(r)
  PROVE  FlightInv'
<1>1. /\ req[r].answer \in Answers \cup {"failed", None}
      /\ req[r].result \in Outcome \cup {None}
      /\ req[r].told \in Deps \cup {None} /\ req[r].late \in BOOLEAN
  BY GoodCall, SMTT(30) DEF Call
<1>2. Return(r, req[r].answer, req[r].result, req[r].told, req[r].late)
  BY DEF Release
<1>3. PICK n \in Call :
        /\ req' = [req EXCEPT ![r] = n]
        /\ n.pc = "done" /\ n.answer = req[r].answer /\ n.result = req[r].result
        /\ n.told = req[r].told /\ n.late = req[r].late
        /\ n.snap = req[r].snap /\ n.owner = req[r].owner /\ ~n.leased
  <2> DEFINE a == req[r].answer
             o == req[r].result
             d == req[r].told
             l == req[r].late
  <2>1. /\ a \in Answers \cup {"failed", None} /\ o \in Outcome \cup {None}
        /\ d \in Deps \cup {None} /\ l \in BOOLEAN /\ Return(r, a, o, d, l)
    BY <1>1, <1>2
  <2> HIDE DEF a, o, d, l
  <2>2. \E n \in Call :
           /\ req' = [req EXCEPT ![r] = n]
           /\ n.pc = "done" /\ n.answer = a /\ n.result = o /\ n.told = d /\ n.late = l
           /\ n.snap = req[r].snap /\ n.owner = req[r].owner /\ ~n.leased
    BY <2>1, ReturnIs
  <2> QED BY <2>2, Zenon DEF a, o, d, l
<1>4. req[r].pc = "release" /\ req[r].snap \in Source
  BY GoodCall DEF Release
<1>5. CallGood(n, source)
  BY <1>3, <1>4, GoodCall, OverGood DEF CallGood
<1>6. /\ req' \in [Requesters -> Call] /\ req'[r] = n
      /\ \A q \in Requesters \ {r} : req'[q] = req[q]
  BY <1>3, GoodCall
<1>7. /\ lease' \in [Source -> Lease \cup {None}]
      /\ \A s \in Source : \/ lease'[s] = lease[s]
                           \/ lease[s] # None /\ lease[s].owner = req[r].owner
  BY <1>4 DEF Release, ReleaseLease, FlightInv, TypeOK
<1>8. TypeOK' /\ StoreGood'
  BY <1>6, <1>7 DEF FlightInv, TypeOK, StoreGood, Release
<1>9. LeaseNamesHolder'
  <2>1. \A q \in Requesters : req'[q].owner = req[q].owner /\ (req'[q].leased => req[q].leased)
    BY <1>3, <1>6
  <2>2. OwnersCollide' <=> OwnersCollide
    BY <2>1 DEF OwnersCollide
  <2>3. \A q \in Requesters : Holding(q)' => q # r /\ Holding(q)
    BY <1>3, <1>6 DEF Holding, Working, Release
  <2>4. LeaseNamesHolder
    BY DEF FlightInv
  <2>5. ASSUME ~OwnersCollide, NEW q \in Requesters, q # r, Holding(q)
        PROVE  lease'[req[q].snap] = [owner |-> req[q].owner, expires |-> req[q].expires]
    <3>1. lease[req[q].snap] = [owner |-> req[q].owner, expires |-> req[q].expires]
      BY <2>4, <2>5 DEF LeaseNamesHolder
    <3>2. req[q].owner # None /\ req[q].owner # req[r].owner
      BY <2>4, <2>5 DEF LeaseNamesHolder, Holding, OwnersCollide
    <3>3. req[q].snap \in Source
      BY <2>5, GoodCall DEF Holding, Working
    <3> QED BY <3>1, <3>2, <3>3, <1>7
  <2> QED BY <1>6, <2>1, <2>2, <2>3, <2>4, <2>5 DEF LeaseNamesHolder
<1>10. \A q \in Requesters : CallGood(req'[q], source')
  BY <1>5, <1>6 DEF FlightInv, Release
<1> QED BY <1>8, <1>9, <1>10 DEF FlightInv

\* A killed call stops working; its lease stays.
LEMMA CrashPreserves ==
  ASSUME FlightInv, NEW r \in Requesters, Crash(r)
  PROVE  FlightInv'
<1> DEFINE n == Over(req[r], "crashed", None)
<1>1. /\ n \in Call /\ n.pc = "crashed" /\ n.answer = None /\ n.snap = req[r].snap
      /\ n.owner = req[r].owner /\ ~n.leased /\ req[r].snap \in Source
  BY GoodCall, OverIs DEF InStages, Crash
<1>2. req' = [req EXCEPT ![r] = n]
  BY DEF Crash
<1> HIDE DEF n
<1>3. CallGood(n, source)
  BY <1>1, OverGood, NoneIsNoValue
<1>4. LocalStep(r, n)
  BY <1>1, <1>2 DEF LocalStep, Working, Crash
<1> QED BY <1>1, <1>3, <1>4, LocalStepPreserves, StoreStays DEF Crash

\* What Disturbed changes: late, and whether the edit undoes an earlier one.
LEMMA DisturbedIs ==
  ASSUME NEW c \in Call, NEW s \in Source,
         c.pc \in {"validate", "recapture"} => c.result \in Outcome
  PROVE  LET d == Disturbed(c, s)
         IN  /\ d \in Call /\ d.pc = c.pc /\ d.snap = c.snap /\ d.owner = c.owner
             /\ d.expires = c.expires /\ d.leased = c.leased /\ d.answer = c.answer
             /\ d.told = c.told
             /\ d.late = (c.late \/ c.pc = "materialize")
             /\ \/ d.result = c.result
                \/ /\ c.pc \in {"validate", "recapture"}
                   /\ d.result = [c.result EXCEPT !.undone = TRUE]
             /\ c.pc \in {"validate", "recapture"} /\ s = c.snap =>
                  d.result = [c.result EXCEPT !.undone = TRUE]
<1> DEFINE l == c.late \/ c.pc = "materialize"
           o == IF c.pc \in {"validate", "recapture"} /\ s = c.snap
                  THEN [c.result EXCEPT !.undone = TRUE] ELSE c.result
           d == [c EXCEPT !.late = l, !.result = o]
<1>1. Disturbed(c, s) = d
  BY ZenonT(60) DEF Disturbed, Call
<1>2. /\ \/ o = c.result
         \/ /\ c.pc \in {"validate", "recapture"}
            /\ o = [c.result EXCEPT !.undone = TRUE]
      /\ c.pc \in {"validate", "recapture"} /\ s = c.snap =>
           o = [c.result EXCEPT !.undone = TRUE]
  OBVIOUS
<1>3. o \in Outcome \cup {None}
  <2>1. c.result \in Outcome \cup {None}
    BY SMTT(30) DEF Call
  <2>2. c.result \in Outcome => [c.result EXCEPT !.undone = TRUE] \in Outcome
    BY DEF Outcome
  <2> QED BY <2>1, <2>2, <1>2
<1>4. l \in BOOLEAN
  OBVIOUS
<1> HIDE DEF o, l
<1>5. d \in Call
  BY <1>3, <1>4, ZenonT(60) DEF Call
<1>6. /\ d.pc = c.pc /\ d.snap = c.snap /\ d.owner = c.owner
      /\ d.expires = c.expires /\ d.leased = c.leased /\ d.answer = c.answer
      /\ d.told = c.told /\ d.late = l /\ d.result = o
  BY SMTT(30) DEF Call
<1> HIDE DEF d
<1> QED BY <1>1, <1>2, <1>5, <1>6 DEF l

\* An edit overtakes a call that is about to materialize, and one that restores a
\* snapshot is remembered by the calls that have yet to compare it.
LEMMA EditPreserves ==
  ASSUME FlightInv, NEW s \in Source, Edit(s)
  PROVE  FlightInv'
<1>1. /\ s # source /\ source' = s /\ edits' = edits + 1
      /\ UNCHANGED <<now, promoted, cache, artifacts, lease>>
  BY DEF Edit
<1>2. ASSUME NEW q \in Requesters
      PROVE  /\ req'[q] \in Call /\ req[q] \in Call
             /\ req'[q].pc = req[q].pc /\ req'[q].snap = req[q].snap
             /\ req'[q].owner = req[q].owner /\ req'[q].expires = req[q].expires
             /\ req'[q].leased = req[q].leased
             /\ CallGood(req'[q], source')
  <2>1. req[q] \in Call /\ CallGood(req[q], source)
    BY GoodCall
  <2>2. CASE req[q].pc \in InStages
    <3> DEFINE c == req[q]
               d == Disturbed(c, s)
    <3>1. req'[q] = d
      BY <2>2 DEF Edit
    <3>2. /\ d \in Call /\ d.pc = c.pc /\ d.snap = c.snap /\ d.owner = c.owner
          /\ d.expires = c.expires /\ d.leased = c.leased /\ d.answer = c.answer
          /\ d.told = c.told
          /\ d.late = (c.late \/ c.pc = "materialize")
          /\ \/ d.result = c.result
             \/ /\ c.pc \in {"validate", "recapture"}
                /\ d.result = [c.result EXCEPT !.undone = TRUE]
          /\ c.pc \in {"validate", "recapture"} /\ s = c.snap =>
               d.result = [c.result EXCEPT !.undone = TRUE]
      BY <2>1, DisturbedIs DEF CallGood
    <3> HIDE DEF c, d
    <3>3. CallGood(c, source)
      BY <2>1 DEF c
    <3>4. CallGood(d, s)
      <4>1. CASE c.pc \in {"validate", "recapture"}
        <5>1. c.result \in Bound /\ c.result \in Outcome /\ c.result.origin = c.snap
              /\ c.answer = None
          BY <4>1, <3>3 DEF CallGood
        <5>2. /\ d.result \in Bound /\ d.result \in Outcome /\ d.result.origin = c.snap
              /\ s = c.snap => d.result.undone
          BY <5>1, <3>2, <4>1 DEF Bound, Outcome
        <5>3. s = c.snap => Sound(d.result, c.snap)
          BY <5>2 DEF Sound
        <5> QED BY <4>1, <5>1, <5>2, <5>3, <3>2, <3>3, NoneIsNoValue DEF CallGood
      <4>2. CASE c.pc = "materialize"
        <5>1. c.answer = None
          BY <4>2, <3>3 DEF CallGood
        <5> QED BY <4>2, <5>1, <3>2, <3>3, NoneIsNoValue DEF CallGood
      <4>3. CASE c.pc \notin {"validate", "recapture", "materialize"}
        <5>1. d.result = c.result /\ d.late = c.late
          BY <4>3, <3>2, <2>1, SMTT(30) DEF c, Call
        <5> QED BY <4>3, <5>1, <3>2, <3>3 DEF CallGood
      <4> QED BY <4>1, <4>2, <4>3
    <3> QED BY <3>1, <3>2, <3>4, <2>1, <1>1 DEF c
  <2>3. CASE req[q].pc \notin InStages
    <3>1. req'[q] = req[q]
      BY <2>3 DEF Edit
    <3> QED BY <3>1, <2>1, <2>3, <1>1 DEF CallGood, InStages
  <2> QED BY <2>2, <2>3
<1>3. req' \in [Requesters -> Call]
  BY <1>2 DEF Edit
<1>4. TypeOK' /\ StoreGood'
  BY <1>1, <1>3 DEF FlightInv, TypeOK, StoreGood
<1>5. LeaseNamesHolder'
  <2>1. OwnersCollide' <=> OwnersCollide
    BY <1>2 DEF OwnersCollide
  <2>2. \A q \in Requesters : Holding(q)' => Holding(q)
    BY <1>1, <1>2 DEF Holding
  <2> QED BY <1>1, <1>2, <2>1, <2>2 DEF FlightInv, LeaseNamesHolder
<1> QED BY <1>2, <1>4, <1>5 DEF FlightInv

\* An invalidated entry is gone.
LEMMA InvalidateCachePreserves ==
  ASSUME FlightInv, NEW s \in Source, InvalidateCache(s)
  PROVE  FlightInv'
<1>1. TypeOK' /\ StoreGood'
  BY DEF InvalidateCache, FlightInv, TypeOK, StoreGood
<1> QED BY <1>1 DEF InvalidateCache, FlightInv, LeaseNamesHolder, OwnersCollide, Holding

\* Time passes: calls can only stop holding.
LEMMA TickPreserves ==
  ASSUME FlightInv, Tick
  PROVE  FlightInv'
<1>1. TypeOK' /\ StoreGood'
  BY DEF Tick, FlightInv, TypeOK, StoreGood
<1>2. \A q \in Requesters : Holding(q)' => Holding(q)
  BY GoodCall, SMTT(30) DEF Tick, Holding, FlightInv, TypeOK, Call
<1> QED BY <1>1, <1>2 DEF Tick, FlightInv, LeaseNamesHolder, OwnersCollide

\* Every step preserves the invariant.
LEMMA FlightStep == FlightInv /\ [Next]_vars => FlightInv'
<1> SUFFICES ASSUME FlightInv, [Next]_vars PROVE FlightInv'
  OBVIOUS
<1>1. ASSUME NEW r \in Requesters, NEW allowed \in Policies[r], Start(r, allowed)
      PROVE  FlightInv'
  BY <1>1, StartPreserves
<1>2. ASSUME NEW r \in Requesters, CallStep(r)
      PROVE  FlightInv'
  <2>1. CASE WorkerFails(r)
    BY <2>1, FailPreserves DEF WorkerFails, InStages
  <2>2. CASE StoreFails(r)
    BY <2>2, FailPreserves DEF StoreFails, InStages
  <2>3. CASE ReleaseFails(r)
    BY <2>3, RefusePreserves DEF ReleaseFails, InStages
  <2> QED BY <1>2, <2>1, <2>2, <2>3, GatePreserves, ResolveArtifactPreserves,
             CacheLookupPreserves, StampPreserves, AcquirePreserves, PollPreserves,
             WaitTimesOutPreserves, EnterSandboxPreserves, WorkerAnswersPreserves,
             BindEvidencePreserves, ValidateResultPreserves, RecapturePreserves,
             MaterializePreserves, BundlePreserves, PublishPreserves, ReleasePreserves
          DEF CallStep, Advance
<1>3. ASSUME NEW r \in Requesters, Crash(r) PROVE FlightInv'
  BY <1>3, CrashPreserves
<1>4. ASSUME NEW s \in Source, Edit(s) \/ InvalidateCache(s) PROVE FlightInv'
  BY <1>4, EditPreserves, InvalidateCachePreserves
<1>5. CASE MarkUtilityGatePassed
  BY <1>5 DEF MarkUtilityGatePassed, FlightInv, TypeOK, StoreGood, LeaseNamesHolder,
              OwnersCollide, Holding
<1>6. CASE Tick
  BY <1>6, TickPreserves
<1>7. CASE UNCHANGED vars
  BY <1>7 DEF vars, FlightInv, TypeOK, StoreGood, LeaseNamesHolder, OwnersCollide, Holding
<1> QED BY <1>1, <1>2, <1>3, <1>4, <1>5, <1>6, <1>7 DEF Next, Finished

\* The invariant holds in every reachable state of the store and its callers.
THEOREM FlightInvariant == Spec => []FlightInv
<1> QED BY FlightInit, FlightStep, PTL DEF Spec

\* The stored values and the locals of every call of resolve keep their types.
THEOREM FlightTypes == Spec => []TypeOK
<1>1. FlightInv => TypeOK
  BY DEF FlightInv
<1> QED BY <1>1, FlightInvariant, PTL

\* acquire_lease and release_lease: without equal owner strings, no two calls
\* ever work for one snapshot under unexpired leases.
THEOREM LeaseMutualExclusion == Spec => []LeaseExclusive
<1>1. FlightInv => LeaseExclusive
  <2> SUFFICES ASSUME FlightInv, ~OwnersCollide,
                      NEW a \in Requesters, NEW b \in Requesters,
                      a # b, Holding(a), Holding(b), req[a].snap = req[b].snap
               PROVE  FALSE
    BY DEF LeaseExclusive
  <2>1. [owner |-> req[a].owner, expires |-> req[a].expires]
          = [owner |-> req[b].owner, expires |-> req[b].expires]
    BY DEF FlightInv, LeaseNamesHolder
  <2>2. req[a].owner = req[b].owner
    BY <2>1
  <2> QED BY <2>2 DEF FlightInv, LeaseNamesHolder, Holding, OwnersCollide
<1> QED BY <1>1, FlightInvariant, PTL

\* generate, cache_lookup, ArtifactCache::resolve, wait_for_result and
\* materialize_worker_artifact: whatever the edits, failures and crashes, an answer
\* was computed for the captured snapshot unless its manifest is complete, and
\* delivers digests of the bytes its worker read unless an edit was undone before
\* the second capture or came between the last comparison and the hashing.
THEOREM AnswersAreOfTheCapturedSource == Spec => []ServedFromCapturedSource
<1>1. FlightInv => ServedFromCapturedSource
  BY DEF FlightInv, CallGood, ServedFromCapturedSource, Servable, Sound, Says
<1> QED BY <1>1, FlightInvariant, PTL
=============================================================================
