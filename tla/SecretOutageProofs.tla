-------------------------- MODULE SecretOutageProofs --------------------------
(***************************************************************************)
(* Proofs about SecretOutage, for any references, any edits of             *)
(* spec.secretRefs, any maxDegradedDuration and any number of outages.     *)
(***************************************************************************)
EXTENDS SecretOutage, TLAPS

(* The shape of a status and of what a reconcile holds.                    *)
IsStatus(st) == st = [est |-> st.est, ready |-> st.ready, age |-> st.age, reason |-> st.reason]

IsJob(j) ==
  /\ j = [refs |-> j.refs, todo |-> j.todo, ready |-> j.ready, seen |-> j.seen,
          outage |-> j.outage, st |-> j.st]
  /\ IsStatus(j.st)

ShapeInv ==
  /\ pc \in {"idle", "resolve", "wire", "write"}
  /\ IsStatus(status) /\ IsJob(job)

(* What a reconcile has resolved is what it has seen, and it comes to wire *)
(* only when that is all of its references.                                *)
ResolveInv ==
  /\ job.todo \subseteq job.refs /\ job.ready \subseteq job.refs
  /\ job.seen = {TargetName(r) : r \in job.ready}
  /\ pc = "wire" => job.ready = job.refs

(* Unless the object was written by others, and then the status write is   *)
(* refused, a reconcile works for the references of the spec, and the      *)
(* status it is going to write keeps their marks.                          *)
StickyInv ==
  pc # "idle" => /\ ~dirty => job.refs = spec
                 /\ status.est \cap job.refs \subseteq job.st.est

(* Marks come only from the status as it was read, or from a wiring for    *)
(* which every reference had resolved.                                     *)
EarnedInv ==
  pc # "idle" => \/ job.st.est \subseteq status.est
                 \/ job.st.est = job.refs /\ job.ready = job.refs

IInv == ShapeInv /\ ResolveInv /\ StickyInv /\ EarnedInv

------------------------------------------------------------------------------
(* setCondition and the carry-over leave the marks of the spec's references.*)
LEMMA Conditions ==
  ASSUME NEW st, IsStatus(st), NEW refs, NEW ready, NEW value, NEW reason
  PROVE  LET new == SetCondition(CarryOver(st, refs, ready), value, reason)
         IN  IsStatus(new) /\ new.est = st.est \cap refs
<1>1. PICK carried : carried = CarryOver(st, refs, ready)
  OBVIOUS
<1>2. IsStatus(carried) /\ carried.est = st.est \cap refs
  BY <1>1 DEF CarryOver, IsStatus
<1>3. PICK age : age = IF value = carried.ready THEN carried.age ELSE 0
  OBVIOUS
<1>4. SetCondition(carried, value, reason)
        = [carried EXCEPT !.ready = value, !.reason = reason, !.age = age]
  BY <1>3 DEF SetCondition
<1>5. [carried EXCEPT !.ready = value, !.reason = reason, !.age = age]
        = [est |-> carried.est, ready |-> value, age |-> age, reason |-> reason]
  <2>1. carried = [est |-> carried.est, ready |-> carried.ready, age |-> carried.age,
                   reason |-> carried.reason]
    BY <1>2 DEF IsStatus
  <2>2. PICK one : one = [carried EXCEPT !.ready = value]
    OBVIOUS
  <2>3. PICK two : two = [one EXCEPT !.reason = reason]
    OBVIOUS
  <2>4. one = [est |-> carried.est, ready |-> value, age |-> carried.age,
               reason |-> carried.reason]
    BY <2>1, <2>2
  <2>5. two = [est |-> carried.est, ready |-> value, age |-> carried.age, reason |-> reason]
    BY <2>3, <2>4
  <2>6. [two EXCEPT !.age = age]
          = [est |-> carried.est, ready |-> value, age |-> age, reason |-> reason]
    BY <2>5
  <2> QED  BY <2>2, <2>3, <2>6
<1> QED  BY <1>1, <1>2, <1>4, <1>5 DEF IsStatus

(* Evaluate lets a reconcile go on only when no reference is unready.      *)
LEMMA FailClosed ==
  ASSUME NEW refs, NEW ready, NEW est, NEW outage, NEW max,
         Evaluate(refs, ready, est, outage, max).allReady
  PROVE  refs \subseteq ready
BY DEF Evaluate

LEMMA Idle ==
  IsStatus(NoJob.st) /\ IsJob(NoJob)
    /\ NoJob.todo = {} /\ NoJob.refs = {} /\ NoJob.ready = {} /\ NoJob.seen = {}
BY DEF IsStatus, IsJob, NoJob

LEMMA Initially == Init => IInv
BY Idle DEF Init, IInv, ShapeInv, ResolveInv, StickyInv, EarnedInv

LEMMA BeginStep ==
  ASSUME IInv, Begin  PROVE IInv'
<1>1. job' = [refs |-> spec, todo |-> spec, ready |-> {}, seen |-> {},
              outage |-> DegradedFor(status), st |-> status]
  BY DEF Begin, NoJob
<1>2. IsJob(job')
  BY <1>1 DEF IInv, ShapeInv, IsJob
<1>3. job'.refs = spec /\ job'.todo = spec /\ job'.ready = {} /\ job'.seen = {} /\ job'.st = status
  BY <1>1
<1>4. pc' = "resolve" /\ ~dirty' /\ UNCHANGED <<spec, status>>
  BY DEF Begin
<1> QED  BY <1>2, <1>3, <1>4 DEF IInv, ShapeInv, ResolveInv, StickyInv, EarnedInv

LEMMA ResolveStep ==
  ASSUME IInv, NEW r \in Refs, ResolveOne(r) \/ ResolveError(r)  PROVE IInv'
<1>1. PICK todo, ready, seen :
        /\ todo = job.todo \ {r} /\ r \in job.todo
        /\ \/ ready = job.ready \cup {r} /\ seen = job.seen \cup {TargetName(r)}
           \/ ready = job.ready /\ seen = job.seen
        /\ job' = [refs |-> job.refs, todo |-> todo, ready |-> ready, seen |-> seen,
                   outage |-> job.outage, st |-> job.st]
  <2>0. job = [refs |-> job.refs, todo |-> job.todo, ready |-> job.ready, seen |-> job.seen,
               outage |-> job.outage, st |-> job.st]
    BY DEF IInv, ShapeInv, IsJob
  <2>1. CASE ResolveOne(r) /\ Resolvable(r)
    BY <2>0, <2>1 DEF ResolveOne
  <2>2. CASE ResolveOne(r) /\ ~Resolvable(r)
    BY <2>0, <2>2 DEF ResolveOne
  <2>3. CASE ResolveError(r)
    BY <2>0, <2>3 DEF ResolveError
  <2> QED  BY <2>1, <2>2, <2>3
<1>2. job'.refs = job.refs /\ job'.todo = todo /\ job'.ready = ready /\ job'.seen = seen
        /\ job'.st = job.st
  BY <1>1
<1>3. pc = "resolve" /\ UNCHANGED <<pc, dirty, spec, status>>
  BY DEF ResolveOne, ResolveError
<1>4. ShapeInv'
  BY <1>1, <1>3 DEF IInv, ShapeInv, IsJob
<1>5. ResolveInv'
  BY <1>1, <1>2, <1>3 DEF IInv, ResolveInv
<1>6. StickyInv'
  BY <1>2, <1>3 DEF IInv, StickyInv
<1>7. EarnedInv'
  <2>1. job.ready = job.refs => ready = job.refs
    BY <1>1 DEF IInv, ResolveInv
  <2> QED  BY <1>2, <1>3, <2>1 DEF IInv, EarnedInv
<1> QED  BY <1>4, <1>5, <1>6, <1>7 DEF IInv

LEMMA DecideStep ==
  ASSUME IInv, Decide  PROVE IInv'
<1> DEFINE carried == CarryOver(job.st, job.refs, job.ready)
           d == Evaluate(job.refs, job.ready, carried.est, job.outage, MaxDegraded)
           new == SetCondition(carried, IF d.allReady THEN "True" ELSE "False", d.reason)
<1>1. job' = [job EXCEPT !.st = new] /\ pc' = (IF d.allReady THEN "wire" ELSE "write")
  BY DEF Decide
<1>2. IsStatus(new) /\ new.est = job.st.est \cap job.refs
  BY Conditions DEF IInv, ShapeInv, IsJob
<1>3. d.allReady => job.ready = job.refs
  BY FailClosed DEF IInv, ResolveInv
<1> HIDE DEF new, d
<1>4. job' = [refs |-> job.refs, todo |-> job.todo, ready |-> job.ready, seen |-> job.seen,
              outage |-> job.outage, st |-> new]
  BY <1>1 DEF IInv, ShapeInv, IsJob
<1>5. pc = "resolve" /\ UNCHANGED <<dirty, spec, status>>
  BY DEF Decide
<1>6. ShapeInv'
  BY <1>1, <1>2, <1>4, <1>5 DEF IInv, ShapeInv, IsJob
<1>7. ResolveInv'
  BY <1>1, <1>3, <1>4 DEF IInv, ResolveInv
<1>8. StickyInv' /\ EarnedInv'
  BY <1>2, <1>4, <1>5 DEF IInv, ResolveInv, StickyInv, EarnedInv
<1> QED  BY <1>6, <1>7, <1>8 DEF IInv

LEMMA WireStep ==
  ASSUME IInv, Wire  PROVE IInv'
<1>1. PICK new : /\ new = [job.st EXCEPT !.est = job.refs]
                 /\ job' = [job EXCEPT !.st = new]
  BY DEF Wire
<1>2. IsStatus(new) /\ new.est = job.refs
  BY <1>1 DEF IInv, ShapeInv, IsJob, IsStatus
<1>3. job' = [refs |-> job.refs, todo |-> job.todo, ready |-> job.ready, seen |-> job.seen,
              outage |-> job.outage, st |-> new]
  BY <1>1 DEF IInv, ShapeInv, IsJob
<1>4. pc = "wire" /\ pc' = "write" /\ UNCHANGED <<dirty, spec, status>>
  BY DEF Wire
<1>5. ShapeInv'
  BY <1>2, <1>3, <1>4 DEF IInv, ShapeInv, IsJob
<1>6. ResolveInv'
  BY <1>3, <1>4 DEF IInv, ResolveInv
<1>7. StickyInv' /\ EarnedInv'
  BY <1>2, <1>3, <1>4 DEF IInv, ResolveInv, StickyInv, EarnedInv
<1> QED  BY <1>5, <1>6, <1>7 DEF IInv

LEMMA WriteStep ==
  ASSUME IInv, Write \/ WriteConflict \/ Abort  PROVE IInv'
<1>1. pc' = "idle" /\ job' = NoJob /\ (status' = status \/ status' = job.st)
  BY DEF Write, WriteConflict, Abort
<1> QED  BY <1>1, Idle DEF IInv, ShapeInv, IsJob, ResolveInv, StickyInv, EarnedInv

LEMMA WireFailsStep ==
  ASSUME IInv, WireFails  PROVE IInv'
BY DEF WireFails, IInv, ShapeInv, ResolveInv, StickyInv, EarnedInv

LEMMA EnvironmentStep ==
  ASSUME IInv, \/ EditRefs \/ \E n \in SecretNames : ChangeSecret(n)
               \/ \E r \in External : ChangeExternal(r)
  PROVE  IInv'
<1>1. UNCHANGED <<status, pc, job>> /\ (dirty' \/ UNCHANGED <<dirty, spec>>)
  BY DEF EditRefs, ChangeSecret, ChangeExternal
<1> QED  BY <1>1 DEF IInv, ShapeInv, ResolveInv, StickyInv, EarnedInv

(* The clock moves only the transition times.                              *)
LEMMA TickStep ==
  ASSUME IInv, Tick  PROVE IInv'
<1>1. IsStatus(status') /\ status'.est = status.est
  BY DEF Tick, IInv, ShapeInv, IsStatus
<1>2. IsJob(job') /\ \A f \in {"refs", "todo", "ready", "seen"} : job'[f] = job[f]
  <2>1. CASE pc = "idle"
    BY <2>1 DEF Tick, IInv, ShapeInv
  <2>2. CASE pc # "idle"
    <3>1. PICK st : st = [job.st EXCEPT !.age = Saturated(@ + 1)] /\ job' = [job EXCEPT !.st = st]
      BY <2>2 DEF Tick
    <3>2. IsStatus(st)
      BY <3>1 DEF IInv, ShapeInv, IsJob, IsStatus
    <3> QED  BY <3>1, <3>2 DEF IInv, ShapeInv, IsJob
  <2> QED  BY <2>1, <2>2
<1>3. job'.st.est = job.st.est
  BY DEF Tick, IInv, ShapeInv, IsJob, IsStatus
<1>4. UNCHANGED <<pc, dirty, spec>>
  BY DEF Tick
<1>5. job'.refs = job.refs /\ job'.todo = job.todo /\ job'.ready = job.ready
        /\ job'.seen = job.seen
  BY <1>2
<1> QED  BY <1>1, <1>2, <1>3, <1>4, <1>5
         DEF IInv, ShapeInv, ResolveInv, StickyInv, EarnedInv

THEOREM Invariance == Spec => []IInv
<1>1. IInv /\ [Next]_vars => IInv'
  <2> SUFFICES ASSUME IInv, [Next]_vars  PROVE IInv'
    OBVIOUS
  <2>1. CASE Begin \/ Decide \/ Wire \/ Write \/ WriteConflict \/ Abort \/ WireFails \/ Tick
    BY <2>1, BeginStep, DecideStep, WireStep, WriteStep, WireFailsStep, TickStep
  <2>2. CASE \E r \in Refs : ResolveOne(r) \/ ResolveError(r)
    BY <2>2, ResolveStep
  <2>3. CASE \/ EditRefs \/ \E n \in SecretNames : ChangeSecret(n)
             \/ \E r \in External : ChangeExternal(r)
    BY <2>3, EnvironmentStep
  <2>4. CASE UNCHANGED vars
    BY <2>4 DEF vars, IInv, ShapeInv, ResolveInv, StickyInv, EarnedInv
  <2> QED  BY <2>1, <2>2, <2>3, <2>4 DEF Next, Reconcile, Environment
<1> QED  BY Initially, <1>1, PTL DEF Spec

------------------------------------------------------------------------------
(* Steps other than Wire leave the template alone, and steps other than    *)
(* Write leave the marks.                                                  *)
LEMMA Bystanders ==
  ASSUME IInv, [Next]_vars
  PROVE  (wiredTo' # wiredTo => Wire) /\ (status'.est # status.est => Write)
BY DEF Next, Reconcile, Environment, vars, Begin, ResolveOne, ResolveError, Decide, Wire,
       WireFails, Write, WriteConflict, Abort, EditRefs, ChangeSecret, ChangeExternal, Tick,
       IInv, ShapeInv, IsStatus

(***************************************************************************)
(* R8.9, fail closed (wireAndStamp runs only after Evaluate found every    *)
(* reference ready): whatever the interleaving with changes of Secrets,    *)
(* the names put into the pod template are those the same reconcile saw    *)
(* complete.  No reference may set spec.target.name: the template names    *)
(* the ConfigSync's secretName, the resolver looks at the target.          *)
(***************************************************************************)
THEOREM WiredOnlySeen ==
  ASSUME Renamed = {}
  PROVE  Spec => WiredSeen
<1>1. IInv /\ [Next]_vars => (wiredTo' # wiredTo => wiredTo' \subseteq job.seen)
  <2> SUFFICES ASSUME IInv, [Next]_vars, wiredTo' # wiredTo
               PROVE  wiredTo' \subseteq job.seen
    OBVIOUS
  <2>1. pc = "wire" /\ wiredTo' = {SecretName(r) : r \in job.refs}
    BY Bystanders DEF Wire
  <2>2. job.seen = {TargetName(r) : r \in job.refs}
    BY <2>1 DEF IInv, ResolveInv
  <2>3. \A r : TargetName(r) = SecretName(r)
    BY DEF TargetName
  <2> QED  BY <2>1, <2>2, <2>3
<1> QED  BY <1>1, Invariance, PTL DEF Spec, WiredSeen

(***************************************************************************)
(* R8.9, fail safe (the carry-over of status.secrets in the reconciler and *)
(* the conflict check of Status().Update): an established reference stays  *)
(* established while it is in the spec, for any order of outages, edits,   *)
(* conflicting writes and restarts.                                        *)
(***************************************************************************)
THEOREM EstablishedSticks == Spec => StickyEstablished
<1>1. IInv /\ [Next]_vars => \A r \in status.est \cap spec : r \in status'.est
  <2> SUFFICES ASSUME IInv, [Next]_vars, status'.est # status.est, NEW r \in status.est \cap spec
               PROVE  r \in status'.est
    OBVIOUS
  <2>1. status' = job.st /\ ~dirty /\ pc # "idle"
    BY Bystanders DEF Write
  <2> QED  BY <2>1 DEF IInv, StickyInv
<1> QED  BY <1>1, Invariance, PTL DEF Spec, StickyEstablished

(***************************************************************************)
(* The converse of the stickiness: marks are only ever gained all at once, *)
(* by the status write of a reconcile for which every reference resolved.  *)
(* A reference awaiting its first resolution is never served as "last      *)
(* good" (Evaluate's AwaitingFirstResolution before DegradedServingLastGood).*)
(***************************************************************************)
MarksEarned ==
  [][ \/ status'.est \subseteq status.est
      \/ status'.est = job.refs /\ job.ready = job.refs /\ job.refs = spec ]_vars

THEOREM MarksOnlyEarned == Spec => MarksEarned
<1>1. IInv /\ [Next]_vars
        => \/ status'.est \subseteq status.est
           \/ status'.est = job.refs /\ job.ready = job.refs /\ job.refs = spec
  <2> SUFFICES ASSUME IInv, [Next]_vars, status'.est # status.est
               PROVE  \/ status'.est \subseteq status.est
                      \/ status'.est = job.refs /\ job.ready = job.refs /\ job.refs = spec
    OBVIOUS
  <2>1. status' = job.st /\ ~dirty /\ pc # "idle"
    BY Bystanders DEF Write
  <2> QED  BY <2>1 DEF IInv, StickyInv, EarnedInv
<1> QED  BY <1>1, Invariance, PTL DEF Spec, MarksEarned
==============================================================================
