--------------------------- MODULE ServicesProofs ---------------------------
(***************************************************************************)
(* The supervisor's promises about its table of children, and the promise  *)
(* that every committed state of the database is a whole one, with the     *)
(* refinement of Schema. The two services have no state in common.         *)
(***************************************************************************)
EXTENDS Supervisor, Migrations, SequenceTheorems, TLAPS

Phase == Outcome \cup {"looksUp", "spawns", "records", "queries"}

SupervisorTypeOK ==
  /\ started \in Seq(App) /\ exited \subseteq Process
  /\ children \in [App -> Nat]
  /\ recorded \subseteq Process /\ unwaited \subseteq Nat
  /\ phase \in [Caller -> Phase] /\ want \in [Caller -> App \cup {NoApp}]
  /\ child \in [Caller -> Nat] /\ answer \in [Caller -> SUBSET recorded]
  /\ view \in Seq(SUBSET recorded) /\ Len(view) = Len(started)
  /\ look \in [Caller -> SUBSET recorded] /\ gone \in [Caller -> SUBSET recorded]

(* The table holds processes that were recorded, each for what it runs.     *)
TableAgrees ==
  \A a \in App : children[a] # 0 => children[a] \in recorded /\ started[children[a]] = a

(* Why a process that runs may be missing from the table. *)
Excused(i) ==
  \/ i \in unwaited
  \/ \E j \in recorded : started[j] = started[i] /\ j # i /\ i \notin view[j]

(* What a caller knows of the table between two of its turns at the mutex:  *)
(* the child it spawned is no other's and not recorded; what it saw recorded*)
(* when it found no child of its application has exited or is excused; and  *)
(* the processes it saw exited are not back in the table.                   *)
CallAgrees(t) ==
  /\ phase[t] \in {"looksUp", "spawns", "records"} => want[t] \in App
  /\ phase[t] = "records" =>
       /\ child[t] \in Process \ recorded
       /\ started[child[t]] = want[t] /\ view[child[t]] = look[t]
  /\ phase[t] \in {"spawns", "records"} =>
       \A i \in look[t] : started[i] = want[t] => i \in exited \/ Excused(i)
  /\ phase[t] \in {"looksUp", "queries"} => \A a \in App : children[a] \notin gone[t]
OwnChild ==
  \A t, u \in Caller :
    phase[t] = "records" /\ phase[u] = "records" /\ child[t] = child[u] => t = u

SInv ==
  /\ SupervisorTypeOK /\ TableAgrees /\ OwnChild
  /\ \A t \in Caller : CallAgrees(t)
  /\ LostOnlyToOverlap /\ ReportsAreCurrent

-----------------------------------------------------------------------------
(* A recorded process that runs is in the table, or is excused. *)
LEMMA MissingIsExcused ==
  LostOnlyToOverlap <=>
    \A i \in recorded : i \in Process /\ i \notin exited /\ children[started[i]] # i => Excused(i)
BY DEF LostOnlyToOverlap, Excused, Live

(* What an excuse rests on never goes away. *)
LEMMA ExcusesLast ==
  ASSUME SupervisorTypeOK, NEW i \in recorded, Excused(i),
         recorded \subseteq recorded', unwaited \subseteq unwaited',
         \A j \in Process : started'[j] = started[j] /\ view'[j] = view[j]
  PROVE  Excused(i)'
BY DEF SupervisorTypeOK, Excused

(* Processes are numbered from 1. *)
LEMMA ProcessNumbers ==
  ASSUME SupervisorTypeOK
  PROVE  Process = 1 .. Len(started) /\ Len(started) \in Nat /\ 0 \notin Process
BY DEF SupervisorTypeOK, Process

(* A caller that takes no part in a step stays in agreement with what it    *)
(* leaves alone.                                                            *)
LEMMA BystanderAgrees ==
  ASSUME SupervisorTypeOK, NEW t \in Caller, CallAgrees(t),
         phase'[t] = phase[t], want'[t] = want[t], child'[t] = child[t],
         look'[t] = look[t], gone'[t] = gone[t],
         recorded \subseteq recorded', unwaited \subseteq unwaited', exited \subseteq exited',
         Process \subseteq Process',
         \A j \in Process : started'[j] = started[j] /\ view'[j] = view[j],
         phase[t] = "records" => child[t] \notin recorded',
         \A a \in App : children'[a] = children[a] \/ children'[a] \notin gone[t]
  PROVE  CallAgrees(t)'
<1>1. look[t] \subseteq recorded /\ recorded \subseteq Process
  BY DEF SupervisorTypeOK
<1>2. \A i \in look[t] : Excused(i) => Excused(i)'
  BY <1>1, ExcusesLast
<1>3. phase[t] \in {"spawns", "records"} =>
        \A i \in look[t] : started'[i] = want[t] => i \in exited' \/ Excused(i)'
  BY <1>1, <1>2 DEF CallAgrees
<1>4. phase[t] = "records" =>
        /\ child[t] \in Process' \ recorded'
        /\ started'[child[t]] = want[t] /\ view'[child[t]] = look[t]
  BY DEF CallAgrees
<1>5. phase[t] \in {"looksUp", "queries"} => \A a \in App : children'[a] \notin gone[t]
  BY DEF CallAgrees
<1>6. phase[t] \in {"looksUp", "spawns", "records"} => want[t] \in App
  BY DEF CallAgrees
<1>. QED
  BY <1>3, <1>4, <1>5, <1>6 DEF CallAgrees

-----------------------------------------------------------------------------
(* Each step keeps the invariant. *)

LEMMA ReapKeeps ==
  ASSUME SInv, NEW t \in Caller, NEW next \in {"looksUp", "queries"}, Reap(t, next),
         NEW w \in App \cup {NoApp}, want' = [want EXCEPT ![t] = w], next = "looksUp" => w \in App
  PROVE  SInv'
<1>. USE DEF SInv
<1>1. PICK e \in SUBSET {children[a] : a \in App} :
        /\ 0 \notin e /\ children' = Reaped(e) /\ unwaited' = unwaited \cup e
  BY DEF Reap
<1>2. /\ started' = started /\ exited' = exited /\ recorded' = recorded /\ child' = child
      /\ view' = view /\ look' = look
      /\ phase' = [phase EXCEPT ![t] = next]
      /\ gone' = [gone EXCEPT ![t] = exited \cap recorded]
      /\ answer' = [answer EXCEPT ![t] = {}]
      /\ phase[t] \in Outcome
  BY DEF Reap
<1>3. \A a \in App : children'[a] = IF children[a] \in exited \cup e THEN 0 ELSE children[a]
  BY <1>1 DEF Reaped
<1>4. SupervisorTypeOK'
  <2>1. children' \in [App -> Nat] /\ e \subseteq Nat
    BY <1>1 DEF SupervisorTypeOK, Reaped
  <2>. QED
    BY <1>1, <1>2, <2>1 DEF SupervisorTypeOK, Phase, Outcome, Process
<1>5. 0 \notin Process /\ Process' = Process /\ recorded \subseteq Process
  BY <1>2, ProcessNumbers DEF SupervisorTypeOK, Process
<1>6. TableAgrees'
  BY <1>2, <1>3 DEF TableAgrees
<1>7. OwnChild'
  BY <1>2 DEF OwnChild, SupervisorTypeOK, Outcome
<1>8. ASSUME NEW u \in Caller \ {t}
      PROVE  CallAgrees(u)'
  <2>1. \A a \in App : children'[a] = children[a] \/ children'[a] \notin gone[u]
    BY <1>3, <1>5 DEF SupervisorTypeOK
  <2>2. phase[u] = "records" => child[u] \notin recorded'
    BY <1>2 DEF CallAgrees
  <2>3. /\ phase'[u] = phase[u] /\ want'[u] = want[u] /\ child'[u] = child[u]
        /\ look'[u] = look[u] /\ gone'[u] = gone[u]
    BY <1>2 DEF SupervisorTypeOK
  <2>. QED
    BY <1>1, <1>2, <1>5, <2>1, <2>2, <2>3, BystanderAgrees
<1>9. CallAgrees(t)'
  <2>1. phase'[t] = next /\ want'[t] = w /\ gone'[t] = exited \cap recorded
    BY <1>2 DEF SupervisorTypeOK
  <2>2. \A a \in App : children'[a] \notin exited \cap recorded
    BY <1>3, <1>5
  <2>. QED
    BY <2>1, <2>2 DEF CallAgrees
<1>10. LostOnlyToOverlap'
  <2> SUFFICES ASSUME NEW i \in recorded, i \notin exited, children'[started[i]] # i
               PROVE  Excused(i)'
    BY <1>2, <1>5 DEF LostOnlyToOverlap, Excused, Live
  <2>1. started[i] \in App /\ i \in Process
    BY <1>5 DEF SupervisorTypeOK, Process
  <2>2. CASE children[started[i]] = i
    BY <1>1, <1>3, <2>1, <2>2 DEF Excused
  <2>3. CASE children[started[i]] # i
    <3>1. Excused(i)
      BY <2>1, <2>3, MissingIsExcused
    <3>. QED
      BY <1>1, <1>2, <3>1 DEF Excused
  <2>. QED
    BY <2>2, <2>3
<1>11. ReportsAreCurrent'
  <2> SUFFICES ASSUME NEW u \in Caller
               PROVE  /\ \A i, j \in answer'[u] :
                           i \notin gone'[u] /\ (started'[i] = started'[j] => i = j)
                      /\ phase'[u] = "alreadyRunning" =>
                           \E i \in Process' : started'[i] = want'[u] /\ i \notin gone'[u]
    BY DEF ReportsAreCurrent
  <2>1. CASE u = t
    BY <1>2, <2>1 DEF SupervisorTypeOK
  <2>2. CASE u # t
    <3>1. /\ phase'[u] = phase[u] /\ want'[u] = want[u] /\ answer'[u] = answer[u]
          /\ gone'[u] = gone[u]
      BY <1>2, <2>2 DEF SupervisorTypeOK
    <3>. QED
      BY <1>2, <1>5, <3>1 DEF ReportsAreCurrent
  <2>. QED
    BY <2>1, <2>2
<1>. QED
  BY <1>4, <1>6, <1>7, <1>8, <1>9, <1>10, <1>11

(* A step that only moves its caller on.                                    *)
LEMMA TurnKeeps ==
  ASSUME SInv, NEW t \in Caller, NEW next \in Phase, phase' = [phase EXCEPT ![t] = next],
         next # "records", CallAgrees(t)',
         next = "alreadyRunning" => \E i \in Process : started[i] = want[t] /\ i \notin gone[t],
         look' = look \/ look' = [look EXCEPT ![t] = recorded],
         answer' = answer \/ answer' = [answer EXCEPT ![t] = {children[a] : a \in App} \ {0}],
         answer' = answer \/ \A a \in App : children[a] \notin gone[t],
         UNCHANGED <<started, exited, table, want, child, view, gone>>
  PROVE  SInv'
<1>. USE DEF SInv, table
<1>1. /\ Process' = Process /\ 0 \notin Process /\ recorded \subseteq Process
  BY ProcessNumbers DEF Process, SupervisorTypeOK
<1>2. {children[a] : a \in App} \ {0} \subseteq recorded
  BY DEF TableAgrees
<1>3. SupervisorTypeOK'
  BY <1>1, <1>2 DEF SupervisorTypeOK
<1>4. TableAgrees' /\ OwnChild'
  BY DEF TableAgrees, OwnChild, SupervisorTypeOK
<1>5. ASSUME NEW u \in Caller \ {t}
      PROVE  CallAgrees(u)'
  <2>1. /\ phase'[u] = phase[u] /\ want'[u] = want[u] /\ child'[u] = child[u]
        /\ look'[u] = look[u] /\ gone'[u] = gone[u]
    BY DEF SupervisorTypeOK
  <2>2. phase[u] = "records" => child[u] \notin recorded'
    BY DEF CallAgrees
  <2>. QED
    BY <1>1, <2>1, <2>2, BystanderAgrees
<1>6. LostOnlyToOverlap'
  BY <1>1 DEF LostOnlyToOverlap, Live
<1>7. ReportsAreCurrent'
  <2> SUFFICES ASSUME NEW u \in Caller
               PROVE  /\ \A i, j \in answer'[u] :
                           i \notin gone[u] /\ (started[i] = started[j] => i = j)
                      /\ phase'[u] = "alreadyRunning" =>
                           \E i \in Process : started[i] = want[u] /\ i \notin gone[u]
    BY <1>1 DEF ReportsAreCurrent
  <2>1. phase'[u] = "alreadyRunning" =>
          \E i \in Process : started[i] = want[u] /\ i \notin gone[u]
    BY DEF ReportsAreCurrent, SupervisorTypeOK
  <2>2. CASE answer'[u] = answer[u]
    BY <2>1, <2>2 DEF ReportsAreCurrent
  <2>3. CASE answer'[u] # answer[u]
    <3>1. u = t /\ answer'[u] = {children[a] : a \in App} \ {0}
      BY <2>3 DEF SupervisorTypeOK
    <3>2. \A a \in App : children[a] \notin gone[t]
      BY <2>3
    <3>. QED
      BY <2>1, <3>1, <3>2 DEF TableAgrees
  <2>. QED
    BY <2>2, <2>3
<1>. QED
  BY <1>3, <1>4, <1>5, <1>6, <1>7

LEMMA LookUpKeeps ==
  ASSUME SInv, NEW t \in Caller, LookUp(t)
  PROVE  SInv'
<1>. USE DEF SInv, table
<1>1. /\ phase[t] = "looksUp" /\ want[t] \in App /\ \A a \in App : children[a] \notin gone[t]
      /\ look'[t] = recorded /\ want'[t] = want[t] /\ gone'[t] = gone[t]
  BY DEF LookUp, CallAgrees, SupervisorTypeOK
<1>2. CASE children[want[t]] # 0
  <2>1. phase' = [phase EXCEPT ![t] = "alreadyRunning"] /\ phase'[t] = "alreadyRunning"
    BY <1>2 DEF LookUp, ContainsKey, SupervisorTypeOK
  <2>2. \E i \in Process : started[i] = want[t] /\ i \notin gone[t]
    BY <1>1, <1>2 DEF TableAgrees, SupervisorTypeOK
  <2>3. CallAgrees(t)'
    BY <2>1 DEF CallAgrees
  <2>. QED
    BY <2>1, <2>2, <2>3, TurnKeeps DEF LookUp, Phase, Outcome
<1>3. CASE children[want[t]] = 0
  <2>1. phase' = [phase EXCEPT ![t] = "spawns"] /\ phase'[t] = "spawns"
    BY <1>3 DEF LookUp, ContainsKey, SupervisorTypeOK
  <2>2. ASSUME NEW i \in recorded, started[i] = want[t], i \notin exited
        PROVE  Excused(i)
    BY <1>3, <2>2, MissingIsExcused, ProcessNumbers DEF SupervisorTypeOK
  <2>3. \A i \in recorded : Excused(i)' <=> Excused(i)
    BY DEF LookUp, Excused
  <2>4. CallAgrees(t)'
    BY <1>1, <2>1, <2>2, <2>3 DEF CallAgrees, LookUp
  <2>. QED
    BY <2>1, <2>4, TurnKeeps DEF LookUp, Phase
<1>. QED
  BY <1>2, <1>3

LEMMA RefusalKeeps ==
  ASSUME SInv, NEW t \in Caller, NotFound(t) \/ SpawnFails(t)
  PROVE  SInv'
<1>1. PICK next \in {"notFound", "spawnFailed"} : phase' = [phase EXCEPT ![t] = next]
  BY DEF NotFound, SpawnFails
<1>2. CallAgrees(t)'
  BY <1>1 DEF SInv, SupervisorTypeOK, CallAgrees
<1>3. UNCHANGED <<started, exited, table, want, child, view, gone>> /\ look' = look /\ answer' = answer
  BY DEF NotFound, SpawnFails, ghost
<1>. QED
  BY <1>1, <1>2, <1>3, TurnKeeps DEF Phase, Outcome

LEMMA ReportKeeps ==
  ASSUME SInv, NEW t \in Caller, Report(t)
  PROVE  SInv'
<1>1. CallAgrees(t)'
  BY DEF Report, SInv, SupervisorTypeOK, CallAgrees
<1>2. \A a \in App : children[a] \notin gone[t]
  BY DEF Report, SInv, CallAgrees
<1>3. UNCHANGED <<started, exited, table, want, child, view, gone>> /\ look' = look
  BY DEF Report, ghost
<1>. QED
  BY <1>1, <1>2, <1>3, TurnKeeps DEF Report, Phase, Outcome

LEMMA SpawnKeeps ==
  ASSUME SInv, NEW t \in Caller, Spawn(t)
  PROVE  SInv'
<1>. USE DEF SInv, table
<1>1. /\ phase[t] = "spawns" /\ started' = Append(started, want[t]) /\ view' = Append(view, look[t])
      /\ child' = [child EXCEPT ![t] = Len(started) + 1]
      /\ phase' = [phase EXCEPT ![t] = "records"]
      /\ exited' = exited /\ children' = children /\ recorded' = recorded /\ unwaited' = unwaited
      /\ want' = want /\ answer' = answer /\ look' = look /\ gone' = gone
  BY DEF Spawn
<1>2. want[t] \in App /\ look[t] \in SUBSET recorded
  BY <1>1 DEF CallAgrees, SupervisorTypeOK
<1>3. /\ Process = 1 .. Len(started) /\ Len(started) \in Nat
      /\ Process' = 1 .. Len(started) + 1 /\ Len(started') = Len(started) + 1
      /\ started'[Len(started) + 1] = want[t]
      /\ \A j \in Process : started'[j] = started[j]
      /\ started' \in Seq(App)
  BY <1>1, <1>2 DEF SupervisorTypeOK, Process
<1>4. /\ view' \in Seq(SUBSET recorded) /\ Len(view') = Len(started) + 1
      /\ view'[Len(started) + 1] = look[t]
      /\ \A j \in Process : view'[j] = view[j]
  BY <1>1, <1>2, <1>3 DEF SupervisorTypeOK
<1>5. recorded \subseteq Process /\ exited \subseteq Process
  BY DEF SupervisorTypeOK
<1>6. SupervisorTypeOK'
  <2>1. phase' \in [Caller -> Phase] /\ child' \in [Caller -> Nat]
    BY <1>1, <1>3 DEF SupervisorTypeOK, Phase
  <2>2. exited' \subseteq Process' /\ recorded' \subseteq Process'
    BY <1>1, <1>3, <1>5
  <2>. QED
    BY <1>1, <1>3, <1>4, <2>1, <2>2 DEF SupervisorTypeOK
<1>7. TableAgrees'
  BY <1>1, <1>3, <1>5 DEF TableAgrees
<1>8. \A u \in Caller \ {t} : phase'[u] = phase[u] /\ child'[u] = child[u]
  BY <1>1 DEF SupervisorTypeOK
<1>9. phase'[t] = "records" /\ child'[t] = Len(started) + 1
  BY <1>1 DEF SupervisorTypeOK
<1>10. \A u \in Caller : phase[u] = "records" => child[u] \in Process \ recorded
  BY DEF CallAgrees
<1>11. OwnChild'
  BY <1>3, <1>8, <1>9, <1>10 DEF OwnChild
<1>12. \A i \in recorded : Excused(i) => Excused(i)'
  BY <1>1, <1>3, <1>4, ExcusesLast
<1>13. ASSUME NEW u \in Caller \ {t}
       PROVE  CallAgrees(u)'
  BY <1>1, <1>3, <1>4, <1>8, <1>10, BystanderAgrees
<1>14. CallAgrees(t)'
  <2>1. \A i \in look[t] : started[i] = want[t] => i \in exited \/ Excused(i)
    BY <1>1 DEF CallAgrees
  <2>2. \A i \in look[t] : started'[i] = want[t] => i \in exited \/ Excused(i)'
    BY <1>2, <1>3, <1>5, <1>12, <2>1
  <2>3. Len(started) + 1 \in Process' \ recorded
    BY <1>3, <1>5
  <2>. QED
    BY <1>1, <1>2, <1>3, <1>4, <1>9, <2>2, <2>3 DEF CallAgrees
<1>15. LostOnlyToOverlap'
  <2>1. ASSUME NEW i \in recorded, i \notin exited, children[started'[i]] # i
        PROVE  Excused(i)'
    <3>1. started'[i] = started[i]
      BY <1>3, <1>5
    <3>. QED
      BY <1>5, <1>12, <2>1, <3>1, MissingIsExcused
  <2>2. \A i \in recorded' : i \notin exited' /\ children'[started'[i]] # i => Excused(i)'
    BY <1>1, <2>1
  <2>. QED
    BY <2>2 DEF LostOnlyToOverlap, Excused, Live
<1>16. ReportsAreCurrent'
  <2>1. ASSUME NEW u \in Caller
        PROVE  /\ \A i, j \in answer[u] :
                    i \notin gone[u] /\ (started'[i] = started'[j] => i = j)
               /\ phase'[u] = "alreadyRunning" =>
                    \E i \in Process' : started'[i] = want[u] /\ i \notin gone[u]
    <3>1. answer[u] \subseteq Process
      BY <1>5 DEF SupervisorTypeOK
    <3>2. Process \subseteq Process'
      BY <1>3
    <3>3. phase'[u] = "alreadyRunning" => phase[u] = "alreadyRunning"
      BY <1>8, <1>9
    <3>. QED
      BY <1>3, <3>1, <3>2, <3>3 DEF ReportsAreCurrent
  <2>2. answer' = answer /\ gone' = gone /\ want' = want
    BY <1>1
  <2>. QED
    BY <2>1, <2>2 DEF ReportsAreCurrent
<1>. QED
  BY <1>6, <1>7, <1>11, <1>13, <1>14, <1>15, <1>16

LEMMA TrackKeeps ==
  ASSUME SInv, NEW t \in Caller, Track(t)
  PROVE  SInv'
<1>. USE DEF SInv, table
<1>1. /\ phase[t] = "records"
      /\ children' = [children EXCEPT ![want[t]] = child[t]]
      /\ recorded' = recorded \cup {child[t]}
      /\ child' = [child EXCEPT ![t] = 0] /\ phase' = [phase EXCEPT ![t] = "ok"]
      /\ started' = started /\ exited' = exited /\ unwaited' = unwaited
      /\ want' = want /\ answer' = answer /\ view' = view /\ look' = look /\ gone' = gone
  BY DEF Track, ghost
<1>2. /\ want[t] \in App /\ child[t] \in Process \ recorded /\ child[t] # 0
      /\ started[child[t]] = want[t] /\ view[child[t]] = look[t]
      /\ \A i \in look[t] : started[i] = want[t] => i \in exited \/ Excused(i)
  BY <1>1, ProcessNumbers DEF CallAgrees
<1>3. /\ recorded \subseteq Process /\ exited \subseteq Process /\ Process' = Process
      /\ recorded \subseteq recorded'
  BY <1>1 DEF SupervisorTypeOK, Process
<1>4. \A a \in App : children'[a] = IF a = want[t] THEN child[t] ELSE children[a]
  BY <1>1, <1>2 DEF SupervisorTypeOK
<1>5. SupervisorTypeOK'
  <2>1. child[t] \in Nat
    BY DEF SupervisorTypeOK
  <2>2. children' \in [App -> Nat] /\ child' \in [Caller -> Nat] /\ phase' \in [Caller -> Phase]
    BY <1>1, <2>1 DEF SupervisorTypeOK, Phase, Outcome
  <2>3. recorded' \subseteq Process'
    BY <1>1, <1>2, <1>3
  <2>4. view \in Seq(SUBSET recorded')
    <3>1. SUBSET recorded \subseteq SUBSET recorded'
      BY <1>3
    <3>. QED
      BY <3>1 DEF SupervisorTypeOK
  <2>. QED
    BY <1>1, <1>3, <2>2, <2>3, <2>4 DEF SupervisorTypeOK
<1>6. TableAgrees'
  BY <1>1, <1>2, <1>4 DEF TableAgrees
<1>7. /\ phase'[t] = "ok"
      /\ \A u \in Caller \ {t} : phase'[u] = phase[u] /\ child'[u] = child[u]
  BY <1>1 DEF SupervisorTypeOK
<1>8. OwnChild'
  BY <1>7 DEF OwnChild
<1>9. \A i \in recorded : Excused(i) => Excused(i)'
  BY <1>1, <1>3, ExcusesLast
<1>10. ASSUME NEW u \in Caller \ {t}
       PROVE  CallAgrees(u)'
  <2>1. phase[u] = "records" => child[u] \notin recorded'
    BY <1>1 DEF CallAgrees, OwnChild
  <2>2. \A a \in App : children'[a] = children[a] \/ children'[a] \notin gone[u]
    BY <1>2, <1>4 DEF SupervisorTypeOK
  <2>. QED
    BY <1>1, <1>3, <1>7, <2>1, <2>2, BystanderAgrees
<1>11. CallAgrees(t)'
  BY <1>7 DEF CallAgrees
<1>12. LostOnlyToOverlap'
  <2> SUFFICES ASSUME NEW i \in recorded', i \notin exited, children'[started[i]] # i
               PROVE  Excused(i)'
    BY <1>1, <1>3 DEF LostOnlyToOverlap, Excused, Live
  <2>1. i # child[t] /\ i \in recorded
    BY <1>1, <1>2, <1>4
  <2>2. started[i] \in App
    BY <1>3, <2>1, ProcessNumbers DEF SupervisorTypeOK
  <2>3. CASE children[started[i]] # i
    BY <1>3, <1>9, <2>1, <2>3, MissingIsExcused
  <2>4. CASE children[started[i]] = i
    <3>1. started[i] = want[t]
      BY <1>4, <2>2, <2>4
    <3>2. CASE i \in look[t]
      BY <1>2, <1>9, <2>1, <3>1, <3>2
    <3>3. CASE i \notin look[t]
      BY <1>1, <1>2, <2>1, <3>1, <3>3 DEF Excused
    <3>. QED
      BY <3>2, <3>3
  <2>. QED
    BY <2>3, <2>4
<1>13. ReportsAreCurrent'
  <2>1. \A u \in Caller : phase'[u] = "alreadyRunning" => phase[u] = "alreadyRunning"
    BY <1>7
  <2>. QED
    BY <1>1, <1>3, <2>1 DEF ReportsAreCurrent
<1>. QED
  BY <1>5, <1>6, <1>8, <1>10, <1>11, <1>12, <1>13

LEMMA ProcessExitsKeeps ==
  ASSUME SInv, NEW i \in Process, ProcessExits(i)
  PROVE  SInv'
<1>. USE DEF SInv, table, call, ghost
<1>1. /\ exited' = exited \cup {i} /\ started' = started /\ children' = children
      /\ recorded' = recorded /\ unwaited' = unwaited /\ phase' = phase /\ want' = want
      /\ child' = child /\ answer' = answer /\ view' = view /\ look' = look /\ gone' = gone
  BY DEF ProcessExits
<1>2. Process' = Process
  BY <1>1 DEF Process
<1>3. SupervisorTypeOK' /\ TableAgrees' /\ OwnChild'
  BY <1>1, <1>2 DEF SupervisorTypeOK, TableAgrees, OwnChild
<1>4. ASSUME NEW u \in Caller
      PROVE  CallAgrees(u)'
  <2>1. phase[u] = "records" => child[u] \notin recorded'
    BY <1>1 DEF CallAgrees
  <2>. QED
    BY <1>1, <1>2, <2>1, BystanderAgrees
<1>5. LostOnlyToOverlap' /\ ReportsAreCurrent'
  BY <1>1, <1>2 DEF LostOnlyToOverlap, ReportsAreCurrent, Live
<1>. QED
  BY <1>3, <1>4, <1>5

LEMMA SupervisorInvariant == SupervisorSpec => []SInv
<1>1. SupervisorInit => SInv
  <2> SUFFICES ASSUME SupervisorInit PROVE SInv
    OBVIOUS
  <2>1. Process = {}
    BY DEF SupervisorInit, Process
  <2>2. SupervisorTypeOK /\ TableAgrees
    BY <2>1 DEF SupervisorInit, SupervisorTypeOK, TableAgrees, Phase, Outcome
  <2>3. OwnChild /\ \A t \in Caller : CallAgrees(t)
    BY DEF SupervisorInit, OwnChild, CallAgrees
  <2>4. LostOnlyToOverlap /\ ReportsAreCurrent
    BY DEF SupervisorInit, LostOnlyToOverlap, ReportsAreCurrent
  <2>. QED
    BY <2>2, <2>3, <2>4 DEF SInv
<1>2. SInv /\ [SupervisorNext]_supervisor => SInv'
  <2> SUFFICES ASSUME SInv, [SupervisorNext]_supervisor PROVE SInv'
    OBVIOUS
  <2>1. ASSUME NEW t \in Caller, NEW a \in App, Launch(t, a)
        PROVE  SInv'
    BY <2>1, ReapKeeps DEF Launch
  <2>2. ASSUME NEW t \in Caller, Ask(t)
        PROVE  SInv'
    BY <2>2, ReapKeeps DEF Ask
  <2>3. ASSUME NEW t \in Caller,
               \/ LookUp(t) \/ NotFound(t) \/ SpawnFails(t) \/ Spawn(t) \/ Track(t) \/ Report(t)
        PROVE  SInv'
    BY <2>3, LookUpKeeps, RefusalKeeps, SpawnKeeps, TrackKeeps, ReportKeeps
  <2>4. ASSUME NEW i \in Process, ProcessExits(i)
        PROVE  SInv'
    BY <2>4, ProcessExitsKeeps
  <2>5. CASE UNCHANGED supervisor
    BY <2>5 DEF supervisor, table, call, ghost, SInv, SupervisorTypeOK, TableAgrees, OwnChild,
       CallAgrees, Excused, LostOnlyToOverlap, ReportsAreCurrent, Live, Process
  <2>. QED
    BY <2>1, <2>2, <2>3, <2>4, <2>5 DEF SupervisorNext, CallerStep
<1>. QED
  BY <1>1, <1>2, PTL DEF SupervisorSpec

(* A running process drops out of the table only because try_wait failed on *)
(* it, or because another launch of its application had looked the table up *)
(* before it was recorded.                                                  *)
THEOREM OnlyOverlapLosesChildren == SupervisorSpec => []LostOnlyToOverlap
BY SupervisorInvariant, PTL DEF SInv

(* Neither running nor AlreadyRunning is about a process that had been      *)
(* recorded and had exited when the call began, and running reports at most *)
(* one process of an application.                                           *)
THEOREM AnswersAreCurrent == SupervisorSpec => []ReportsAreCurrent
BY SupervisorInvariant, PTL DEF SInv
-----------------------------------------------------------------------------
(* There is a longest build, and no other is longer.                        *)
LEMMA LongestBuild ==
  /\ Longest \in Nat
  /\ \A p \in Proc : Build[p] \in Seq(Sql) /\ Len(Build[p]) \in Nat /\ Len(Build[p]) <= Longest
<1>1. PICK p \in Proc : \A q \in Proc : Len(Build[q]) <= Len(Build[p])
  BY MigrationsAssumption
<1>2. \A q \in Proc : Build[q] \in Seq(Sql) /\ Len(Build[q]) \in Nat
  BY MigrationsAssumption
<1>3. Len(Build[p]) \in {Len(Build[q]) : q \in Proc}
  OBVIOUS
<1>4. /\ Longest \in {Len(Build[q]) : q \in Proc}
      /\ \A q \in Proc : Len(Build[q]) <= Longest
  BY <1>1, <1>3 DEF Longest
<1>. QED
  BY <1>2, <1>4

-----------------------------------------------------------------------------
(* The invariant. *)

Stage == {"out", "create", "select", "migrate", "insert", "commit", "failed", "in"}

MigrationsTypeOK ==
  /\ commits \in Seq(Db) /\ commits # <<>>
  /\ lock \in Proc \cup {NoProc} /\ work \in Db
  /\ pc \in [Proc -> Stage] /\ at \in [Proc -> Nat \ {0}]

(* The first k migrations and no others are in c, rows and tables alike.    *)
WholeAt(c, k) ==
  /\ c.tables = c.rows
  /\ \A v \in Version : c.rows[v] # NoSql <=> v <= k
EachWhole == \A i \in DOMAIN commits : \E k \in 0 .. Longest : WholeAt(commits[i], k)

(* No commit takes back or rewrites what an earlier one recorded.           *)
Growing ==
  \A i, j \in DOMAIN commits : i <= j =>
    \A v \in Version : commits[i].rows[v] # NoSql => commits[j].rows[v] = commits[i].rows[v]

(* The database holds what the loop of p has gone past, and the transaction *)
(* of the lock's holder has done to it what p's next statement tells.       *)
Holding(p) ==
  /\ pc[p] \in {"insert", "commit"} <=> lock = p
  /\ pc[p] \in {"select", "migrate", "insert", "commit"} =>
       \A u \in 1 .. at[p] - 1 : u <= Len(Build[p]) /\ db.rows[u] = Build[p][u]
  /\ pc[p] \in {"migrate", "insert", "commit"} => at[p] <= Len(Build[p])
  /\ pc[p] = "insert" => work.rows = db.rows
  /\ pc[p] = "commit" => work.rows = [db.rows EXCEPT ![at[p]] = Mine(p)]
  /\ pc[p] \in {"insert", "commit"} =>
       /\ db.rows[at[p]] = NoSql
       /\ work.tables = [db.tables EXCEPT ![at[p]] = Mine(p)]

IInv == MigrationsTypeOK /\ EachWhole /\ Growing /\ \A p \in Proc : Holding(p)

-----------------------------------------------------------------------------
(* The newest commit is one of them. *)
LEMMA Newest ==
  ASSUME MigrationsTypeOK
  PROVE  /\ Len(commits) \in Nat \ {0} /\ DOMAIN commits = 1 .. Len(commits)
         /\ db = commits[Len(commits)] /\ db \in Db
<1>1. commits \in Seq(Db) /\ Len(commits) \in Nat \ {0}
  BY DEF MigrationsTypeOK
<1>2. DOMAIN commits = 1 .. Len(commits) /\ \A i \in 1 .. Len(commits) : commits[i] \in Db
  BY <1>1
<1>3. db = commits[Len(commits)]
  BY DEF db, Last
<1>. QED
  BY <1>1, <1>2, <1>3

(* The version a process is at while it migrates is one of its build's.     *)
LEMMA OwnVersion ==
  ASSUME MigrationsTypeOK, NEW p \in Proc, at[p] <= Len(Build[p])
  PROVE  at[p] \in Version /\ at[p] \in 1 .. Len(Build[p]) /\ Mine(p) \in Sql /\ Mine(p) # NoSql
<1>1. at[p] \in Nat \ {0}
  BY DEF MigrationsTypeOK
<1>2. Build[p][at[p]] \in Sql
  BY <1>1, LongestBuild
<1>. QED
  BY <1>1, <1>2, LongestBuild, MigrationsAssumption DEF Version, Mine

(* The database when p is about to commit: its own migration is the next.   *)
LEMMA CommitExtends ==
  ASSUME IInv, NEW p \in Proc, pc[p] = "commit"
  PROVE  /\ at[p] - 1 \in 0 .. Longest /\ WholeAt(db, at[p] - 1) /\ WholeAt(work, at[p])
         /\ \A v \in Version : db.rows[v] # NoSql => work.rows[v] = db.rows[v]
         /\ work.rows[at[p]] = Mine(p)
<1>1. /\ at[p] <= Len(Build[p])
      /\ \A u \in 1 .. at[p] - 1 : u <= Len(Build[p]) /\ db.rows[u] = Build[p][u]
      /\ work.rows = [db.rows EXCEPT ![at[p]] = Mine(p)]
      /\ work.tables = [db.tables EXCEPT ![at[p]] = Mine(p)]
      /\ db.rows[at[p]] = NoSql
  BY DEF IInv, Holding
<1>2. at[p] \in Version /\ at[p] \in Nat \ {0} /\ Mine(p) # NoSql
  BY <1>1, OwnVersion DEF IInv, MigrationsTypeOK
<1>3. PICK k \in 0 .. Longest : WholeAt(db, k)
  BY Newest DEF IInv, EachWhole
<1>4. Longest \in Nat /\ k \in Nat
  BY LongestBuild
<1>5. ~(at[p] <= k)
  BY <1>1, <1>2, <1>3 DEF WholeAt
<1>6. ASSUME k < at[p] - 1
      PROVE  FALSE
  <2>1. k + 1 \in Version /\ k + 1 \in 1 .. at[p] - 1
    BY <1>2, <1>4, <1>6 DEF Version
  <2>2. db.rows[k + 1] = Build[p][k + 1] /\ k + 1 <= Len(Build[p])
    BY <1>1, <2>1
  <2>3. Build[p][k + 1] \in Sql
    BY <1>4, <2>2, LongestBuild
  <2>4. db.rows[k + 1] # NoSql
    BY <2>2, <2>3, MigrationsAssumption
  <2>. QED
    BY <1>3, <1>4, <2>1, <2>4 DEF WholeAt
<1>7. k = at[p] - 1
  BY <1>2, <1>4, <1>5, <1>6
<1>8. db \in Db
  BY Newest DEF IInv
<1>9. \A v \in Version : work.rows[v] = IF v = at[p] THEN Mine(p) ELSE db.rows[v]
  BY <1>1, <1>8 DEF Db
<1>10. work.tables = work.rows
  BY <1>1, <1>3 DEF WholeAt
<1>11. \A v \in Version : work.rows[v] # NoSql <=> v <= at[p]
  <2> TAKE v \in Version
  <2>1. v \in Nat
    BY <1>4 DEF Version
  <2>. QED
    BY <1>2, <1>3, <1>7, <1>9, <2>1 DEF WholeAt
<1>. QED
  BY <1>1, <1>2, <1>3, <1>7, <1>9, <1>10, <1>11 DEF WholeAt

-----------------------------------------------------------------------------
(* What a step does to the commits: nothing; a commit is added, of whole    *)
(* migrations and all that is recorded; or the newest ones are lost.        *)
LEMMA AddedCommit ==
  ASSUME IInv, NEW c \in Db, commits' = Append(commits, c),
         NEW k \in 0 .. Longest, WholeAt(c, k),
         \A v \in Version : db.rows[v] # NoSql => c.rows[v] = db.rows[v]
  PROVE  /\ commits' \in Seq(Db) /\ commits' # <<>> /\ db' = c
         /\ EachWhole' /\ Growing'
<1>1. commits \in Seq(Db) /\ Len(commits) \in Nat \ {0} /\ DOMAIN commits = 1 .. Len(commits)
  BY Newest DEF IInv, MigrationsTypeOK
<1>2. /\ commits' \in Seq(Db) /\ Len(commits') = Len(commits) + 1
      /\ DOMAIN commits' = 1 .. Len(commits) + 1
      /\ commits'[Len(commits) + 1] = c
      /\ \A i \in DOMAIN commits : commits'[i] = commits[i]
  BY <1>1
<1>3. db' = c
  BY <1>2 DEF db, Last
<1>4. EachWhole'
  <2> SUFFICES ASSUME NEW i \in DOMAIN commits'
               PROVE  \E n \in 0 .. Longest : WholeAt(commits'[i], n)
    BY DEF EachWhole, WholeAt
  <2>1. CASE i \in DOMAIN commits
    BY <1>2, <2>1 DEF IInv, EachWhole
  <2>2. CASE i = Len(commits) + 1
    BY <1>2, <2>2
  <2>. QED
    BY <1>1, <1>2, <2>1, <2>2
<1>5. Growing'
  <2> SUFFICES ASSUME NEW i \in DOMAIN commits', NEW j \in DOMAIN commits', i <= j,
                      NEW v \in Version, commits'[i].rows[v] # NoSql
               PROVE  commits'[j].rows[v] = commits'[i].rows[v]
    BY DEF Growing
  <2>1. \A n \in DOMAIN commits : commits[n].rows[v] # NoSql => db.rows[v] = commits[n].rows[v]
    BY <1>1, Newest DEF IInv, Growing
  <2>2. CASE j \in DOMAIN commits
    BY <1>1, <1>2, <2>2 DEF IInv, Growing
  <2>3. CASE j = Len(commits) + 1 /\ i \in DOMAIN commits
    BY <1>2, <2>1, <2>3
  <2>4. CASE j = Len(commits) + 1 /\ i = Len(commits) + 1
    BY <2>4
  <2>. QED
    BY <1>1, <1>2, <2>2, <2>3, <2>4
<1>. QED
  BY <1>2, <1>3, <1>4, <1>5

LEMMA LostCommits ==
  ASSUME IInv, NEW n \in 1 .. Len(commits), commits' = SubSeq(commits, 1, n)
  PROVE  /\ commits' \in Seq(Db) /\ commits' # <<>> /\ db' = commits[n]
         /\ EachWhole' /\ Growing'
<1>1. commits \in Seq(Db) /\ Len(commits) \in Nat \ {0} /\ DOMAIN commits = 1 .. Len(commits)
  BY Newest DEF IInv, MigrationsTypeOK
<1>2. /\ commits' \in Seq(Db) /\ Len(commits') = n /\ DOMAIN commits' = 1 .. n
      /\ \A i \in 1 .. n : i \in DOMAIN commits /\ commits'[i] = commits[i]
  BY <1>1
<1>3. db' = commits[n]
  BY <1>2 DEF db, Last
<1>4. EachWhole'
  BY <1>2 DEF IInv, EachWhole, WholeAt
<1>5. Growing'
  BY <1>2 DEF IInv, Growing
<1>. QED
  BY <1>2, <1>3, <1>4, <1>5

(* A process that takes no part in a step still holds what it held. *)
LEMMA BystanderHolds ==
  ASSUME NEW q \in Proc, Holding(q), pc'[q] = pc[q], at'[q] = at[q],
         db'.rows = db.rows, db'.tables = db.tables,
         lock' = q <=> lock = q, lock = q => work' = work
  PROVE  Holding(q)'
BY DEF Holding, Mine

(* A process that is not migrating holds nothing. *)
LEMMA IdleHolds ==
  ASSUME NEW q \in Proc, pc'[q] \in {"out", "create", "failed", "in"}, lock' # q
  PROVE  Holding(q)'
BY DEF Holding

(* Every step but PowerLoss is one of a process p, and leaves the other     *)
(* processes, and the transaction of another, alone.                        *)
LEMMA OthersUntouched ==
  ASSUME IInv, NEW p \in Proc, ProcessStep(p), NEW q \in Proc \ {p}
  PROVE  /\ pc'[q] = pc[q] /\ at'[q] = at[q]
         /\ lock' = q <=> lock = q
         /\ lock = q => work' = work
<1>. USE DEF IInv, MigrationsTypeOK, Becomes
<1>1. CASE Open(p) \/ CreateHistory(p) \/ Skip(p) \/ Changed(p) \/ Unrecorded(p)
  BY <1>1 DEF Open, CreateHistory, Skip, Changed, Unrecorded
<1>2. CASE Migrate(p)
  BY <1>2, MigrationsAssumption DEF Migrate
<1>3. CASE MigrateFails(p) \/ Busy(p) \/ Finish(p)
  BY <1>3 DEF MigrateFails, Busy, Finish
<1>4. CASE Insert(p)
  <2>1. lock = p
    BY <1>4 DEF Insert, Holding
  <2>. QED
    BY <1>4, <2>1 DEF Insert
<1>5. CASE Commit(p) \/ StatementFails(p) \/ Exit(p)
  BY <1>5, MigrationsAssumption DEF Commit, StatementFails, Exit, Released
<1>. QED
  BY <1>1, <1>2, <1>3, <1>4, <1>5 DEF ProcessStep

(* A step of p that leaves the commits alone keeps the invariant if p holds *)
(* what it should afterwards.                                               *)
LEMMA SameCommits ==
  ASSUME IInv, MigrationsTypeOK', NEW p \in Proc, ProcessStep(p), commits' = commits, Holding(p)'
  PROVE  IInv'
<1>1. db' = db
  BY DEF db
<1>2. ASSUME NEW q \in Proc \ {p}
      PROVE  Holding(q)'
  <2>1. Holding(q)
    BY DEF IInv
  <2>. QED
    BY <1>1, <2>1, OthersUntouched, BystanderHolds
<1>3. EachWhole' /\ Growing'
  BY DEF IInv, EachWhole, WholeAt, Growing
<1>. QED
  BY <1>2, <1>3 DEF IInv

LEMMA CreateHistoryKeeps ==
  ASSUME IInv, NEW p \in Proc, CreateHistory(p)
  PROVE  IInv' /\ db'.rows = db.rows
<1>1. db \in Db /\ commits \in Seq(Db)
  BY Newest DEF IInv, MigrationsTypeOK
<1>2. \E c \in Db : /\ c.rows = db.rows /\ c.tables = db.tables
                    /\ commits' = commits \/ commits' = Append(commits, c)
  <2>1. [db EXCEPT !.history = TRUE] \in Db
    BY <1>1 DEF Db
  <2>2. /\ [db EXCEPT !.history = TRUE].rows = db.rows
        /\ [db EXCEPT !.history = TRUE].tables = db.tables
    BY <1>1 DEF Db
  <2>. QED
    BY <2>1, <2>2 DEF CreateHistory
<1>3. PICK c \in Db : /\ c.rows = db.rows /\ c.tables = db.tables
                      /\ commits' = commits \/ commits' = Append(commits, c)
  BY <1>2
<1>4. PICK k \in 0 .. Longest : WholeAt(db, k)
  BY Newest DEF IInv, EachWhole
<1>5. /\ commits' \in Seq(Db) /\ commits' # <<>>
      /\ db'.rows = db.rows /\ db'.tables = db.tables
      /\ EachWhole' /\ Growing'
  <2>1. CASE commits' = commits
    BY <2>1 DEF IInv, MigrationsTypeOK, EachWhole, WholeAt, Growing, db
  <2>2. CASE commits' = Append(commits, c)
    <3>1. WholeAt(c, k)
      BY <1>3, <1>4 DEF WholeAt
    <3>. QED
      BY <1>3, <2>2, <3>1, AddedCommit
  <2>. QED
    BY <1>3, <2>1, <2>2
<1>6. MigrationsTypeOK'
  BY <1>5 DEF IInv, MigrationsTypeOK, CreateHistory, Becomes, Stage
<1>7. Holding(p)'
  <2>1. lock' # p /\ pc'[p] = "select" /\ at'[p] = 1
    <3>1. Holding(p) /\ pc[p] = "create"
      BY DEF IInv, CreateHistory
    <3>2. lock # p
      BY <3>1 DEF Holding
    <3>. QED
      BY <3>2 DEF CreateHistory, Becomes, IInv, MigrationsTypeOK
  <2>. QED
    BY <2>1 DEF Holding
<1>8. ASSUME NEW q \in Proc \ {p}
      PROVE  Holding(q)'
  <2>1. Holding(q) /\ ProcessStep(p)
    BY DEF IInv, ProcessStep
  <2>. QED
    BY <1>5, <2>1, OthersUntouched, BystanderHolds
<1>. QED
  BY <1>5, <1>6, <1>7, <1>8 DEF IInv

LEMMA CommitKeeps ==
  ASSUME IInv, NEW p \in Proc, Commit(p)
  PROVE  IInv' /\ db' = work
<1>1. pc[p] = "commit" /\ commits' = Append(commits, work) /\ work \in Db
  BY DEF Commit, IInv, MigrationsTypeOK
<1>2. /\ at[p] - 1 \in 0 .. Longest /\ WholeAt(db, at[p] - 1) /\ WholeAt(work, at[p])
      /\ \A v \in Version : db.rows[v] # NoSql => work.rows[v] = db.rows[v]
      /\ work.rows[at[p]] = Mine(p)
  BY <1>1, CommitExtends
<1>3. lock = p /\ at[p] <= Len(Build[p]) /\ at[p] \in Nat \ {0}
  BY <1>1 DEF IInv, Holding, MigrationsTypeOK
<1>4. at[p] \in 0 .. Longest
  BY <1>3, LongestBuild
<1>5. /\ commits' \in Seq(Db) /\ commits' # <<>> /\ db' = work
      /\ EachWhole' /\ Growing'
  BY <1>1, <1>2, <1>4, AddedCommit
<1>6. EmptyDb \in Db
  BY DEF EmptyDb, NoRows, Db
<1>7. MigrationsTypeOK'
  <2>1. lock' \in Proc \cup {NoProc} /\ work' \in Db
    BY <1>3, <1>6 DEF Commit, Released
  <2>2. pc' \in [Proc -> Stage] /\ at' \in [Proc -> Nat \ {0}]
    BY DEF Commit, Becomes, Stage, IInv, MigrationsTypeOK
  <2>. QED
    BY <1>5, <2>1, <2>2 DEF MigrationsTypeOK
<1>8. ASSUME NEW q \in Proc, NEW u \in Nat \ {0}, u <= Len(Build[q]), db.rows[u] = Build[q][u]
      PROVE  work.rows[u] = Build[q][u]
  <2>1. Build[q][u] \in Sql /\ u \in Version
    BY <1>8, LongestBuild DEF Version
  <2>. QED
    BY <1>2, <1>8, <2>1, MigrationsAssumption
<1>9. Holding(p)'
  <2>1. lock' # p /\ pc'[p] = "select" /\ at'[p] = at[p] + 1
    BY <1>3, MigrationsAssumption DEF Commit, Becomes, Released, IInv, MigrationsTypeOK
  <2>2. \A u \in 1 .. at[p] - 1 : u <= Len(Build[p]) /\ db.rows[u] = Build[p][u]
    BY <1>1 DEF IInv, Holding
  <2>3. \A u \in 1 .. at[p] : u <= Len(Build[p]) /\ work.rows[u] = Build[p][u]
    BY <1>2, <1>3, <1>8, <2>2 DEF Mine
  <2>. QED
    BY <1>3, <1>5, <2>1, <2>3 DEF Holding
<1>10. ASSUME NEW q \in Proc \ {p}
       PROVE  Holding(q)'
  <2>1. Holding(q) /\ ProcessStep(p)
    BY DEF IInv, ProcessStep
  <2>2. pc'[q] = pc[q] /\ at'[q] = at[q] /\ (lock' = q <=> lock = q)
    BY <2>1, OthersUntouched
  <2>3. pc[q] \notin {"insert", "commit"} /\ lock # q
    BY <1>3, <2>1 DEF Holding
  <2>4. ASSUME pc[q] \in {"select", "migrate"}, NEW u \in 1 .. at[q] - 1
        PROVE  u <= Len(Build[q]) /\ work.rows[u] = Build[q][u]
    <3>1. u <= Len(Build[q]) /\ db.rows[u] = Build[q][u] /\ u \in Nat \ {0}
      BY <2>1, <2>4 DEF Holding
    <3>. QED
      BY <1>8, <3>1
  <2>. QED
    BY <1>5, <2>1, <2>2, <2>3, <2>4 DEF Holding
<1>. QED
  BY <1>5, <1>7, <1>9, <1>10 DEF IInv

LEMMA PowerLossKeeps ==
  ASSUME IInv, PowerLoss
  PROVE  /\ IInv'
         /\ \E k \in 0 .. Longest : WholeAt(db', k)
         /\ \A v \in Version : db'.rows[v] # NoSql => db.rows[v] = db'.rows[v]
<1>1. PICK n \in 1 .. Len(commits) : commits' = SubSeq(commits, 1, n)
  BY DEF PowerLoss
<1>2. /\ commits' \in Seq(Db) /\ commits' # <<>> /\ db' = commits[n]
      /\ EachWhole' /\ Growing'
  BY <1>1, LostCommits
<1>3. EmptyDb \in Db
  BY DEF EmptyDb, NoRows, Db
<1>4. MigrationsTypeOK' /\ \A p \in Proc : lock' # p /\ pc'[p] = "out"
  BY <1>2, <1>3, MigrationsAssumption DEF PowerLoss, MigrationsTypeOK, Stage
<1>5. \A p \in Proc : Holding(p)'
  BY <1>4, IdleHolds
<1>6. \A v \in Version : db'.rows[v] # NoSql => db.rows[v] = db'.rows[v]
  BY <1>2, Newest DEF IInv, Growing
<1>7. \E k \in 0 .. Longest : WholeAt(db', k)
  BY <1>2, Newest DEF IInv, EachWhole
<1>. QED
  BY <1>2, <1>4, <1>5, <1>6, <1>7 DEF IInv

LEMMA OtherStepsKeep ==
  ASSUME IInv, NEW p \in Proc, ProcessStep(p), ~CreateHistory(p), ~Commit(p)
  PROVE  IInv' /\ commits' = commits
<1>1. /\ Holding(p) /\ MigrationsTypeOK
      /\ EmptyDb \in Db
  BY DEF IInv, EmptyDb, NoRows, Db
<1>. USE DEF Becomes
<1>2. CASE Open(p)
  <2>1. MigrationsTypeOK' /\ commits' = commits
    BY <1>1, <1>2 DEF Open, MigrationsTypeOK, Stage
  <2>2. Holding(p)'
    BY <1>1, <1>2 DEF Open, MigrationsTypeOK, Holding
  <2>. QED
    BY <2>1, <2>2, SameCommits
<1>3. CASE Skip(p)
  <2>1. MigrationsTypeOK' /\ commits' = commits
    BY <1>1, <1>3 DEF Skip, MigrationsTypeOK
  <2>2. /\ at'[p] = at[p] + 1 /\ at[p] \in Nat \ {0} /\ pc'[p] = "select" /\ lock' = lock
        /\ lock # p /\ at[p] <= Len(Build[p]) /\ db.rows[at[p]] = Build[p][at[p]]
        /\ \A u \in 1 .. at[p] - 1 : u <= Len(Build[p]) /\ db.rows[u] = Build[p][u]
    BY <1>1, <1>3 DEF Skip, Matches, Mine, MigrationsTypeOK, Holding
  <2>3. db' = db
    BY <2>1 DEF db
  <2>4. \A u \in 1 .. at'[p] - 1 : u <= Len(Build[p]) /\ db'.rows[u] = Build[p][u]
    BY <2>2, <2>3
  <2>5. Holding(p)'
    BY <2>2, <2>4 DEF Holding
  <2>. QED
    BY <2>1, <2>5, SameCommits
<1>4. CASE Changed(p) \/ MigrateFails(p) \/ Busy(p) \/ Finish(p)
  <2>1. /\ commits' = commits /\ lock' = lock /\ work' = work /\ at' = at
        /\ pc[p] \in {"create", "select", "migrate"}
        /\ \E s \in {"failed", "in"} : pc' = [pc EXCEPT ![p] = s]
    BY <1>4 DEF Changed, MigrateFails, Busy, Finish
  <2>2. MigrationsTypeOK' /\ pc'[p] \in {"failed", "in"}
    BY <1>1, <2>1 DEF MigrationsTypeOK, Stage
  <2>3. lock' # p
    BY <1>1, <2>1 DEF Holding
  <2>. QED
    BY <2>1, <2>2, <2>3, IdleHolds, SameCommits
<1>5. CASE Unrecorded(p)
  <2>1. /\ commits' = commits /\ lock' = lock /\ work' = work /\ at' = at
        /\ pc[p] = "select" /\ pc' = [pc EXCEPT ![p] = "migrate"] /\ at[p] <= Len(Build[p])
    BY <1>5 DEF Unrecorded
  <2>2. MigrationsTypeOK'
    BY <1>1, <2>1 DEF MigrationsTypeOK, Stage
  <2>3. pc'[p] = "migrate" /\ db' = db
    BY <1>1, <2>1 DEF MigrationsTypeOK, db
  <2>4. Holding(p)'
    BY <1>1, <2>1, <2>3 DEF Holding
  <2>. QED
    BY <2>1, <2>2, <2>4, SameCommits
<1>6. CASE Migrate(p)
  <2>1. at[p] \in Version /\ Mine(p) \in Sql
    BY <1>1, <1>6, OwnVersion DEF Migrate, Holding
  <2>2. db \in Db
    BY <1>1, Newest
  <2>3. /\ work' \in Db /\ work'.rows = db.rows
        /\ work'.tables = [db.tables EXCEPT ![at[p]] = Mine(p)]
    BY <1>6, <2>1, <2>2 DEF Migrate, Db
  <2>4. /\ commits' = commits /\ lock' = p /\ at' = at
        /\ pc[p] = "migrate" /\ pc' = [pc EXCEPT ![p] = "insert"]
        /\ db.tables[at[p]] = NoSql
    BY <1>6 DEF Migrate, Applies
  <2>5. MigrationsTypeOK'
    BY <1>1, <2>3, <2>4 DEF MigrationsTypeOK, Stage
  <2>6. pc'[p] = "insert" /\ db' = db /\ Mine(p)' = Mine(p)
    BY <1>1, <2>4 DEF MigrationsTypeOK, db, Mine
  <2>7. db.rows[at[p]] = NoSql
    BY <2>4, Newest, <1>1 DEF IInv, EachWhole, WholeAt
  <2>8. Holding(p)'
    BY <1>1, <2>3, <2>4, <2>6, <2>7 DEF Holding
  <2>. QED
    BY <2>4, <2>5, <2>8, SameCommits
<1>7. CASE Insert(p)
  <2>1. /\ pc[p] = "insert" /\ pc' = [pc EXCEPT ![p] = "commit"]
        /\ commits' = commits /\ lock' = lock /\ at' = at
        /\ work' = [work EXCEPT !.rows[at[p]] = Mine(p)]
    BY <1>7 DEF Insert
  <2>2. at[p] \in Version /\ Mine(p) \in Sql
    BY <1>1, <2>1, OwnVersion DEF Holding
  <2>3. /\ work' \in Db /\ work'.tables = work.tables
        /\ work'.rows = [work.rows EXCEPT ![at[p]] = Mine(p)]
    BY <1>1, <2>1, <2>2 DEF MigrationsTypeOK, Db
  <2>4. MigrationsTypeOK'
    BY <1>1, <2>1, <2>3 DEF MigrationsTypeOK, Stage
  <2>5. pc'[p] = "commit" /\ db' = db /\ Mine(p)' = Mine(p)
    BY <1>1, <2>1 DEF MigrationsTypeOK, db, Mine
  <2>6. Holding(p)'
    BY <1>1, <2>1, <2>3, <2>5 DEF Holding
  <2>. QED
    BY <2>1, <2>4, <2>6, SameCommits
<1>8. CASE StatementFails(p) \/ Exit(p)
  <2>1. /\ commits' = commits /\ Released(p)
        /\ at' = at \/ at' = [at EXCEPT ![p] = 1]
        /\ \E s \in {"failed", "out"} : pc' = [pc EXCEPT ![p] = s]
    BY <1>8 DEF StatementFails, Exit
  <2>2. /\ lock' \in Proc \cup {NoProc} /\ work' \in Db /\ lock' # p
    BY <1>1, <2>1, MigrationsAssumption DEF Released, MigrationsTypeOK
  <2>3. MigrationsTypeOK' /\ pc'[p] \in {"failed", "out"}
    BY <1>1, <2>1, <2>2 DEF MigrationsTypeOK, Stage
  <2>. QED
    BY <2>1, <2>2, <2>3, IdleHolds, SameCommits
<1>. QED
  BY <1>2, <1>3, <1>4, <1>5, <1>6, <1>7, <1>8 DEF ProcessStep

LEMMA InvariantHolds == MigrationsSpec => []IInv
<1>1. MigrationsInit => IInv
  <2> SUFFICES ASSUME MigrationsInit PROVE IInv
    OBVIOUS
  <2>1. EmptyDb \in Db
    BY DEF EmptyDb, NoRows, Db
  <2>2. MigrationsTypeOK
    BY <2>1 DEF MigrationsInit, MigrationsTypeOK, Stage
  <2>3. DOMAIN commits = {1} /\ commits[1] = EmptyDb
    BY DEF MigrationsInit
  <2>4. 0 \in 0 .. Longest /\ WholeAt(EmptyDb, 0)
    BY LongestBuild DEF WholeAt, EmptyDb, NoRows, Version
  <2>5. \A p \in Proc : Holding(p)
    BY MigrationsAssumption DEF MigrationsInit, Holding
  <2>. QED
    BY <2>2, <2>3, <2>4, <2>5 DEF IInv, EachWhole, Growing
<1>2. IInv /\ [MigrationsNext]_migrations => IInv'
  <2> SUFFICES ASSUME IInv, [MigrationsNext]_migrations PROVE IInv'
    OBVIOUS
  <2>1. CASE PowerLoss
    BY <2>1, PowerLossKeeps
  <2>2. ASSUME NEW p \in Proc, ProcessStep(p)
        PROVE  IInv'
    BY <2>2, CreateHistoryKeeps, CommitKeeps, OtherStepsKeep
  <2>3. CASE UNCHANGED migrations
    <3>1. /\ commits' = commits /\ lock' = lock /\ work' = work /\ pc' = pc /\ at' = at
          /\ db' = db
      BY <2>3 DEF migrations, db
    <3>2. \A p \in Proc : Holding(p)'
      BY <3>1, BystanderHolds DEF IInv
    <3>. QED
      BY <3>1, <3>2 DEF IInv, MigrationsTypeOK, EachWhole, WholeAt, Growing
  <2>. QED
    BY <2>1, <2>2, <2>3 DEF MigrationsNext
<1>. QED
  BY <1>1, <1>2, PTL DEF MigrationsSpec

(* In every state the database was committed in, one that a power loss may  *)
(* bring back included, a migration has its row exactly when it has its     *)
(* tables, and none is there without those before it.                       *)
THEOREM CommittedStatesAreWhole == MigrationsSpec => []NeverHalfMigrated
<1>1. IInv => NeverHalfMigrated
  <2> SUFFICES ASSUME IInv, NEW i \in 1 .. Len(commits), NEW v \in Version
               PROVE  /\ commits[i].rows[v] = commits[i].tables[v]
                      /\ commits[i].rows[v] # NoSql =>
                           \A u \in 1 .. v - 1 : commits[i].rows[u] # NoSql
    BY DEF NeverHalfMigrated
  <2>1. PICK k \in 0 .. Longest : WholeAt(commits[i], k)
    BY Newest DEF IInv, EachWhole
  <2>2. \A u \in 1 .. v - 1 : u \in Version /\ (v <= k => u <= k)
    BY LongestBuild DEF Version
  <2>. QED
    BY <2>1, <2>2 DEF WholeAt
<1>. QED
  BY <1>1, InvariantHolds, PTL

-----------------------------------------------------------------------------
(* The database implements Schema. *)

(* The schema a database stands for: its migrations in order.               *)
SchemaIsWhatIsApplied ==
  \A k \in 0 .. Longest : WholeAt(db, k) =>
    /\ AppliedRows \in Seq(Sql) /\ Len(AppliedRows) = k
    /\ \A v \in 1 .. k : AppliedRows[v] = db.rows[v]

LEMMA SchemaOf == MigrationsTypeOK => SchemaIsWhatIsApplied
<1> SUFFICES ASSUME MigrationsTypeOK, NEW k \in 0 .. Longest, WholeAt(db, k)
             PROVE  /\ AppliedRows \in Seq(Sql) /\ Len(AppliedRows) = k
                    /\ \A v \in 1 .. k : AppliedRows[v] = db.rows[v]
  BY DEF SchemaIsWhatIsApplied
<1>1. Applied = 1 .. k
  BY LongestBuild DEF Applied, WholeAt, Version
<1>2. \A v \in 1 .. k : v \in Version /\ db.rows[v] \in Sql
  <2> TAKE v \in 1 .. k
  <2>1. v \in Version
    BY LongestBuild DEF Version
  <2>2. db.rows[v] \in Sql \cup {NoSql}
    BY <2>1, Newest DEF Db
  <2>. QED
    BY <2>1, <2>2 DEF WholeAt
<1>3. AppliedRows = [v \in 1 .. k |-> db.rows[v]]
  BY <1>1 DEF AppliedRows
<1>4. k \in Nat
  BY LongestBuild
<1>5. AppliedRows \in Seq(Sql) /\ Len(AppliedRows) = k
  BY <1>2, <1>3, <1>4
<1>. QED
  BY <1>3, <1>5

LEMMA SchemaAfter == MigrationsTypeOK' => SchemaIsWhatIsApplied'
BY SchemaOf, PTL

Inside == {p \in Proc : pc[p] = "in"}

(* Sequences that agree up to an index have the same prefix up to it.       *)
LEMMA PrefixesAgree ==
  ASSUME NEW S, NEW s \in Seq(S), NEW t \in Seq(S), NEW n \in Nat,
         n <= Len(s), n <= Len(t), \A v \in 1 .. n : s[v] = t[v]
  PROVE  SubSeq(t, 1, n) = SubSeq(s, 1, n)
OBVIOUS

(* A commit is an upgrade by the next migration of the committer's build.   *)
LEMMA CommitUpgrades ==
  ASSUME IInv, NEW p \in Proc, Commit(p)
  PROVE  Abstract!Upgrade(p)
<1>1. pc[p] = "commit" /\ db' = work /\ IInv'
  BY CommitKeeps DEF Commit
<1>2. /\ at[p] - 1 \in 0 .. Longest /\ WholeAt(db, at[p] - 1) /\ WholeAt(work, at[p])
      /\ \A v \in Version : db.rows[v] # NoSql => work.rows[v] = db.rows[v]
      /\ work.rows[at[p]] = Mine(p)
  BY <1>1, CommitExtends
<1>3. /\ at[p] <= Len(Build[p]) /\ at[p] \in Nat \ {0}
      /\ \A u \in 1 .. at[p] - 1 : u <= Len(Build[p]) /\ db.rows[u] = Build[p][u]
  BY <1>1 DEF IInv, Holding, MigrationsTypeOK
<1>4. at[p] \in 0 .. Longest /\ Build[p] \in Seq(Sql) /\ Len(Build[p]) \in Nat
  BY <1>3, LongestBuild
<1>5. /\ AppliedRows \in Seq(Sql) /\ Len(AppliedRows) = at[p] - 1
      /\ \A v \in 1 .. at[p] - 1 : AppliedRows[v] = Build[p][v]
  BY <1>2, <1>3, SchemaOf DEF IInv, SchemaIsWhatIsApplied
<1>6. /\ AppliedRows' \in Seq(Sql) /\ Len(AppliedRows') = at[p]
      /\ \A v \in 1 .. at[p] : AppliedRows'[v] = work.rows[v]
  <2>1. MigrationsTypeOK' /\ WholeAt(db', at[p])
    BY <1>1, <1>2 DEF IInv
  <2>. QED
    BY <1>1, <1>4, <2>1, SchemaAfter DEF SchemaIsWhatIsApplied
<1>7. \A v \in 1 .. at[p] : AppliedRows'[v] = Build[p][v]
  <2> TAKE v \in 1 .. at[p]
  <2>1. CASE v = at[p]
    BY <1>2, <1>6, <2>1 DEF Mine
  <2>2. CASE v \in 1 .. at[p] - 1
    <3>1. v \in Version /\ db.rows[v] # NoSql
      BY <1>2, <1>3, <1>4, <2>2, LongestBuild DEF WholeAt, Version
    <3>. QED
      BY <1>2, <1>3, <1>6, <2>2, <3>1
  <2>. QED
    BY <1>3, <2>1, <2>2
<1>8. SubSeq(Build[p], 1, at[p] - 1) = SubSeq(AppliedRows, 1, at[p] - 1)
  <2>1. /\ at[p] - 1 \in Nat /\ at[p] - 1 <= Len(Build[p])
        /\ at[p] - 1 <= Len(AppliedRows)
    BY <1>3, <1>4, <1>5
  <2>. QED
    BY <1>4, <1>5, <2>1, PrefixesAgree
<1>9. AppliedRows' = SubSeq(Build[p], 1, at[p])
  BY <1>3, <1>4, <1>6, <1>7
<1>10. IsStrictPrefix(AppliedRows, Build[p])
  BY <1>3, <1>4, <1>5, <1>8 DEF IsStrictPrefix, IsPrefix
<1>11. Inside' = Inside
  BY DEF Commit, Becomes, Inside, IInv, MigrationsTypeOK
<1>. QED
  <2>1. /\ IsStrictPrefix(AppliedRows, Build[p])
        /\ AppliedRows' = SubSeq(Build[p], 1, Len(AppliedRows) + 1)
        /\ {q \in Proc : pc'[q] = "in"} = {q \in Proc : pc[q] = "in"}
    BY <1>3, <1>5, <1>9, <1>10, <1>11 DEF Inside
  <2>. QED
    BY <2>1 DEF Abstract!Upgrade, Abstract!IsStrictPrefix, Abstract!IsPrefix, IsStrictPrefix, IsPrefix

(* A process is let in by a schema that its whole build is a prefix of.     *)
LEMMA FinishEnters ==
  ASSUME IInv, NEW p \in Proc, Finish(p)
  PROVE  Abstract!Enter(p)
<1>1. /\ pc[p] = "select" /\ at[p] > Len(Build[p]) /\ at[p] \in Nat \ {0}
      /\ \A u \in 1 .. at[p] - 1 : u <= Len(Build[p]) /\ db.rows[u] = Build[p][u]
  BY DEF Finish, Through, IInv, Holding, MigrationsTypeOK
<1>2. /\ Build[p] \in Seq(Sql) /\ Len(Build[p]) \in 0 .. Longest
      /\ \A u \in 1 .. Len(Build[p]) : u \in Version /\ Build[p][u] \in Sql
  BY LongestBuild DEF Version
<1>3. PICK k \in 0 .. Longest : WholeAt(db, k)
  BY Newest DEF IInv, EachWhole
<1>4. Longest \in Nat /\ k \in Nat
  BY LongestBuild
<1>5. Len(Build[p]) <= k
  <2>1. CASE Len(Build[p]) = 0
    BY <1>4, <2>1
  <2>2. CASE Len(Build[p]) # 0
    <3>1. Len(Build[p]) \in 1 .. Len(Build[p]) /\ Len(Build[p]) \in 1 .. at[p] - 1
      BY <1>1, <1>2, <2>2
    <3>2. db.rows[Len(Build[p])] # NoSql
      BY <1>1, <1>2, <3>1, MigrationsAssumption
    <3>. QED
      BY <1>2, <1>3, <3>1, <3>2 DEF WholeAt
  <2>. QED
    BY <2>1, <2>2
<1>6. /\ AppliedRows \in Seq(Sql) /\ Len(AppliedRows) = k
      /\ \A v \in 1 .. k : AppliedRows[v] = db.rows[v]
  BY <1>3, SchemaOf DEF IInv, SchemaIsWhatIsApplied
<1>7. \A u \in 1 .. Len(Build[p]) : AppliedRows[u] = Build[p][u]
  BY <1>1, <1>2, <1>4, <1>5, <1>6
<1>8. SubSeq(Build[p], 1, Len(Build[p])) = SubSeq(AppliedRows, 1, Len(Build[p]))
  BY <1>2, <1>4, <1>5, <1>6, <1>7
<1>9. AppliedRows' = AppliedRows
  BY DEF Finish, AppliedRows, Applied, db
<1>10. {q \in Proc : pc'[q] = "in"} = {q \in Proc : pc[q] = "in"} \cup {p}
  BY DEF Finish, Becomes, IInv, MigrationsTypeOK
<1>. QED
  BY <1>5, <1>6, <1>8, <1>9, <1>10 DEF Abstract!Enter, Abstract!IsPrefix

(* What a power loss leaves is an earlier schema, and nobody inside.        *)
LEMMA PowerLossShortens ==
  ASSUME IInv, PowerLoss
  PROVE  Abstract!PowerLoss
<1>1. /\ IInv'
      /\ \E k \in 0 .. Longest : WholeAt(db', k)
      /\ \A v \in Version : db'.rows[v] # NoSql => db.rows[v] = db'.rows[v]
  BY PowerLossKeeps
<1>2. PICK k \in 0 .. Longest : WholeAt(db, k)
  BY Newest DEF IInv, EachWhole
<1>3. PICK n \in 0 .. Longest : WholeAt(db', n)
  BY <1>1
<1>4. Longest \in Nat /\ k \in Nat /\ n \in Nat
  BY LongestBuild
<1>5. \A v \in 1 .. n : v \in Version /\ v <= k /\ db.rows[v] = db'.rows[v]
  BY <1>1, <1>2, <1>3, <1>4 DEF WholeAt, Version
<1>6. n <= k
  <2>1. CASE n = 0
    BY <1>4, <2>1
  <2>2. CASE n # 0
    <3>1. n \in 1 .. n
      BY <1>4, <2>2
    <3>. QED
      BY <1>5, <3>1
  <2>. QED
    BY <2>1, <2>2
<1>7. /\ AppliedRows \in Seq(Sql) /\ Len(AppliedRows) = k
      /\ \A v \in 1 .. k : AppliedRows[v] = db.rows[v]
  BY <1>2, SchemaOf DEF IInv, SchemaIsWhatIsApplied
<1>8. /\ AppliedRows' \in Seq(Sql) /\ Len(AppliedRows') = n
      /\ \A v \in 1 .. n : AppliedRows'[v] = db'.rows[v]
  BY <1>1, <1>3, SchemaAfter DEF IInv, SchemaIsWhatIsApplied
<1>9. AppliedRows' = SubSeq(AppliedRows, 1, n)
  BY <1>4, <1>5, <1>6, <1>7, <1>8
<1>10. {q \in Proc : pc'[q] = "in"} = {}
  BY DEF PowerLoss
<1>. QED
  BY <1>4, <1>6, <1>7, <1>9, <1>10 DEF Abstract!PowerLoss

(* What is visible of the database changes by whole migrations of a process *)
(* whose build agrees with all the earlier ones, and a process is let in    *)
(* when the database has been through its whole build.                      *)
THEOREM DatabaseImplementsSchema == MigrationsSpec => ImplementsSchema
<1>1. MigrationsInit => Abstract!Init
  <2> SUFFICES ASSUME MigrationsInit PROVE Abstract!Init
    OBVIOUS
  <2>1. db = EmptyDb
    BY DEF MigrationsInit, db, Last
  <2>2. Applied = {}
    BY <2>1 DEF Applied, EmptyDb, NoRows
  <2>3. AppliedRows = <<>>
    BY <2>2 DEF AppliedRows
  <2>4. {p \in Proc : pc[p] = "in"} = {}
    BY DEF MigrationsInit
  <2>. QED
    BY <2>3, <2>4 DEF Abstract!Init
<1>2. IInv /\ [MigrationsNext]_migrations => [Abstract!Next]_(Abstract!vars)
  <2> SUFFICES ASSUME IInv, [MigrationsNext]_migrations
               PROVE  Abstract!Next \/ UNCHANGED Abstract!vars
    OBVIOUS
  <2>1. CASE PowerLoss
    BY <2>1, PowerLossShortens DEF Abstract!Next
  <2>2. ASSUME db'.rows = db.rows, {p \in Proc : pc'[p] = "in"} = {p \in Proc : pc[p] = "in"}
        PROVE  UNCHANGED Abstract!vars
    <3>1. AppliedRows' = AppliedRows
      BY <2>2 DEF AppliedRows, Applied
    <3>. QED
      BY <2>2, <3>1 DEF Abstract!vars
  <2>3. ASSUME NEW p \in Proc, ProcessStep(p)
        PROVE  Abstract!Next \/ UNCHANGED Abstract!vars
    <3>1. CASE Commit(p)
      BY <3>1, CommitUpgrades DEF Abstract!Next
    <3>2. CASE Finish(p)
      BY <3>2, FinishEnters DEF Abstract!Next
    <3>3. CASE Exit(p)
      <4>1. db' = db
        BY <3>3 DEF Exit, db
      <4>2. AppliedRows' = AppliedRows
        BY <4>1 DEF AppliedRows, Applied
      <4>3. {q \in Proc : pc'[q] = "in"} = {q \in Proc : pc[q] = "in"} \ {p}
        BY <3>3 DEF Exit, Becomes, IInv, MigrationsTypeOK
      <4>4. Abstract!Leave(p)
        BY <4>2, <4>3 DEF Abstract!Leave
      <4>. QED
        BY <4>4 DEF Abstract!Next
    <3>4. CASE CreateHistory(p)
      <4>1. db'.rows = db.rows
        BY <3>4, CreateHistoryKeeps
      <4>2. {q \in Proc : pc'[q] = "in"} = {q \in Proc : pc[q] = "in"}
        BY <3>4 DEF CreateHistory, Becomes, IInv, MigrationsTypeOK
      <4>. QED
        BY <2>2, <4>1, <4>2
    <3>5. CASE ~Commit(p) /\ ~Finish(p) /\ ~Exit(p) /\ ~CreateHistory(p)
      <4>1. db' = db
        BY <2>3, <3>5, OtherStepsKeep DEF db
      <4>2. pc[p] # "in" /\ pc'[p] # "in" /\ \A q \in Proc \ {p} : pc'[q] = pc[q]
        BY <2>3, <3>5 DEF ProcessStep, Open, Skip, Changed, Unrecorded, Migrate, MigrateFails,
           Insert, StatementFails, Busy, Becomes, IInv, MigrationsTypeOK
      <4>. QED
        BY <2>2, <4>1, <4>2
    <3>. QED
      BY <2>3, <3>1, <3>2, <3>3, <3>4, <3>5
  <2>4. CASE UNCHANGED migrations
    <3>1. db' = db /\ pc' = pc
      BY <2>4 DEF migrations, db
    <3>. QED
      BY <2>2, <3>1
  <2>. QED
    BY <2>1, <2>3, <2>4 DEF MigrationsNext
<1>. QED
  BY <1>1, <1>2, InvariantHolds, PTL DEF MigrationsSpec, ImplementsSchema, Abstract!Spec
=============================================================================
