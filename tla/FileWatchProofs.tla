---------------------------- MODULE FileWatchProofs ----------------------------
(***************************************************************************)
(* Proofs about FileWatch, for every Delay and every bound on the writes,  *)
(* as long as a write moves the modification time forward.                 *)
(***************************************************************************)
EXTENDS FileWatch, TLAPS

(* Every write is later than the one before it. *)
Forward == Steps \subseteq Nat \ {0}

(* No time the watcher remembers lies after the file's own. *)
TimesInOrder == modif <= file.mtime /\ \A t \in lastModif : t <= file.mtime

(* When the last submitted time is the file's, what it contains is on its    *)
(* way: as an event, as a load that has not read the file, as one that has   *)
(* read it as it is, or installed.                                           *)
OnItsWay ==
  (file.exists /\ file.mtime \in lastModif) =>
    \/ holding
    \/ run = "merge"
    \/ run = "install" /\ loaded = Content
    \/ run = "select" /\ served = Content

IInv == TypeOK /\ TimesInOrder /\ OnItsWay

(* The watcher, Run, the last submitted time and the file keep their types   *)
(* in every step (file.go 43-95, service.go 44-62).                          *)
LEMMA TypeStep ==
  ASSUME Steps \subseteq Int, TypeOK, [Next]_vars
  PROVE  TypeOK'
<1> USE DEF TypeOK
<1>1. ASSUME NEW d \in Steps, NEW valid \in BOOLEAN, Write(d, valid) PROVE TypeOK'
  BY <1>1, SMT DEF Write
<1>2. CASE Remove
  BY <1>2 DEF Remove
<1>3. CASE Start
  BY <1>3 DEF Start
<1>4. CASE FirstSend
  BY <1>4 DEF FirstSend
<1>5. CASE Poll
  BY <1>5 DEF Poll
<1>6. CASE Submit
  BY <1>6 DEF Submit
<1>7. CASE TakeEvent
  BY <1>7 DEF TakeEvent
<1>11. CASE SubmitMissed
  BY <1>11 DEF SubmitMissed
<1>8. CASE Load
  BY <1>8 DEF Load, Content, NoTable
<1>9. CASE Install
  BY <1>9 DEF Install
<1>10. CASE UNCHANGED vars
  BY <1>10 DEF vars
<1> QED
  BY <1>1, <1>2, <1>3, <1>4, <1>5, <1>6, <1>7, <1>8, <1>9, <1>10,
     <1>11
  DEF Next, Watcher, Run

(* The initial states satisfy the inductive invariant: no modification time  *)
(* was submitted.                                                            *)
LEMMA InitIInv == Init => IInv
<1> SUFFICES ASSUME Init PROVE IInv
  OBVIOUS
<1>2. file \in [exists : BOOLEAN, mtime : Int, ver : Nat \ {0}, valid : BOOLEAN]
      /\ file.mtime = 0
  BY DEF Init
<1>3. TypeOK
  BY <1>2 DEF Init, TypeOK, NoTable
<1>4. TimesInOrder /\ OnItsWay
  BY <1>2 DEF Init, TimesInOrder, OnItsWay
<1> QED
  BY <1>3, <1>4 DEF IInv

(* Every step keeps what was submitted on its way to being served: a write   *)
(* moves the file's time past it, a submission leaves an event, and Run      *)
(* hands it on from the event to the table.                                  *)
LEMMA StepIInv ==
  ASSUME Forward, IInv, [Next]_vars
  PROVE  IInv'
<1> USE DEF IInv, TypeOK, TimesInOrder
<1>0. TypeOK'
  BY TypeStep DEF Forward
<1>1. ASSUME NEW d \in Steps, NEW valid \in BOOLEAN, Write(d, valid)
      PROVE  TimesInOrder' /\ OnItsWay'
  BY <1>1 DEF Write, Forward, OnItsWay
<1>2. CASE Remove
  BY <1>2 DEF Remove, OnItsWay
<1>3. CASE Start
  BY <1>3 DEF Start, OnItsWay, Content
<1>4. CASE FirstSend
  BY <1>4 DEF FirstSend, OnItsWay
<1>5. CASE Poll
  BY <1>5 DEF Poll, OnItsWay, Content
<1>6. CASE Submit
  BY <1>6 DEF Submit, OnItsWay, Content
<1>7. CASE TakeEvent
  BY <1>7 DEF TakeEvent, OnItsWay
<1>11. CASE SubmitMissed
  BY <1>11 DEF SubmitMissed, OnItsWay, Content
<1>8. CASE Load
  <2>1. Content' = Content
    BY <1>8 DEF Load, Content
  <2>2. TimesInOrder'
    BY <1>8 DEF Load
  <2>3. OnItsWay'
    <3>1. run' = "install" /\ loaded' = Content'
      BY <1>8, <2>1 DEF Load
    <3> QED
      BY <3>1 DEF OnItsWay
  <2> QED
    BY <1>0, <2>2, <2>3
<1>9. CASE Install
  BY <1>9 DEF Install, OnItsWay, Content
<1>10. CASE UNCHANGED vars
  BY <1>10 DEF vars, OnItsWay, Content
<1> QED
  BY <1>0, <1>1, <1>2, <1>3, <1>4, <1>5, <1>6, <1>7, <1>8, <1>9, <1>10,
     <1>11
  DEF Next, Watcher, Run

(* Type correctness of the watcher and of its part of Run.                   *)
THEOREM TypeCorrect == Spec => []TypeOK
<1>1. Init => TypeOK
  BY InitIInv DEF IInv
<1>2. TypeOK /\ [Next]_vars => TypeOK'
  BY TypeStep, FileWatchAssumption
<1> QED
  BY <1>1, <1>2, PTL DEF Spec

(* When writes move the modification time forward, a watcher at rest that    *)
(* takes the file for unchanged is right: the rules in use are those of the  *)
(* file as it is, whatever the delay and wherever the changes fell between   *)
(* the poll, the submission and the load (file.go 77-89, service.go 48-62).  *)
THEOREM RestMeansServed ==
  ASSUME Forward
  PROVE  Spec => []UnchangedMeansServed
<1>1. IInv /\ [Next]_vars => IInv'
  BY StepIInv
<1>2. IInv => UnchangedMeansServed
  BY DEF IInv, OnItsWay, UnchangedMeansServed, AtRest
<1> QED
  BY InitIInv, <1>1, <1>2, PTL DEF Spec
=============================================================================
