-------------------------- MODULE SignedHubProofs --------------------------
(***************************************************************************)
(* Proofs about SignedHub for any set of processes and every behaviour of  *)
(* it.  The lock fails in one way only: a waiter unlinks the lock of a run *)
(* at work (stolen).  Until then the lock file always belongs to the one   *)
(* process under the lock or to one whose work has ended (LockInv), so     *)
(* that what a process planned still fits the record when it commits       *)
(* (PlanInv), and a process that left the lock knows how far the record    *)
(* has moved (ProgressInv).  Theft takes a process that has ended          *)
(* (EndedInv), and what it cannot break is NoBlindDecision.                *)
(***************************************************************************)
EXTENDS SignedHub, TLAPS

InStore(p) == pc[p] \in {"open", "inspect", "judge", "break"} \cup UnderLock

EndedInv ==
  /\ lock # NoLock => pc[lock.by] # "new"
  /\ \A p \in Processes : pc[p] = "judge" =>
       seen[p] \in Processes /\ pc[seen[p]] # "new"
  /\ stolen \/ (\E p \in Processes : pc[p] = "break") =>
       \E q \in Processes : pc[q] = "dead"

LockInv ==
  /\ \A p \in Processes : Holding(p) => lock # NoLock /\ lock.by = p
  /\ lock # NoLock => Holding(lock.by) \/ pc[lock.by] \in {"done", "dead"}

PlanInv ==
  \A p \in Processes :
    /\ pc[p] = "commit" => Updates(p, plan[p])
    /\ pc[p] = "release" /\ plan[p] # Refused => plan[p] = record
    /\ pc[p] = "release" /\ plan[p] # Refused /\ want[p] = "expose" =>
         record.phase = "in_flight" /\ prompted = {}

ProgressInv ==
  \A p \in Processes :
    /\ pc[p] = "working" \/ (InStore(p) /\ want[p] = "outcome") =>
         p \in prompted
    /\ InStore(p) /\ want[p] = "outcome" => aim[p] \in Outcomes
    /\ pc[p] = "emit" \/ (InStore(p) /\ want[p] = "ack") =>
         /\ record.phase \in {"ack_pending", "acked"}
         /\ aim[p] = record.outcome
    /\ InStore(p) /\ want[p] = "ack" => record.outcome \in acks

RecordInv ==
  /\ record.outcome = "undecided"
       <=> record.phase \in {"absent", "prepared", "in_flight"}
  /\ record.phase = "acked" => record.outcome \in acks
  /\ acks \subseteq {record.outcome}
  /\ ShownOnce
  /\ prompted # {} => record.phase \notin {"absent", "prepared"}

KeptApart == LockInv /\ PlanInv /\ ProgressInv /\ RecordInv

(* What survives when two processes may break each other's lock: a plan or *)
(* an aim is decided only once somebody has prompted a model, because only *)
(* the process that prompted one asks for an outcome.                      *)
Decided(r)  == r.outcome # "undecided"

StormInv ==
  /\ TypeOK
  /\ record.phase \in {"ack_pending", "acked"} => Decided(record)
  /\ Decided(record) \/ acks # {} => prompted # {}
  /\ \A p \in Processes :
       /\ plan[p].phase \in {"ack_pending", "acked"} => Decided(plan[p])
       /\ Decided(plan[p]) \/ aim[p] # "undecided" => prompted # {}
       /\ pc[p] = "working" \/ (InStore(p) /\ want[p] = "outcome") => p \in prompted
       /\ pc[p] = "emit" \/ (InStore(p) /\ want[p] = "outcome") => aim[p] \in Outcomes
       /\ pc[p] = "commit" => plan[p] \in Record

Inv == StormInv /\ EndedInv /\ (~stolen => KeptApart)

-----------------------------------------------------------------------------
LEMMA InitTypes == Init => TypeOK
<1>1. ASSUME Init PROVE record \in Record /\ lock \in LockFiles
  BY <1>1 DEF Init, Record, Phases, LockFiles
<1>2. ASSUME Init
      PROVE /\ pc \in [Processes -> Places] /\ want \in [Processes -> Wants]
            /\ plan \in [Processes -> Record \cup {Refused}]
  BY <1>2 DEF Init, Places, Wants
<1> QED BY <1>1, <1>2 DEF Init, TypeOK

LEMMA StormInit == Init => StormInv
  BY InitTypes DEF Init, StormInv, Decided, UnderLock, Refused, InStore

LEMMA InitInv == Init => Inv
<1>1. ASSUME Init PROVE EndedInv /\ LockInv
  BY <1>1 DEF Init, EndedInv, LockInv, UnderLock, Holding
<1>2. ASSUME Init PROVE PlanInv /\ ProgressInv /\ RecordInv
  BY <1>2 DEF Init, PlanInv, ProgressInv, RecordInv, ShownOnce, UnderLock, InStore
<1> QED BY <1>1, <1>2, StormInit, InitTypes DEF Inv, KeptApart

(* Every step keeps the types. *)
LEMMA TypeStep ==
  ASSUME StormInv, NEW p \in Processes, Step(p) PROVE TypeOK'
<1> USE NobodyIsNoProcess DEF StormInv, Record, Phases, Outcomes, NoLock, LockFiles, Places,
        UnderLock, Wants, Refused, TypeOK, Goto, Lock, Unlock, Returns
<1>1. CASE StartTurn(p) BY <1>1 DEF StartTurn
<1>2. CASE StartRecover(p) BY <1>2 DEF StartRecover
<1>3. CASE Die(p) BY <1>3 DEF Die
<1>4. CASE FileFails(p) BY <1>4 DEF FileFails
<1>5. CASE CreateLock(p) BY <1>5 DEF CreateLock
<1>6. CASE LockExists(p) BY <1>6 DEF LockExists
<1>7. CASE WriteOwner(p) BY <1>7 DEF WriteOwner, WithPid
<1>8. CASE WriteOwnerFails(p)
  <2>1. WithPid(p) \in LockFiles
    BY DEF WithPid
  <2> QED BY <1>8, <2>1 DEF WriteOwnerFails
<1>9. CASE LockIsGone(p) BY <1>9 DEF LockIsGone
<1>10. CASE OwnerIsCorrupt(p) BY <1>10 DEF OwnerIsCorrupt
<1>11. CASE ReadOwner(p) BY <1>11 DEF ReadOwner
<1>12. CASE OwnerLives(p) BY <1>12 DEF OwnerLives
<1>13. CASE OwnerIsGone(p) BY <1>13 DEF OwnerIsGone
<1>14. CASE BreakLock(p) BY <1>14 DEF BreakLock
<1>15. CASE Plan(p) BY <1>15 DEF Plan
<1>16. CASE ReadFails(p) BY <1>16 DEF ReadFails
<1>17. CASE FindPrepared(p) BY <1>17 DEF FindPrepared
<1>18. CASE Refuse(p) BY <1>18 DEF Refuse
<1>19. CASE Commit(p) BY <1>19 DEF Commit
<1>20. CASE CommitFails(p) BY <1>20 DEF CommitFails
<1>21. CASE Throws(p) BY <1>21 DEF Throws
<1>22. CASE UnlockFails(p) BY <1>22 DEF UnlockFails
<1>23. CASE Prepared(p) BY <1>23 DEF Prepared
<1>24. CASE Exposed(p) BY <1>24 DEF Exposed
<1>25. CASE Recorded(p) BY <1>25 DEF Recorded
<1>26. CASE Acked(p) BY <1>26 DEF Acked
<1>27. CASE BeginExposure(p) BY <1>27 DEF BeginExposure
<1>28. CASE CloseLaunch(p) BY <1>28 DEF CloseLaunch
<1>29. CASE Complete(p) BY <1>29 DEF Complete
<1>30. CASE Abandon(p) BY <1>30 DEF Abandon
<1>31. CASE LoadPending(p) BY <1>31 DEF LoadPending
<1>32. CASE LoadOther(p) BY <1>32 DEF LoadOther
<1>33. CASE Emit(p) BY <1>33 DEF Emit
<1>34. CASE EmitFails(p) BY <1>34 DEF EmitFails
<1> QED BY <1>1, <1>2, <1>3, <1>4, <1>5, <1>6, <1>7, <1>8, <1>9, <1>10,
          <1>11, <1>12, <1>13, <1>14, <1>15, <1>16, <1>17, <1>18, <1>19,
          <1>20, <1>21, <1>22, <1>23, <1>24, <1>25, <1>26, <1>27, <1>28,
          <1>29, <1>30, <1>31, <1>32, <1>33, <1>34 DEF Step

(* Every step keeps it, also the one that breaks a live lock.               *)
LEMMA StormStep ==
  ASSUME StormInv, NEW p \in Processes, Step(p) PROVE StormInv'
<1> USE NobodyIsNoProcess DEF Record, Phases, Outcomes, NoLock, LockFiles, Places,
        UnderLock, Wants, Refused, TypeOK, StormInv, Decided, InStore, Goto, Lock, Unlock,
        Returns
<1>0. TypeOK'
  BY TypeStep
<1>1. CASE StartTurn(p) BY <1>0, <1>1 DEF StartTurn
<1>2. CASE StartRecover(p) BY <1>0, <1>2 DEF StartRecover
<1>3. CASE Die(p) BY <1>0, <1>3 DEF Die
<1>4. CASE FileFails(p) BY <1>0, <1>4 DEF FileFails
<1>5. CASE CreateLock(p) BY <1>0, <1>5 DEF CreateLock
<1>6. CASE LockExists(p) BY <1>0, <1>6 DEF LockExists
<1>7. CASE WriteOwner(p) BY <1>0, <1>7 DEF WriteOwner, WithPid
<1>8. CASE WriteOwnerFails(p) BY <1>0, <1>8 DEF WriteOwnerFails, WithPid
<1>9. CASE LockIsGone(p) BY <1>0, <1>9 DEF LockIsGone
<1>10. CASE OwnerIsCorrupt(p) BY <1>0, <1>10 DEF OwnerIsCorrupt
<1>11. CASE ReadOwner(p) BY <1>0, <1>11 DEF ReadOwner
<1>12. CASE OwnerLives(p) BY <1>0, <1>12 DEF OwnerLives
<1>13. CASE OwnerIsGone(p) BY <1>0, <1>13 DEF OwnerIsGone
<1>14. CASE BreakLock(p) BY <1>0, <1>14 DEF BreakLock
<1>15. CASE Plan(p)
  <2>1. PICK next \in Record : Updates(p, next) /\ plan' = [plan EXCEPT ![p] = next]
    BY <1>0, <1>15 DEF Plan
  <2>2. /\ Decided(next) => prompted # {}
        /\ next.phase \in {"ack_pending", "acked"} => Decided(next)
    BY <2>1, <1>15 DEF Plan, Updates, Prepare, Expose, RecordOutcome, RecordAck, KeepAcked
  <2> QED BY <1>0, <1>15, <2>1, <2>2 DEF Plan
<1>16. CASE ReadFails(p) BY <1>0, <1>16 DEF ReadFails
<1>17. CASE FindPrepared(p) BY <1>0, <1>17 DEF FindPrepared
<1>18. CASE Refuse(p) BY <1>0, <1>18 DEF Refuse
<1>19. CASE Commit(p) BY <1>0, <1>19 DEF Commit
<1>20. CASE CommitFails(p) BY <1>0, <1>20 DEF CommitFails
<1>21. CASE Throws(p) BY <1>0, <1>21 DEF Throws
<1>22. CASE UnlockFails(p) BY <1>0, <1>22 DEF UnlockFails
<1>23. CASE Prepared(p) BY <1>0, <1>23 DEF Prepared
<1>24. CASE Exposed(p) BY <1>0, <1>24 DEF Exposed
<1>25. CASE Recorded(p) BY <1>0, <1>25 DEF Recorded
<1>26. CASE Acked(p) BY <1>0, <1>26 DEF Acked
<1>27. CASE BeginExposure(p) BY <1>0, <1>27 DEF BeginExposure
<1>28. CASE CloseLaunch(p) BY <1>0, <1>28 DEF CloseLaunch
<1>29. CASE Complete(p) BY <1>0, <1>29 DEF Complete
<1>30. CASE Abandon(p) BY <1>0, <1>30 DEF Abandon
<1>31. CASE LoadPending(p) BY <1>0, <1>31 DEF LoadPending
<1>32. CASE LoadOther(p) BY <1>0, <1>32 DEF LoadOther
<1>33. CASE Emit(p) BY <1>0, <1>33 DEF Emit
<1>34. CASE EmitFails(p) BY <1>0, <1>34 DEF EmitFails
<1> QED BY <1>1, <1>2, <1>3, <1>4, <1>5, <1>6, <1>7, <1>8, <1>9, <1>10,
          <1>11, <1>12, <1>13, <1>14, <1>15, <1>16, <1>17, <1>18, <1>19,
          <1>20, <1>21, <1>22, <1>23, <1>24, <1>25, <1>26, <1>27, <1>28,
          <1>29, <1>30, <1>31, <1>32, <1>33, <1>34 DEF Step

LEMMA StormInvariance == Spec => []StormInv
<1>1. Init => StormInv
  BY StormInit
<1>2. StormInv /\ [Next]_vars => StormInv'
  <2>1. ASSUME StormInv, UNCHANGED vars PROVE StormInv'
    BY <2>1 DEF vars, StormInv, TypeOK, Decided, InStore
  <2> QED BY <2>1, StormStep DEF Next
<1> QED BY <1>1, <1>2, PTL DEF Spec

(* A lock, once stolen, stays stolen; only the unlink of a waiter steals.   *)
LEMMA StolenStays ==
  ASSUME TypeOK, NEW p \in Processes, Step(p)
  PROVE  /\ stolen => stolen'
         /\ ~BreakLock(p) => stolen' = stolen
  BY DEF Step, BreakLock, TypeOK, Throws, UnlockFails, Prepared, Exposed, Recorded, Acked,
         StartTurn, StartRecover, Die, FileFails, CreateLock, LockExists,
         WriteOwner, WriteOwnerFails, LockIsGone, OwnerIsCorrupt, ReadOwner,
         OwnerLives, OwnerIsGone, Plan, ReadFails, FindPrepared, Refuse, Commit,
         CommitFails, BeginExposure, CloseLaunch, Complete, Abandon, LoadPending,
         LoadOther, Emit, EmitFails

(* A waiter breaks a lock only when some process has ended. *)
LEMMA EndedStep ==
  ASSUME TypeOK, EndedInv, NEW p \in Processes, Step(p) PROVE EndedInv'
<1> USE NobodyIsNoProcess DEF TypeOK, EndedInv, Goto, Lock, Alive, Holding, Unlock,
        Returns, NoLock, LockFiles, Places, UnderLock
<1>1. CASE StartTurn(p) BY <1>1 DEF StartTurn
<1>2. CASE StartRecover(p) BY <1>2 DEF StartRecover
<1>3. CASE Die(p) BY <1>3 DEF Die
<1>4. CASE FileFails(p) BY <1>4 DEF FileFails
<1>5. CASE CreateLock(p) BY <1>5 DEF CreateLock
<1>6. CASE LockExists(p) BY <1>6 DEF LockExists
<1>7. CASE WriteOwner(p) BY <1>7 DEF WriteOwner, WithPid
<1>8. CASE WriteOwnerFails(p) BY <1>8 DEF WriteOwnerFails, WithPid
<1>9. CASE LockIsGone(p) BY <1>9 DEF LockIsGone
<1>10. CASE OwnerIsCorrupt(p) BY <1>10 DEF OwnerIsCorrupt
<1>11. CASE ReadOwner(p) BY <1>11 DEF ReadOwner
<1>12. CASE OwnerLives(p) BY <1>12 DEF OwnerLives
<1>13. CASE OwnerIsGone(p) BY <1>13 DEF OwnerIsGone
<1>14. CASE BreakLock(p) BY <1>14 DEF BreakLock
<1>15. CASE Plan(p) BY <1>15 DEF Plan
<1>16. CASE ReadFails(p) BY <1>16 DEF ReadFails
<1>17. CASE FindPrepared(p) BY <1>17 DEF FindPrepared
<1>18. CASE Refuse(p) BY <1>18 DEF Refuse
<1>19. CASE Commit(p) BY <1>19 DEF Commit
<1>20. CASE CommitFails(p) BY <1>20 DEF CommitFails
<1>21. CASE Throws(p) BY <1>21 DEF Throws
<1>22. CASE UnlockFails(p) BY <1>22 DEF UnlockFails
<1>23. CASE Prepared(p) BY <1>23 DEF Prepared
<1>24. CASE Exposed(p) BY <1>24 DEF Exposed
<1>25. CASE Recorded(p) BY <1>25 DEF Recorded
<1>26. CASE Acked(p) BY <1>26 DEF Acked
<1>27. CASE BeginExposure(p) BY <1>27 DEF BeginExposure
<1>28. CASE CloseLaunch(p) BY <1>28 DEF CloseLaunch
<1>29. CASE Complete(p) BY <1>29 DEF Complete
<1>30. CASE Abandon(p) BY <1>30 DEF Abandon
<1>31. CASE LoadPending(p) BY <1>31 DEF LoadPending
<1>32. CASE LoadOther(p) BY <1>32 DEF LoadOther
<1>33. CASE Emit(p) BY <1>33 DEF Emit
<1>34. CASE EmitFails(p) BY <1>34 DEF EmitFails
<1> QED BY <1>1, <1>2, <1>3, <1>4, <1>5, <1>6, <1>7, <1>8, <1>9, <1>10,
          <1>11, <1>12, <1>13, <1>14, <1>15, <1>16, <1>17, <1>18, <1>19,
          <1>20, <1>21, <1>22, <1>23, <1>24, <1>25, <1>26, <1>27, <1>28,
          <1>29, <1>30, <1>31, <1>32, <1>33, <1>34 DEF Step

(* Every step but a theft keeps the lock with the one process under it, or  *)
(* with one whose work has ended.                                           *)
LEMMA LockStep ==
  ASSUME TypeOK, LockInv, NEW p \in Processes, Step(p), ~stolen' PROVE LockInv'
<1> USE NobodyIsNoProcess DEF TypeOK, LockInv, Goto, Lock, Alive, Holding, Unlock,
        Returns, NoLock, LockFiles, Places, UnderLock
<1>1. CASE StartTurn(p) BY <1>1 DEF StartTurn
<1>2. CASE StartRecover(p) BY <1>2 DEF StartRecover
<1>3. CASE Die(p) BY <1>3 DEF Die
<1>4. CASE FileFails(p) BY <1>4 DEF FileFails
<1>5. CASE CreateLock(p) BY <1>5 DEF CreateLock
<1>6. CASE LockExists(p) BY <1>6 DEF LockExists
<1>7. CASE WriteOwner(p) BY <1>7 DEF WriteOwner, WithPid
<1>8. CASE WriteOwnerFails(p) BY <1>8 DEF WriteOwnerFails, WithPid
<1>9. CASE LockIsGone(p) BY <1>9 DEF LockIsGone
<1>10. CASE OwnerIsCorrupt(p) BY <1>10 DEF OwnerIsCorrupt
<1>11. CASE ReadOwner(p) BY <1>11 DEF ReadOwner
<1>12. CASE OwnerLives(p) BY <1>12 DEF OwnerLives
<1>13. CASE OwnerIsGone(p) BY <1>13 DEF OwnerIsGone
<1>14. CASE BreakLock(p) BY <1>14 DEF BreakLock
<1>15. CASE Plan(p) BY <1>15 DEF Plan
<1>16. CASE ReadFails(p) BY <1>16 DEF ReadFails
<1>17. CASE FindPrepared(p) BY <1>17 DEF FindPrepared
<1>18. CASE Refuse(p) BY <1>18 DEF Refuse
<1>19. CASE Commit(p) BY <1>19 DEF Commit
<1>20. CASE CommitFails(p) BY <1>20 DEF CommitFails
<1>21. CASE Throws(p) BY <1>21 DEF Throws
<1>22. CASE UnlockFails(p) BY <1>22 DEF UnlockFails
<1>23. CASE Prepared(p) BY <1>23 DEF Prepared
<1>24. CASE Exposed(p) BY <1>24 DEF Exposed
<1>25. CASE Recorded(p) BY <1>25 DEF Recorded
<1>26. CASE Acked(p) BY <1>26 DEF Acked
<1>27. CASE BeginExposure(p) BY <1>27 DEF BeginExposure
<1>28. CASE CloseLaunch(p) BY <1>28 DEF CloseLaunch
<1>29. CASE Complete(p) BY <1>29 DEF Complete
<1>30. CASE Abandon(p) BY <1>30 DEF Abandon
<1>31. CASE LoadPending(p) BY <1>31 DEF LoadPending
<1>32. CASE LoadOther(p) BY <1>32 DEF LoadOther
<1>33. CASE Emit(p) BY <1>33 DEF Emit
<1>34. CASE EmitFails(p) BY <1>34 DEF EmitFails
<1> QED BY <1>1, <1>2, <1>3, <1>4, <1>5, <1>6, <1>7, <1>8, <1>9, <1>10,
          <1>11, <1>12, <1>13, <1>14, <1>15, <1>16, <1>17, <1>18, <1>19,
          <1>20, <1>21, <1>22, <1>23, <1>24, <1>25, <1>26, <1>27, <1>28,
          <1>29, <1>30, <1>31, <1>32, <1>33, <1>34 DEF Step

(* Every step leaves a plan that still fits the record. *)
LEMMA PlanStep ==
  ASSUME TypeOK, KeptApart, NEW p \in Processes, Step(p) PROVE PlanInv'
<1> USE NobodyIsNoProcess DEF KeptApart, TypeOK, LockInv, PlanInv, RecordInv, Goto, Lock,
        Alive, Holding, Unlock, Returns, Updates, Prepare, Expose, RecordOutcome,
        RecordAck, KeepAcked, Record, Phases, Outcomes, NoLock, LockFiles, Places,
        UnderLock, Wants, Refused
<1>1. CASE StartTurn(p) BY <1>1 DEF StartTurn
<1>2. CASE StartRecover(p) BY <1>2 DEF StartRecover
<1>3. CASE Die(p) BY <1>3 DEF Die
<1>4. CASE FileFails(p) BY <1>4 DEF FileFails
<1>5. CASE CreateLock(p) BY <1>5 DEF CreateLock
<1>6. CASE LockExists(p) BY <1>6 DEF LockExists
<1>7. CASE WriteOwner(p) BY <1>7 DEF WriteOwner, WithPid
<1>8. CASE WriteOwnerFails(p) BY <1>8 DEF WriteOwnerFails, WithPid
<1>9. CASE LockIsGone(p) BY <1>9 DEF LockIsGone
<1>10. CASE OwnerIsCorrupt(p) BY <1>10 DEF OwnerIsCorrupt
<1>11. CASE ReadOwner(p) BY <1>11 DEF ReadOwner
<1>12. CASE OwnerLives(p) BY <1>12 DEF OwnerLives
<1>13. CASE OwnerIsGone(p) BY <1>13 DEF OwnerIsGone
<1>14. CASE BreakLock(p) BY <1>14 DEF BreakLock
<1>15. CASE Plan(p) BY <1>15 DEF Plan
<1>16. CASE ReadFails(p) BY <1>16 DEF ReadFails
<1>17. CASE FindPrepared(p) BY <1>17 DEF FindPrepared
<1>18. CASE Refuse(p) BY <1>18 DEF Refuse
<1>19. CASE Commit(p) BY <1>19 DEF Commit
<1>20. CASE CommitFails(p) BY <1>20 DEF CommitFails
<1>21. CASE Throws(p) BY <1>21 DEF Throws
<1>22. CASE UnlockFails(p) BY <1>22 DEF UnlockFails
<1>23. CASE Prepared(p) BY <1>23 DEF Prepared
<1>24. CASE Exposed(p) BY <1>24 DEF Exposed
<1>25. CASE Recorded(p) BY <1>25 DEF Recorded
<1>26. CASE Acked(p) BY <1>26 DEF Acked
<1>27. CASE BeginExposure(p) BY <1>27 DEF BeginExposure
<1>28. CASE CloseLaunch(p) BY <1>28 DEF CloseLaunch
<1>29. CASE Complete(p) BY <1>29 DEF Complete
<1>30. CASE Abandon(p) BY <1>30 DEF Abandon
<1>31. CASE LoadPending(p) BY <1>31 DEF LoadPending
<1>32. CASE LoadOther(p) BY <1>32 DEF LoadOther
<1>33. CASE Emit(p) BY <1>33 DEF Emit
<1>34. CASE EmitFails(p) BY <1>34 DEF EmitFails
<1> QED BY <1>1, <1>2, <1>3, <1>4, <1>5, <1>6, <1>7, <1>8, <1>9, <1>10,
          <1>11, <1>12, <1>13, <1>14, <1>15, <1>16, <1>17, <1>18, <1>19,
          <1>20, <1>21, <1>22, <1>23, <1>24, <1>25, <1>26, <1>27, <1>28,
          <1>29, <1>30, <1>31, <1>32, <1>33, <1>34 DEF Step

(* Every step keeps the record, the Hub and what the processes know of them together. *)
LEMMA RecordStep ==
  ASSUME TypeOK, KeptApart, NEW p \in Processes, Step(p)
  PROVE  ProgressInv' /\ RecordInv'
<1> USE NobodyIsNoProcess DEF KeptApart, TypeOK, LockInv, PlanInv, ProgressInv, RecordInv,
        ShownOnce, InStore, Goto, Lock, Alive, Holding, Unlock, Returns, Updates, Prepare,
        Expose, RecordOutcome, RecordAck, KeepAcked, Record, Phases, Outcomes, NoLock,
        LockFiles, Places, UnderLock, Wants, Refused
<1>1. CASE StartTurn(p) BY <1>1 DEF StartTurn
<1>2. CASE StartRecover(p) BY <1>2 DEF StartRecover
<1>3. CASE Die(p) BY <1>3 DEF Die
<1>4. CASE FileFails(p) BY <1>4 DEF FileFails
<1>5. CASE CreateLock(p) BY <1>5 DEF CreateLock
<1>6. CASE LockExists(p) BY <1>6 DEF LockExists
<1>7. CASE WriteOwner(p) BY <1>7 DEF WriteOwner, WithPid
<1>8. CASE WriteOwnerFails(p) BY <1>8 DEF WriteOwnerFails, WithPid
<1>9. CASE LockIsGone(p) BY <1>9 DEF LockIsGone
<1>10. CASE OwnerIsCorrupt(p) BY <1>10 DEF OwnerIsCorrupt
<1>11. CASE ReadOwner(p) BY <1>11 DEF ReadOwner
<1>12. CASE OwnerLives(p) BY <1>12 DEF OwnerLives
<1>13. CASE OwnerIsGone(p) BY <1>13 DEF OwnerIsGone
<1>14. CASE BreakLock(p) BY <1>14 DEF BreakLock
<1>15. CASE Plan(p) BY <1>15 DEF Plan
<1>16. CASE ReadFails(p) BY <1>16 DEF ReadFails
<1>17. CASE FindPrepared(p) BY <1>17 DEF FindPrepared
<1>18. CASE Refuse(p) BY <1>18 DEF Refuse
<1>19. CASE Commit(p) BY <1>19 DEF Commit
<1>20. CASE CommitFails(p) BY <1>20 DEF CommitFails
<1>21. CASE Throws(p) BY <1>21 DEF Throws
<1>22. CASE UnlockFails(p) BY <1>22 DEF UnlockFails
<1>23. CASE Prepared(p) BY <1>23 DEF Prepared
<1>24. CASE Exposed(p) BY <1>24 DEF Exposed
<1>25. CASE Recorded(p) BY <1>25 DEF Recorded
<1>26. CASE Acked(p) BY <1>26 DEF Acked
<1>27. CASE BeginExposure(p) BY <1>27 DEF BeginExposure
<1>28. CASE CloseLaunch(p) BY <1>28 DEF CloseLaunch
<1>29. CASE Complete(p) BY <1>29 DEF Complete
<1>30. CASE Abandon(p) BY <1>30 DEF Abandon
<1>31. CASE LoadPending(p) BY <1>31 DEF LoadPending
<1>32. CASE LoadOther(p) BY <1>32 DEF LoadOther
<1>33. CASE Emit(p) BY <1>33 DEF Emit
<1>34. CASE EmitFails(p) BY <1>34 DEF EmitFails
<1> QED BY <1>1, <1>2, <1>3, <1>4, <1>5, <1>6, <1>7, <1>8, <1>9, <1>10,
          <1>11, <1>12, <1>13, <1>14, <1>15, <1>16, <1>17, <1>18, <1>19,
          <1>20, <1>21, <1>22, <1>23, <1>24, <1>25, <1>26, <1>27, <1>28,
          <1>29, <1>30, <1>31, <1>32, <1>33, <1>34 DEF Step

LEMMA Unchanged ==
  ASSUME Inv, UNCHANGED vars PROVE Inv'
  BY DEF vars, Inv, StormInv, TypeOK, Decided, EndedInv, KeptApart, LockInv, PlanInv, ProgressInv, RecordInv,
         ShownOnce, Alive, Holding, InStore, Updates, Prepare, Expose, RecordOutcome,
         RecordAck, KeepAcked

LEMMA StepInv ==
  ASSUME Inv, [Next]_vars PROVE Inv'
<1>1. CASE UNCHANGED vars
  BY <1>1, Unchanged
<1>2. ASSUME NEW p \in Processes, Step(p) PROVE Inv'
  <2>1. StormInv' /\ EndedInv'
    BY <1>2, StormStep, EndedStep DEF Inv, StormInv
  <2>2. ASSUME ~stolen' PROVE KeptApart'
    <3>1. KeptApart
      BY <1>2, <2>2, StolenStays DEF Inv, StormInv
    <3> QED BY <1>2, <2>2, <3>1, LockStep, PlanStep, RecordStep DEF Inv, StormInv, KeptApart
  <2> QED BY <2>1, <2>2 DEF Inv
<1> QED BY <1>1, <1>2 DEF Next

(* Lock, record and processes stay consistent until a live lock is taken.   *)
THEOREM Invariance == Spec => []Inv
<1>1. Init => Inv
  BY InitInv
<1>2. Inv /\ [Next]_vars => Inv'
  BY StepInv
<1> QED BY <1>1, <1>2, PTL DEF Spec

(* Every reachable state is well typed.                                      *)
THEOREM TypeCorrect == Spec => []TypeOK
<1>1. Inv => TypeOK BY DEF Inv, StormInv
<1> QED BY <1>1, Invariance, PTL

(* Only a waiter that unlinks the lock of a run at work, on the word of a    *)
(* process that has ended, lets two processes under the event's lock.        *)
THEOREM Exclusion == Spec => []MutualExclusion
<1>1. Inv => MutualExclusion
  BY DEF Inv, KeptApart, EndedInv, LockInv, MutualExclusion
<1> QED BY <1>1, Invariance, PTL

(* Until then the body of an event reaches at most one model.                *)
THEOREM AtMostOnce == Spec => []ExposedOnce
<1>1. Inv => ExposedOnce BY DEF Inv, KeptApart, RecordInv, ExposedOnce
<1> QED BY <1>1, Invariance, PTL

(* Until then the Hub is told the recorded outcome and nothing else.         *)
THEOREM TrueAck == Spec => []AckTellsTheOutcome
<1>1. Inv => AckTellsTheOutcome BY DEF Inv, KeptApart, RecordInv, AckTellsTheOutcome
<1> QED BY <1>1, Invariance, PTL

-----------------------------------------------------------------------------
LEMMA ForwardUpdate ==
  ASSUME NEW p \in Processes, TypeOK, RecordInv, Updates(p, record') PROVE Forward
  BY DEF TypeOK, RecordInv, Forward, Rank, Updates, Prepare, Expose, RecordOutcome,
         RecordAck, KeepAcked, Record, Phases, Outcomes

LEMMA ForwardStep ==
  ASSUME Inv, ~stolen, [Next]_vars PROVE Forward
<1>1. ASSUME record' = record PROVE Forward
  BY <1>1 DEF Forward, Rank, Inv, StormInv, TypeOK, Record, Phases
<1>2. ASSUME NEW p \in Processes, Commit(p) \/ CommitFails(p), record' # record
      PROVE Forward
  BY <1>2, ForwardUpdate DEF Commit, CommitFails, Inv, StormInv, KeptApart, PlanInv
<1>3. ASSUME NEW p \in Processes, Step(p), ~(Commit(p) \/ CommitFails(p))
      PROVE record' = record
  BY <1>3
  DEF Step,
      StartTurn, StartRecover, Die, FileFails, CreateLock, LockExists, WriteOwner,
      WriteOwnerFails, LockIsGone, OwnerIsCorrupt, ReadOwner, OwnerLives,
      OwnerIsGone, BreakLock, Plan, ReadFails, FindPrepared, Refuse, Throws,
      UnlockFails, Prepared, Exposed, Recorded, Acked, BeginExposure, CloseLaunch,
      Complete, Abandon, LoadPending, LoadOther, Emit, EmitFails
<1> QED BY <1>1, <1>2, <1>3 DEF Next, vars

(* Until a live lock is taken, no committed update is lost or undone.        *)
THEOREM RecordMovesForward == Spec => NeverBack
<1>1. Inv /\ [Next]_vars => [~stolen => Forward]_vars
  BY ForwardStep
<1> QED BY <1>1, Invariance, PTL DEF Spec, NeverBack

-----------------------------------------------------------------------------
(* Nothing is decided or acknowledged of an event no model has seen,       *)
(* whatever happens to the lock: complete() follows beginExposure().       *)
THEOREM NoBlindDecision == Spec => []NoAckWithoutExposure
<1>1. StormInv => NoAckWithoutExposure
  BY DEF StormInv, NoAckWithoutExposure, Decided
<1> QED BY <1>1, StormInvariance, PTL

-----------------------------------------------------------------------------
LEMMA DeliveryInit == Init => Delivery!Init
  BY DEF Init, Delivery!Init

LEMMA DeliveryCommit ==
  ASSUME NEW p \in Processes, TypeOK, KeptApart, ~stolen, Commit(p) \/ CommitFails(p)
  PROVE [Delivery!Next]_(Delivery!vars)
<1>0. stolen' = stolen
  BY DEF Commit, CommitFails
<1>1. CASE record'.outcome = record.outcome
  BY <1>0, <1>1 DEF Commit, CommitFails, Delivery!vars
<1>2. CASE record'.outcome # record.outcome
  <2>1. record' = plan[p] /\ Updates(p, record')
    BY <1>2 DEF Commit, CommitFails, KeptApart, PlanInv
  <2>2. want[p] = "outcome" /\ record'.outcome = aim[p] /\ record.phase = "in_flight"
    BY <1>2, <2>1 DEF Updates, Prepare, Expose, RecordOutcome, RecordAck, KeepAcked,
                      KeptApart, RecordInv, TypeOK, Record
  <2>3. p \in prompted /\ aim[p] \in Outcomes
    BY <2>2 DEF KeptApart, ProgressInv, InStore, UnderLock, Commit, CommitFails
  <2>4. record.outcome = "undecided"
    BY <2>2 DEF KeptApart, RecordInv
  <2>5. Delivery!Decide(aim[p])
    BY <2>2, <2>3, <2>4 DEF Delivery!Decide, Commit, CommitFails
  <2> QED BY <1>0, <2>3, <2>5 DEF Delivery!Next, Delivery!Deliver
<1> QED BY <1>1, <1>2

LEMMA DeliveryEmit ==
  ASSUME NEW p \in Processes, TypeOK, KeptApart, ~stolen, Emit(p) \/ EmitFails(p)
  PROVE [Delivery!Next]_(Delivery!vars)
<1>0. stolen' = stolen
  BY DEF Emit, EmitFails
<1>1. aim[p] = record.outcome /\ record.outcome # "undecided" /\ acks \subseteq {aim[p]}
  BY DEF Emit, EmitFails, KeptApart, ProgressInv, RecordInv
<1>2. CASE acks' = acks
  BY <1>0, <1>2 DEF Emit, EmitFails, Delivery!vars
<1>3. CASE acks' = acks \cup {aim[p]}
  <2>1. Delivery!Acknowledge
    BY <1>1, <1>3 DEF Emit, EmitFails, Delivery!Acknowledge
  <2> QED BY <1>0, <2>1 DEF Delivery!Next, Delivery!Deliver
<1> QED BY <1>2, <1>3 DEF Emit, EmitFails

LEMMA DeliveryExposed ==
  ASSUME NEW p \in Processes, TypeOK, KeptApart, ~stolen, Exposed(p)
  PROVE [Delivery!Next]_(Delivery!vars)
<1>1. record.phase = "in_flight" /\ prompted = {}
  BY DEF Exposed, Returns, Unlock, KeptApart, PlanInv
<1>2. record.outcome = "undecided"
  BY <1>1 DEF KeptApart, RecordInv
<1>3. Delivery!Expose(p)
  BY <1>1, <1>2 DEF Exposed, Delivery!Expose
<1> QED BY <1>3 DEF Exposed, Delivery!Next, Delivery!Deliver

(* The step that steals the lock, and every one after it. *)
LEMMA DeliveryFails ==
  ASSUME NEW p \in Processes, TypeOK, StormInv, Step(p), stolen'
  PROVE  Delivery!Fail
<1>1. StormInv'
  BY StormStep
<1>2. prompted \subseteq prompted' /\ acks \subseteq acks'
  BY DEF Step,
      StartTurn, StartRecover, Die, FileFails, CreateLock, LockExists, WriteOwner,
      WriteOwnerFails, LockIsGone, OwnerIsCorrupt, ReadOwner, OwnerLives,
      OwnerIsGone, BreakLock, Plan, ReadFails, FindPrepared, Refuse, Commit,
      CommitFails, Throws, UnlockFails, Prepared, Exposed, Recorded, Acked,
      BeginExposure, CloseLaunch, Complete, Abandon, LoadPending, LoadOther, Emit,
      EmitFails
<1> QED BY <1>1, <1>2 DEF Delivery!Fail, StormInv, Decided

LEMMA DeliveryStep ==
  ASSUME Inv, StormInv, [Next]_vars PROVE [Delivery!Next]_(Delivery!vars)
<1>1. CASE UNCHANGED vars
  BY <1>1 DEF vars, Delivery!vars
<1>2. ASSUME NEW p \in Processes, Step(p), ~stolen',
             ~Commit(p), ~CommitFails(p), ~Emit(p), ~EmitFails(p), ~Exposed(p)
      PROVE UNCHANGED Delivery!vars
  <2>1. stolen' = stolen
    <3>1. CASE BreakLock(p)
      BY <1>2, <3>1 DEF BreakLock, Inv, StormInv, TypeOK
    <3> QED BY <1>2, <3>1, StolenStays DEF Inv, StormInv
  <2> QED BY <1>2, <2>1
    DEF Step, Delivery!vars,
        StartTurn, StartRecover, Die, FileFails, CreateLock, LockExists,
        WriteOwner, WriteOwnerFails, LockIsGone, OwnerIsCorrupt, ReadOwner,
        OwnerLives, OwnerIsGone, BreakLock, Plan, ReadFails, FindPrepared, Refuse,
        Throws, UnlockFails, Prepared, Recorded, Acked, BeginExposure, CloseLaunch,
        Complete, Abandon, LoadPending, LoadOther
<1>3. ASSUME NEW p \in Processes, Step(p), ~stolen' PROVE [Delivery!Next]_(Delivery!vars)
  <2>1. ~stolen /\ TypeOK /\ KeptApart
    BY <1>3, StolenStays DEF Inv, StormInv
  <2> QED BY <1>2, <1>3, <2>1, DeliveryCommit, DeliveryEmit, DeliveryExposed
<1>4. ASSUME NEW p \in Processes, Step(p), stolen' PROVE [Delivery!Next]_(Delivery!vars)
  BY <1>4, DeliveryFails DEF Inv, StormInv, Delivery!Next
<1> QED BY <1>1, <1>3, <1>4 DEF Next

(* The supervisor implements the at-most-once delivery until a live lock is  *)
(* taken, and what is left of it afterwards.                                 *)
THEOREM Implements == Spec => DeliversOnce
<1>1. Init => Delivery!Init
  BY DeliveryInit
<1>2. Inv /\ StormInv /\ [Next]_vars => [Delivery!Next]_(Delivery!vars)
  BY DeliveryStep
<1>3. Spec => []StormInv
  BY StormInvariance
<1> QED BY <1>1, <1>2, <1>3, Invariance, PTL DEF Spec, DeliversOnce, Delivery!Spec
=============================================================================
