--------------------------- MODULE GitCacheProofs ---------------------------
(***************************************************************************)
(* Theorems about GitCache, for any number of processes, projects and      *)
(* commits.  GitInv is inductive given the types; each of its parts has a  *)
(* lemma with one step per action.                                         *)
(***************************************************************************)
EXTENDS GitCache, TLAPS

Inv == TypeOK /\ GitInv /\ OneTemporary

\* The invariant holds initially.
LEMMA Initially == Init => Inv
  BY NullIsNothing
  DEF Init, Inv, TypeOK, GitInv, LockHeld, Restored, Repairable, FollowsSelection,
      FollowsPin, OneTemporary, Locked, CheckoutState, Absent, AfterRemoval, Here

-----------------------------------------------------------------------------
\* Every step keeps the types.
LEMMA TypeStep ==
  ASSUME TypeOK, [Next]_vars
  PROVE  TypeOK'
<1> USE NullIsNothing
        DEF TypeOK, GoTo, SetHere, Here, Locked, CheckoutState, Absent,
            AfterRemoval, Cleaned, files, vars
<1>1. ASSUME NEW p \in Process, NEW j \in Project, Open(p, j)
      PROVE  TypeOK'
  BY <1>1 DEF Open
<1>2. ASSUME NEW p \in Process, Acquire(p)
      PROVE  TypeOK'
  BY <1>2 DEF Acquire
<1>3. ASSUME NEW p \in Process, Choose(p)
      PROVE  TypeOK'
  BY <1>3 DEF Choose, Selected
<1>4. ASSUME NEW p \in Process, Restore(p)
      PROVE  TypeOK'
  BY <1>4 DEF Restore
<1>5. ASSUME NEW p \in Process, Rewrite(p)
      PROVE  TypeOK'
  BY <1>5 DEF Rewrite
<1>6. ASSUME NEW p \in Process, RestoreFails(p)
      PROVE  TypeOK'
  BY <1>6 DEF RestoreFails
<1>7. ASSUME NEW p \in Process, RemoveSome(p)
      PROVE  TypeOK'
  BY <1>7 DEF RemoveSome
<1>8. ASSUME NEW p \in Process, RemoveAll(p)
      PROVE  TypeOK'
  BY <1>8 DEF RemoveAll
<1>9. ASSUME NEW p \in Process, StartClone(p)
      PROVE  TypeOK'
  BY <1>9 DEF StartClone
<1>10. ASSUME NEW p \in Process, Fetch(p)
      PROVE  TypeOK'
  BY <1>10 DEF Fetch
<1>11. ASSUME NEW p \in Process, Install(p)
      PROVE  TypeOK'
  BY <1>11 DEF Install
<1>12. ASSUME NEW p \in Process, Rename(p)
      PROVE  TypeOK'
  BY <1>12 DEF Rename
<1>13. ASSUME NEW p \in Process, SaveSelection(p)
      PROVE  TypeOK'
  BY <1>13 DEF SaveSelection
<1>14. ASSUME NEW p \in Process, IoFails(p)
      PROVE  TypeOK'
  BY <1>14 DEF IoFails
<1>15. ASSUME NEW p \in Process, Fail(p)
      PROVE  TypeOK'
  BY <1>15 DEF Fail
<1>16. ASSUME NEW p \in Process, Finish(p)
      PROVE  TypeOK'
  BY <1>16 DEF Finish
<1>17. ASSUME NEW p \in Process, Abandon(p)
      PROVE  TypeOK'
  BY <1>17 DEF Abandon
<1>18. ASSUME NEW c \in Commit, Push(c)
      PROVE  TypeOK'
  BY <1>18 DEF Push
<1>19. ASSUME NEW c \in Commit, Tamper(c)
      PROVE  TypeOK'
  BY <1>19 DEF Tamper
<1>20. ASSUME ForgetSelection
      PROVE  TypeOK'
  BY <1>20 DEF ForgetSelection
<1>21. ASSUME UNCHANGED vars
      PROVE  TypeOK'
  BY <1>21
<1> QED
  BY <1>1, <1>2, <1>3, <1>4, <1>5, <1>6, <1>7, <1>8, <1>9, <1>10,
     <1>11, <1>12, <1>13, <1>14, <1>15, <1>16, <1>17, <1>18, <1>19, <1>20,
     <1>21 DEF Next, Resolve, Outside

\* Only the holder of the lock is past opening, and dying gives the lock back.
LEMMA LockStep ==
  ASSUME TypeOK, LockHeld, [Next]_vars
  PROVE  LockHeld'
<1> USE NullIsNothing
        DEF LockHeld, TypeOK, GoTo, Locked, AfterRemoval, files, vars
<1>1. ASSUME NEW p \in Process, NEW j \in Project, Open(p, j)
      PROVE  LockHeld'
  BY <1>1 DEF Open
<1>2. ASSUME NEW p \in Process, Acquire(p)
      PROVE  LockHeld'
  BY <1>2 DEF Acquire
<1>3. ASSUME NEW p \in Process, Choose(p)
      PROVE  LockHeld'
  BY <1>3 DEF Choose, Selected
<1>4. ASSUME NEW p \in Process, Restore(p)
      PROVE  LockHeld'
  BY <1>4 DEF Restore
<1>5. ASSUME NEW p \in Process, Rewrite(p)
      PROVE  LockHeld'
  BY <1>5 DEF Rewrite
<1>6. ASSUME NEW p \in Process, RestoreFails(p)
      PROVE  LockHeld'
  BY <1>6 DEF RestoreFails
<1>7. ASSUME NEW p \in Process, RemoveSome(p)
      PROVE  LockHeld'
  BY <1>7 DEF RemoveSome
<1>8. ASSUME NEW p \in Process, RemoveAll(p)
      PROVE  LockHeld'
  BY <1>8 DEF RemoveAll
<1>9. ASSUME NEW p \in Process, StartClone(p)
      PROVE  LockHeld'
  BY <1>9 DEF StartClone
<1>10. ASSUME NEW p \in Process, Fetch(p)
      PROVE  LockHeld'
  BY <1>10 DEF Fetch
<1>11. ASSUME NEW p \in Process, Install(p)
      PROVE  LockHeld'
  BY <1>11 DEF Install
<1>12. ASSUME NEW p \in Process, Rename(p)
      PROVE  LockHeld'
  BY <1>12 DEF Rename
<1>13. ASSUME NEW p \in Process, SaveSelection(p)
      PROVE  LockHeld'
  BY <1>13 DEF SaveSelection
<1>14. ASSUME NEW p \in Process, IoFails(p)
      PROVE  LockHeld'
  BY <1>14 DEF IoFails
<1>15. ASSUME NEW p \in Process, Fail(p)
      PROVE  LockHeld'
  BY <1>15 DEF Fail
<1>16. ASSUME NEW p \in Process, Finish(p)
      PROVE  LockHeld'
  BY <1>16 DEF Finish
<1>17. ASSUME NEW p \in Process, Abandon(p)
      PROVE  LockHeld'
  BY <1>17 DEF Abandon
<1>18. ASSUME NEW c \in Commit, Push(c)
      PROVE  LockHeld'
  BY <1>18 DEF Push
<1>19. ASSUME NEW c \in Commit, Tamper(c)
      PROVE  LockHeld'
  BY <1>19 DEF Tamper
<1>20. ASSUME ForgetSelection
      PROVE  LockHeld'
  BY <1>20 DEF ForgetSelection
<1>21. ASSUME UNCHANGED vars
      PROVE  LockHeld'
  BY <1>21
<1> QED
  BY <1>1, <1>2, <1>3, <1>4, <1>5, <1>6, <1>7, <1>8, <1>9, <1>10,
     <1>11, <1>12, <1>13, <1>14, <1>15, <1>16, <1>17, <1>18, <1>19, <1>20,
     <1>21 DEF Next, Resolve, Outside

\* Only the holder of the lock changes a checkout, and the outside only when
\* there is none.
LEMMA RestoredStep ==
  ASSUME TypeOK, LockHeld, Restored, [Next]_vars
  PROVE  Restored'
<1> USE NullIsNothing
        DEF LockHeld, Restored, TypeOK, GoTo, SetHere, Here, Locked,
            CheckoutState, Absent, AfterRemoval, Cleaned, files, vars
<1>1. ASSUME NEW p \in Process, NEW j \in Project, Open(p, j)
      PROVE  Restored'
  BY <1>1 DEF Open
<1>2. ASSUME NEW p \in Process, Acquire(p)
      PROVE  Restored'
  BY <1>2 DEF Acquire
<1>3. ASSUME NEW p \in Process, Choose(p)
      PROVE  Restored'
  BY <1>3 DEF Choose, Selected
<1>4. ASSUME NEW p \in Process, Restore(p)
      PROVE  Restored'
  BY <1>4 DEF Restore
<1>5. ASSUME NEW p \in Process, Rewrite(p)
      PROVE  Restored'
  BY <1>5 DEF Rewrite
<1>6. ASSUME NEW p \in Process, RestoreFails(p)
      PROVE  Restored'
  BY <1>6 DEF RestoreFails
<1>7. ASSUME NEW p \in Process, RemoveSome(p)
      PROVE  Restored'
  BY <1>7 DEF RemoveSome
<1>8. ASSUME NEW p \in Process, RemoveAll(p)
      PROVE  Restored'
  BY <1>8 DEF RemoveAll
<1>9. ASSUME NEW p \in Process, StartClone(p)
      PROVE  Restored'
  BY <1>9 DEF StartClone
<1>10. ASSUME NEW p \in Process, Fetch(p)
      PROVE  Restored'
  BY <1>10 DEF Fetch
<1>11. ASSUME NEW p \in Process, Install(p)
      PROVE  Restored'
  BY <1>11 DEF Install
<1>12. ASSUME NEW p \in Process, Rename(p)
      PROVE  Restored'
  BY <1>12 DEF Rename
<1>13. ASSUME NEW p \in Process, SaveSelection(p)
      PROVE  Restored'
  BY <1>13 DEF SaveSelection
<1>14. ASSUME NEW p \in Process, IoFails(p)
      PROVE  Restored'
  BY <1>14 DEF IoFails
<1>15. ASSUME NEW p \in Process, Fail(p)
      PROVE  Restored'
  BY <1>15 DEF Fail
<1>16. ASSUME NEW p \in Process, Finish(p)
      PROVE  Restored'
  BY <1>16 DEF Finish
<1>17. ASSUME NEW p \in Process, Abandon(p)
      PROVE  Restored'
  BY <1>17 DEF Abandon
<1>18. ASSUME NEW c \in Commit, Push(c)
      PROVE  Restored'
  BY <1>18 DEF Push
<1>19. ASSUME NEW c \in Commit, Tamper(c)
      PROVE  Restored'
  BY <1>19 DEF Tamper
<1>20. ASSUME ForgetSelection
      PROVE  Restored'
  BY <1>20 DEF ForgetSelection
<1>21. ASSUME UNCHANGED vars
      PROVE  Restored'
  BY <1>21
<1> QED
  BY <1>1, <1>2, <1>3, <1>4, <1>5, <1>6, <1>7, <1>8, <1>9, <1>10,
     <1>11, <1>12, <1>13, <1>14, <1>15, <1>16, <1>17, <1>18, <1>19, <1>20,
     <1>21 DEF Next, Resolve, Outside

\* A clone is put only where nothing is, and nothing but a fault damages one
\* that has just been installed.
LEMMA RepairableStep ==
  ASSUME TypeOK, LockHeld, Repairable, [Next]_vars
  PROVE  Repairable'
<1> USE NullIsNothing
        DEF LockHeld, Repairable, TypeOK, GoTo, SetHere, Here, Locked,
            CheckoutState, Absent, AfterRemoval, Cleaned, files, vars
<1>1. ASSUME NEW p \in Process, NEW j \in Project, Open(p, j)
      PROVE  Repairable'
  BY <1>1 DEF Open
<1>2. ASSUME NEW p \in Process, Acquire(p)
      PROVE  Repairable'
  BY <1>2 DEF Acquire
<1>3. ASSUME NEW p \in Process, Choose(p)
      PROVE  Repairable'
  BY <1>3 DEF Choose, Selected
<1>4. ASSUME NEW p \in Process, Restore(p)
      PROVE  Repairable'
  BY <1>4 DEF Restore
<1>5. ASSUME NEW p \in Process, Rewrite(p)
      PROVE  Repairable'
  BY <1>5 DEF Rewrite
<1>6. ASSUME NEW p \in Process, RestoreFails(p)
      PROVE  Repairable'
  BY <1>6 DEF RestoreFails
<1>7. ASSUME NEW p \in Process, RemoveSome(p)
      PROVE  Repairable'
  BY <1>7 DEF RemoveSome
<1>8. ASSUME NEW p \in Process, RemoveAll(p)
      PROVE  Repairable'
  BY <1>8 DEF RemoveAll
<1>9. ASSUME NEW p \in Process, StartClone(p)
      PROVE  Repairable'
  BY <1>9 DEF StartClone
<1>10. ASSUME NEW p \in Process, Fetch(p)
      PROVE  Repairable'
  BY <1>10 DEF Fetch
<1>11. ASSUME NEW p \in Process, Install(p)
      PROVE  Repairable'
  BY <1>11 DEF Install
<1>12. ASSUME NEW p \in Process, Rename(p)
      PROVE  Repairable'
  BY <1>12 DEF Rename
<1>13. ASSUME NEW p \in Process, SaveSelection(p)
      PROVE  Repairable'
  BY <1>13 DEF SaveSelection
<1>14. ASSUME NEW p \in Process, IoFails(p)
      PROVE  Repairable'
  BY <1>14 DEF IoFails
<1>15. ASSUME NEW p \in Process, Fail(p)
      PROVE  Repairable'
  BY <1>15 DEF Fail
<1>16. ASSUME NEW p \in Process, Finish(p)
      PROVE  Repairable'
  BY <1>16 DEF Finish
<1>17. ASSUME NEW p \in Process, Abandon(p)
      PROVE  Repairable'
  BY <1>17 DEF Abandon
<1>18. ASSUME NEW c \in Commit, Push(c)
      PROVE  Repairable'
  BY <1>18 DEF Push
<1>19. ASSUME NEW c \in Commit, Tamper(c)
      PROVE  Repairable'
  BY <1>19 DEF Tamper
<1>20. ASSUME ForgetSelection
      PROVE  Repairable'
  BY <1>20 DEF ForgetSelection
<1>21. ASSUME UNCHANGED vars
      PROVE  Repairable'
  BY <1>21
<1> QED
  BY <1>1, <1>2, <1>3, <1>4, <1>5, <1>6, <1>7, <1>8, <1>9, <1>10,
     <1>11, <1>12, <1>13, <1>14, <1>15, <1>16, <1>17, <1>18, <1>19, <1>20,
     <1>21 DEF Next, Resolve, Outside

\* The selection changes only by its holder or the user, and a checkout that is
\* gone comes back only as the commit being resolved.
LEMMA FollowsStep ==
  ASSUME TypeOK, LockHeld, FollowsSelection, [Next]_vars
  PROVE  FollowsSelection'
<1> USE NullIsNothing
        DEF LockHeld, FollowsSelection, TypeOK, GoTo, SetHere, Here, Locked,
            CheckoutState, Absent, AfterRemoval, files, vars
<1>1. ASSUME NEW p \in Process, NEW j \in Project, Open(p, j)
      PROVE  FollowsSelection'
  BY <1>1 DEF Open
<1>2. ASSUME NEW p \in Process, Acquire(p)
      PROVE  FollowsSelection'
  BY <1>2 DEF Acquire
<1>3. ASSUME NEW p \in Process, Choose(p)
      PROVE  FollowsSelection'
  BY <1>3 DEF Choose, Selected
<1>4. ASSUME NEW p \in Process, Restore(p)
      PROVE  FollowsSelection'
  BY <1>4 DEF Restore
<1>5. ASSUME NEW p \in Process, Rewrite(p)
      PROVE  FollowsSelection'
  BY <1>5 DEF Rewrite
<1>6. ASSUME NEW p \in Process, RestoreFails(p)
      PROVE  FollowsSelection'
  BY <1>6 DEF RestoreFails
<1>7. ASSUME NEW p \in Process, RemoveSome(p)
      PROVE  FollowsSelection'
  BY <1>7 DEF RemoveSome
<1>8. ASSUME NEW p \in Process, RemoveAll(p)
      PROVE  FollowsSelection'
  BY <1>8 DEF RemoveAll
<1>9. ASSUME NEW p \in Process, StartClone(p)
      PROVE  FollowsSelection'
  BY <1>9 DEF StartClone
<1>10. ASSUME NEW p \in Process, Fetch(p)
      PROVE  FollowsSelection'
  BY <1>10 DEF Fetch
<1>11. ASSUME NEW p \in Process, Install(p)
      PROVE  FollowsSelection'
  BY <1>11 DEF Install
<1>12. ASSUME NEW p \in Process, Rename(p)
      PROVE  FollowsSelection'
  BY <1>12 DEF Rename
<1>13. ASSUME NEW p \in Process, SaveSelection(p)
      PROVE  FollowsSelection'
  BY <1>13 DEF SaveSelection
<1>14. ASSUME NEW p \in Process, IoFails(p)
      PROVE  FollowsSelection'
  BY <1>14 DEF IoFails
<1>15. ASSUME NEW p \in Process, Fail(p)
      PROVE  FollowsSelection'
  BY <1>15 DEF Fail
<1>16. ASSUME NEW p \in Process, Finish(p)
      PROVE  FollowsSelection'
  BY <1>16 DEF Finish
<1>17. ASSUME NEW p \in Process, Abandon(p)
      PROVE  FollowsSelection'
  BY <1>17 DEF Abandon
<1>18. ASSUME NEW c \in Commit, Push(c)
      PROVE  FollowsSelection'
  BY <1>18 DEF Push
<1>19. ASSUME NEW c \in Commit, Tamper(c)
      PROVE  FollowsSelection'
  BY <1>19 DEF Tamper
<1>20. ASSUME ForgetSelection
      PROVE  FollowsSelection'
  BY <1>20 DEF ForgetSelection
<1>21. ASSUME UNCHANGED vars
      PROVE  FollowsSelection'
  BY <1>21
<1> QED
  BY <1>1, <1>2, <1>3, <1>4, <1>5, <1>6, <1>7, <1>8, <1>9, <1>10,
     <1>11, <1>12, <1>13, <1>14, <1>15, <1>16, <1>17, <1>18, <1>19, <1>20,
     <1>21 DEF Next, Resolve, Outside

\* Nothing but the choice sets the commit of a process with a pin.
LEMMA PinStep ==
  ASSUME TypeOK, FollowsPin, [Next]_vars
  PROVE  FollowsPin'
<1> USE NullIsNothing
        DEF FollowsPin, TypeOK, GoTo, Locked, AfterRemoval, files, vars
<1>1. ASSUME NEW p \in Process, NEW j \in Project, Open(p, j)
      PROVE  FollowsPin'
  BY <1>1 DEF Open
<1>2. ASSUME NEW p \in Process, Acquire(p)
      PROVE  FollowsPin'
  BY <1>2 DEF Acquire
<1>3. ASSUME NEW p \in Process, Choose(p)
      PROVE  FollowsPin'
  BY <1>3 DEF Choose, Selected
<1>4. ASSUME NEW p \in Process, Restore(p)
      PROVE  FollowsPin'
  BY <1>4 DEF Restore
<1>5. ASSUME NEW p \in Process, Rewrite(p)
      PROVE  FollowsPin'
  BY <1>5 DEF Rewrite
<1>6. ASSUME NEW p \in Process, RestoreFails(p)
      PROVE  FollowsPin'
  BY <1>6 DEF RestoreFails
<1>7. ASSUME NEW p \in Process, RemoveSome(p)
      PROVE  FollowsPin'
  BY <1>7 DEF RemoveSome
<1>8. ASSUME NEW p \in Process, RemoveAll(p)
      PROVE  FollowsPin'
  BY <1>8 DEF RemoveAll
<1>9. ASSUME NEW p \in Process, StartClone(p)
      PROVE  FollowsPin'
  BY <1>9 DEF StartClone
<1>10. ASSUME NEW p \in Process, Fetch(p)
      PROVE  FollowsPin'
  BY <1>10 DEF Fetch
<1>11. ASSUME NEW p \in Process, Install(p)
      PROVE  FollowsPin'
  BY <1>11 DEF Install
<1>12. ASSUME NEW p \in Process, Rename(p)
      PROVE  FollowsPin'
  BY <1>12 DEF Rename
<1>13. ASSUME NEW p \in Process, SaveSelection(p)
      PROVE  FollowsPin'
  BY <1>13 DEF SaveSelection
<1>14. ASSUME NEW p \in Process, IoFails(p)
      PROVE  FollowsPin'
  BY <1>14 DEF IoFails
<1>15. ASSUME NEW p \in Process, Fail(p)
      PROVE  FollowsPin'
  BY <1>15 DEF Fail
<1>16. ASSUME NEW p \in Process, Finish(p)
      PROVE  FollowsPin'
  BY <1>16 DEF Finish
<1>17. ASSUME NEW p \in Process, Abandon(p)
      PROVE  FollowsPin'
  BY <1>17 DEF Abandon
<1>18. ASSUME NEW c \in Commit, Push(c)
      PROVE  FollowsPin'
  BY <1>18 DEF Push
<1>19. ASSUME NEW c \in Commit, Tamper(c)
      PROVE  FollowsPin'
  BY <1>19 DEF Tamper
<1>20. ASSUME ForgetSelection
      PROVE  FollowsPin'
  BY <1>20 DEF ForgetSelection
<1>21. ASSUME UNCHANGED vars
      PROVE  FollowsPin'
  BY <1>21
<1> QED
  BY <1>1, <1>2, <1>3, <1>4, <1>5, <1>6, <1>7, <1>8, <1>9, <1>10,
     <1>11, <1>12, <1>13, <1>14, <1>15, <1>16, <1>17, <1>18, <1>19, <1>20,
     <1>21 DEF Next, Resolve, Outside

\* A clone starts in an empty directory.
LEMMA TemporaryStep ==
  ASSUME TypeOK, OneTemporary, [Next]_vars
  PROVE  OneTemporary'
<1> USE NullIsNothing
        DEF OneTemporary, Cleaned, files, vars
<1>1. ASSUME NEW p \in Process, NEW j \in Project, Open(p, j)
      PROVE  OneTemporary'
  BY <1>1 DEF Open
<1>2. ASSUME NEW p \in Process, Acquire(p)
      PROVE  OneTemporary'
  BY <1>2 DEF Acquire
<1>3. ASSUME NEW p \in Process, Choose(p)
      PROVE  OneTemporary'
  BY <1>3 DEF Choose, Selected
<1>4. ASSUME NEW p \in Process, Restore(p)
      PROVE  OneTemporary'
  BY <1>4 DEF Restore
<1>5. ASSUME NEW p \in Process, Rewrite(p)
      PROVE  OneTemporary'
  BY <1>5 DEF Rewrite
<1>6. ASSUME NEW p \in Process, RestoreFails(p)
      PROVE  OneTemporary'
  BY <1>6 DEF RestoreFails
<1>7. ASSUME NEW p \in Process, RemoveSome(p)
      PROVE  OneTemporary'
  BY <1>7 DEF RemoveSome
<1>8. ASSUME NEW p \in Process, RemoveAll(p)
      PROVE  OneTemporary'
  BY <1>8 DEF RemoveAll, AfterRemoval
<1>9. ASSUME NEW p \in Process, StartClone(p)
      PROVE  OneTemporary'
  BY <1>9 DEF StartClone
<1>10. ASSUME NEW p \in Process, Fetch(p)
      PROVE  OneTemporary'
  BY <1>10 DEF Fetch
<1>11. ASSUME NEW p \in Process, Install(p)
      PROVE  OneTemporary'
  BY <1>11 DEF Install
<1>12. ASSUME NEW p \in Process, Rename(p)
      PROVE  OneTemporary'
  BY <1>12 DEF Rename
<1>13. ASSUME NEW p \in Process, SaveSelection(p)
      PROVE  OneTemporary'
  BY <1>13 DEF SaveSelection
<1>14. ASSUME NEW p \in Process, IoFails(p)
      PROVE  OneTemporary'
  BY <1>14 DEF IoFails
<1>15. ASSUME NEW p \in Process, Fail(p)
      PROVE  OneTemporary'
  BY <1>15 DEF Fail
<1>16. ASSUME NEW p \in Process, Finish(p)
      PROVE  OneTemporary'
  BY <1>16 DEF Finish
<1>17. ASSUME NEW p \in Process, Abandon(p)
      PROVE  OneTemporary'
  BY <1>17 DEF Abandon
<1>18. ASSUME NEW c \in Commit, Push(c)
      PROVE  OneTemporary'
  BY <1>18 DEF Push
<1>19. ASSUME NEW c \in Commit, Tamper(c)
      PROVE  OneTemporary'
  BY <1>19 DEF Tamper
<1>20. ASSUME ForgetSelection
      PROVE  OneTemporary'
  BY <1>20 DEF ForgetSelection
<1>21. ASSUME UNCHANGED vars
      PROVE  OneTemporary'
  BY <1>21
<1> QED
  BY <1>1, <1>2, <1>3, <1>4, <1>5, <1>6, <1>7, <1>8, <1>9, <1>10,
     <1>11, <1>12, <1>13, <1>14, <1>15, <1>16, <1>17, <1>18, <1>19, <1>20,
     <1>21 DEF Next, Resolve, Outside

-----------------------------------------------------------------------------

\* The invariant is inductive.
LEMMA Inductive == Inv /\ [Next]_vars => Inv'
  BY TypeStep, LockStep, RestoredStep, RepairableStep, FollowsStep, PinStep, TemporaryStep
  DEF Inv, GitInv

\* It holds in every reachable state.
LEMMA Invariance == Spec => []Inv
  BY Initially, Inductive, PTL DEF Spec

\* The types of all variables, and that a process past its choice knows its
\* commit unless the branch is still to decide.
THEOREM Typing == Spec => []TypeOK
<1>1. Inv => TypeOK
  BY DEF Inv
<1> QED
  BY <1>1, Invariance, PTL

\* What a process compiles is whole, whoever else installs, restores or dies.
THEOREM ReadsWhole == Spec => []ReadsWholeCheckout
<1>1. Inv => ReadsWholeCheckout
  BY DEF Inv, GitInv, Restored, ReadsWholeCheckout, Here
<1> QED
  BY <1>1, Invariance, PTL

\* Without faults of the network or the disk no resolution fails, whatever
\* processes that died left behind.
THEOREM Recovers == Spec => []OnlyFaultsFail
<1>1. Inv => OnlyFaultsFail
  BY DEF Inv, GitInv, Repairable, OnlyFaultsFail
<1> QED
  BY <1>1, Invariance, PTL

\* At most one abandoned clone exists.
THEOREM Tidy == Spec => []OneTemporary
<1>1. Inv => OneTemporary
  BY DEF Inv
<1> QED
  BY <1>1, Invariance, PTL

Sticks ==
  selection # Null /\ checkout[selection] # Absent /\ selection' # selection =>
    \/ selection' = Null
    \/ \E p \in Process : pc[p] = "save" /\ pinned[p] = selection'

\* Only SaveSelection gives the selection a commit, and a process without a pin
\* saves the one that is selected already.
LEMMA SticksStep ==
  ASSUME Inv, [Next]_vars
  PROVE  Sticks
<1> USE DEF Inv, Sticks
<1>1. ASSUME NEW p \in Process, SaveSelection(p)
      PROVE  Sticks
  <2>1. CASE pinned[p] = Null
    BY <1>1, <2>1 DEF SaveSelection, GitInv, FollowsSelection, Locked
  <2>2. CASE pinned[p] # Null
    <3>1. pc[p] = "save" /\ selection' = commit[p]
      BY <1>1 DEF SaveSelection
    <3>2. commit[p] = pinned[p]
      BY <3>1, <2>2 DEF GitInv, FollowsPin, Locked
    <3> QED
      BY <3>1, <3>2
  <2> QED
    BY <2>1, <2>2
<1>2. ASSUME ForgetSelection
      PROVE  Sticks
  BY <1>2 DEF ForgetSelection
<1>3. ASSUME ~ \E p \in Process : SaveSelection(p), ~ForgetSelection
      PROVE  selection' = selection
  BY <1>3 DEF Next, Resolve, Outside, Open, Acquire, Choose, Restore, Rewrite,
     RestoreFails, RemoveSome, RemoveAll, StartClone, Fetch, Install, Rename, IoFails,
     Fail, Finish, Abandon, Push, Tamper, files, vars
<1> QED
  BY <1>1, <1>2, <1>3

\* The selection of a branch is shared: while its checkout exists nothing but a
\* user or a lockfile turns it to another commit.
THEOREM SelectionShared == Spec => SelectionSticks
<1>1. Inv /\ [Next]_vars => [Sticks]_vars
  BY SticksStep
<1>2. SelectionSticks <=> [][Sticks]_vars
  BY DEF SelectionSticks, Sticks
<1> QED
  BY <1>1, <1>2, Invariance, PTL DEF Spec
=============================================================================
