------------------------- MODULE BaselineStoreProofs -------------------------
(***************************************************************************)
(* The safety of the baseline store for any set of lineages, any threshold *)
(* and number of files, wherever the process dies and whatever write fails *)
(* or file is damaged.                                                     *)
(***************************************************************************)
EXTENDS BaselineStore, Extrema, FiniteSetTheorems

(* The frame of every step: which variables travel together.               *)
USE DEF tracker, disk, written, saving, status, Spend, Step
USE BoundsAssumption

-----------------------------------------------------------------------------
(* What is read and what is found.                                         *)

LEMMA CountsAreFinite == \A c : Cardinality(Discovered(c)) \in Nat
<1> TAKE c
<1>1. IsFiniteSet(Discovered(c))
  BY LineagesAssumption, FS_Subset DEF Discovered
<1> QED  BY <1>1, FS_CardinalityType

LEMMA StatusType == Status \in {"LEARNING", "STABILIZING", "STABLE"}
  BY DEF Status

LEMMA BlankType ==
    /\ Blank \in Snapshots /\ Blank.lastNew = 0 /\ Blank.stamp = 0
    /\ NoCounts \in [Lineages -> Nat]
<1>1. NoCounts \in [Lineages -> Nat]  BY DEF NoCounts
<1> QED  BY <1>1 DEF Blank, Snapshots

(* The dates of the files have a greatest. *)
LEMMA Newest ==
    ASSUME TypeOK, DOMAIN stamped # {}
    PROVE  Max(DOMAIN stamped) \in DOMAIN stamped /\ \A t \in DOMAIN stamped : t <= Max(DOMAIN stamped)
  BY MaxMember DEF TypeOK

(* What a restart finds is a snapshot of the past. *)
LEMMA SourceType ==
    ASSUME TypeOK, TimesInv PROVE Source \in Snapshots /\ Source.lastNew \in 0..now
<1>1. CASE latest \notin {Missing, Corrupt}
  BY <1>1 DEF Source, TypeOK, TimesInv, Snapshots
<1>2. CASE latest \in {Missing, Corrupt} /\ Valid # {}
  <2>1. Max(Valid) \in Valid  BY <1>2, MaxMember DEF Valid, TypeOK
  <2>2. Source = stamped[Max(Valid)]
    BY <1>2 DEF Source
  <2>3. stamped[Max(Valid)] \in Snapshots /\ stamped[Max(Valid)].lastNew <= now
    BY <2>1 DEF Valid, TypeOK, TimesInv
  <2>4. stamped[Max(Valid)].lastNew \in Nat
    BY <2>3, BoundsAssumption DEF Snapshots
  <2> QED  BY <2>2, <2>3, <2>4, BoundsAssumption DEF TypeOK
<1>3. CASE latest \in {Missing, Corrupt} /\ Valid = {}
  BY <1>3, BlankType DEF Source, TypeOK
<1> QED  BY <1>1, <1>2, <1>3

-----------------------------------------------------------------------------
(* The process forgets everything. *)
LEMMA ExitType ==
    ASSUME now \in 0..MaxNow, Exit, now' = now
    PROVE  /\ up' \in BOOLEAN /\ total' \in Nat /\ counts' \in [Lineages -> Nat]
           /\ lastNew' \in 0..now' /\ session' \in 0..now' /\ quiet' \in 0..MaxNow
           /\ {newStatus', lastStatus'} \subseteq {"LEARNING", "STABILIZING", "STABLE"}
<1>1. now \in Nat /\ 0 \in 0..now /\ 0 \in 0..MaxNow
  BY BoundsAssumption
<1>2. counts' \in [Lineages -> Nat]
  BY BlankType DEF Exit
<1> QED  BY <1>1, <1>2 DEF Exit

(* Every variable keeps to its type.                                       *)
LEMMA TypeStep == TypeOK /\ TimesInv /\ [Next]_vars => TypeOK'
<1> SUFFICES ASSUME TypeOK, TimesInv, [Next]_vars PROVE TypeOK'
  OBVIOUS
<1> USE DEF TypeOK
<1>1. CASE Tick
  BY <1>1 DEF Tick, TimesInv
<1>2. CASE Track
  BY <1>2 DEF Track
<1>3. CASE Save
  <2>1. CASE RunTick           BY <2>1, StatusType DEF RunTick
  <2>2. CASE Transition        BY <2>2 DEF Transition
  <2>3. CASE FinalSave         BY <2>3 DEF FinalSave
  <2>4. CASE ReadTotal
    <3>1. snap' \in Snapshots
      BY <2>4, BlankType DEF ReadTotal, Snapshots
    <3> QED  BY <2>4, <3>1 DEF ReadTotal
  <2>5. CASE ReadUnique
    <3>1. snap' \in Snapshots
      BY <2>5, CountsAreFinite DEF ReadUnique, Snapshots
    <3> QED  BY <2>5, <3>1 DEF ReadUnique
  <2>6. CASE ReadPatterns
    <3>1. snap' \in Snapshots
      BY <2>6 DEF ReadPatterns, Snapshots
    <3> QED  BY <2>6, <3>1 DEF ReadPatterns
  <2>7. CASE ReadStability
    <3>1. snap' \in Snapshots
      BY <2>7, StatusType DEF ReadStability, Snapshots
    <3> QED  BY <2>7, <3>1 DEF ReadStability
  <2>8. CASE ReadLastNew
    <3>1. snap' \in Snapshots
      <4>1. lastNew \in 0..MaxNow /\ saves + 1 \in Nat
        OBVIOUS
      <4>2. snap' = [snap EXCEPT !.lastNew = lastNew, !.serial = saves + 1]
        BY <2>8 DEF ReadLastNew
      <4> QED  BY <4>1, <4>2 DEF Snapshots
    <3> QED  BY <2>8, <3>1 DEF ReadLastNew
  <2>9. CASE WriteStamped
    <3>1. snap.stamp \in 0..MaxNow  BY DEF Snapshots
    <3>2. /\ DOMAIN stamped' \subseteq 0..MaxNow
          /\ \A t \in DOMAIN stamped' : stamped'[t] \in Snapshots \cup {Corrupt}
      BY <2>9, <3>1 DEF WriteStamped
    <3> QED  BY <2>9, <3>2 DEF WriteStamped
  <2>10. CASE WriteStampedFails  BY <2>10 DEF WriteStampedFails
  <2>11. CASE WriteLatest        BY <2>11 DEF WriteLatest
  <2>12. CASE WriteLatestFails   BY <2>12 DEF WriteLatestFails
  <2>13. CASE PruneOne
    <3>1. CASE /\ stamped' = Restrict(stamped, DOMAIN stamped \ {Min(doomed)})
               /\ UNCHANGED left
      BY <2>13, <3>1 DEF PruneOne, Restrict
    <3>2. CASE UNCHANGED stamped /\ left' = [left EXCEPT !["faults"] = @ - 1] /\ left["faults"] > 0
      BY <2>13, <3>2 DEF PruneOne
    <3> QED  BY <2>13, <3>1, <3>2 DEF PruneOne
  <2>14. CASE PruneDone          BY <2>14 DEF PruneDone
  <2>16. CASE ListDoomed         BY <2>16 DEF ListDoomed
  <2>17. CASE ListFails          BY <2>17 DEF ListFails
  <2>15. CASE SaveReturns
    <3>1. snap' \in Snapshots
      BY <2>15, BlankType DEF SaveReturns
    <3>2. CASE stopping
      BY <2>15, <3>1, <3>2, ExitType DEF SaveReturns
    <3>3. CASE ~stopping
      BY <2>15, <3>1, <3>3 DEF SaveReturns
    <3> QED  BY <3>2, <3>3
  <2> QED  BY <1>3, <2>1, <2>2, <2>3, <2>4, <2>5, <2>6, <2>7, <2>8, <2>9, <2>10, <2>11, <2>12,
              <2>13, <2>14, <2>15, <2>16, <2>17 DEF Save
<1>4. CASE Crash
  <2>1. snap' \in Snapshots
    BY <1>4, BlankType DEF Crash
  <2>2. left' \in [events : Nat, crashes : Nat, stops : Nat, faults : Nat]
    BY <1>4 DEF Crash
  <2> QED  BY <1>4, <2>1, <2>2, ExitType DEF Crash
<1>5. CASE Damage
  BY <1>5 DEF Damage
<1>6. CASE Restart
  <2>1. /\ Source.counts \in [Lineages -> Nat] /\ Source.total \in Nat
        /\ Source \in Snapshots /\ Source.lastNew \in 0..now
    BY SourceType DEF Snapshots
  <2> QED  BY <1>6, <2>1 DEF Restart
<1>7. CASE UNCHANGED vars
  BY <1>7 DEF vars
<1> QED  BY <1>1, <1>2, <1>3, <1>4, <1>5, <1>6, <1>7 DEF Next, Idle

-----------------------------------------------------------------------------
(* The clock and what was read of it.                                      *)
LEMMA TimesStep == TypeOK /\ TimesInv /\ [Next]_vars => TimesInv'
<1> SUFFICES ASSUME TypeOK, TimesInv, [Next]_vars PROVE TimesInv'
  OBVIOUS
<1> USE DEF TypeOK, TimesInv
<1>0. /\ snap.stamp \in Nat /\ snap.lastNew \in Nat
      /\ latest \notin {Missing, Corrupt} => latest.lastNew \in Nat
      /\ \A t \in DOMAIN stamped : stamped[t] # Corrupt => stamped[t].lastNew \in Nat
  BY DEF Snapshots
<1>1. CASE Tick
  BY <1>0, <1>1 DEF Tick
<1>2. CASE Track
  BY <1>2 DEF Track
<1>3. CASE Save
  <2>1. CASE RunTick           BY <2>1 DEF RunTick
  <2>2. CASE Transition        BY <2>2 DEF Transition
  <2>3. CASE FinalSave         BY <2>3 DEF FinalSave
  <2>4. CASE ReadTotal         BY <2>4 DEF ReadTotal, Blank
  <2>5. CASE ReadUnique        BY <2>5 DEF ReadUnique, Snapshots
  <2>6. CASE ReadPatterns      BY <2>6 DEF ReadPatterns, Snapshots
  <2>7. CASE ReadStability     BY <2>7 DEF ReadStability, Snapshots
  <2>8. CASE ReadLastNew       BY <2>8 DEF ReadLastNew, Snapshots
  <2>9. CASE WriteStamped      BY <2>9 DEF WriteStamped
  <2>10. CASE WriteStampedFails  BY <2>10 DEF WriteStampedFails
  <2>11. CASE WriteLatest        BY <2>11 DEF WriteLatest
  <2>12. CASE WriteLatestFails   BY <2>12 DEF WriteLatestFails
  <2>13. CASE PruneOne
    <3>1. CASE stamped' = Restrict(stamped, DOMAIN stamped \ {Min(doomed)})
      BY <2>13, <3>1 DEF PruneOne, Restrict
    <3>2. CASE UNCHANGED stamped
      BY <2>13, <3>2 DEF PruneOne
    <3> QED  BY <2>13, <3>1, <3>2 DEF PruneOne
  <2>14. CASE PruneDone          BY <2>14 DEF PruneDone
  <2>16. CASE ListDoomed         BY <2>16 DEF ListDoomed
  <2>17. CASE ListFails          BY <2>17 DEF ListFails
  <2>15. CASE SaveReturns
    <3>1. snap'.stamp <= now' /\ snap'.lastNew <= now'
      BY <2>15, BlankType DEF SaveReturns
    <3>2. quiet' <= now' /\ (up' => quiet' >= now' - lastNew' \/ quiet' >= now' - session')
      <4>1. CASE stopping   BY <2>15, <4>1 DEF SaveReturns, Exit
      <4>2. CASE ~stopping  BY <2>15, <4>2 DEF SaveReturns
      <4> QED  BY <4>1, <4>2
    <3> QED  BY <2>15, <3>1, <3>2 DEF SaveReturns
  <2> QED  BY <1>3, <2>1, <2>2, <2>3, <2>4, <2>5, <2>6, <2>7, <2>8, <2>9, <2>10, <2>11, <2>12,
              <2>13, <2>14, <2>15, <2>16, <2>17 DEF Save
<1>4. CASE Crash
  BY <1>4, BlankType DEF Crash, Exit
<1>5. CASE Damage
  BY <1>5 DEF Damage
<1>6. CASE Restart
  BY <1>6, SourceType DEF Restart
<1>7. CASE UNCHANGED vars
  BY <1>7 DEF vars
<1> QED  BY <1>1, <1>2, <1>3, <1>4, <1>5, <1>6, <1>7 DEF Next, Idle

-----------------------------------------------------------------------------
(* The files are finitely many, and so are those of any kind.              *)
LEMMA FilesAreFinite ==
    ASSUME TypeOK
    PROVE  /\ IsFiniteSet(DOMAIN stamped) /\ Cardinality(DOMAIN stamped) \in Nat
           /\ \A S \in SUBSET DOMAIN stamped :
                 IsFiniteSet(S) /\ Cardinality(S) \in Nat /\ Cardinality(S) <= Cardinality(DOMAIN stamped)
<1>1. IsFiniteSet(DOMAIN stamped)
  <2>1. DOMAIN stamped \in SUBSET (0..MaxNow) /\ IsFiniteSet(0..MaxNow)
    <3>1. 0 \in Int /\ MaxNow \in Int  OBVIOUS
    <3>2. IsFiniteSet(0..MaxNow)  BY <3>1, FS_Interval
    <3> QED  BY <3>2 DEF TypeOK
  <2> QED  BY <2>1, FS_Subset
<1> QED  BY <1>1, FS_Subset, FS_CardinalityType

(* What may go wrong is counted upwards.                                   *)
LEMMA MisfortunesGrow ==
    ASSUME TypeOK, TypeOK', OrderInv, LossInv, [Next]_vars
    PROVE  /\ Faults \in Nat /\ Crashes \in Nat /\ Faults' \in Nat /\ Crashes' \in Nat
           /\ Faults' >= Faults /\ Crashes' >= Crashes
<1>1. /\ left \in [events : Nat, crashes : Nat, stops : Nat, faults : Nat]
      /\ left.faults <= MaxFaults /\ left.crashes <= MaxCrashes
  BY DEF TypeOK, OrderInv, LossInv
<1>2. \/ left' = left
      \/ left' = [left EXCEPT !["events"] = @ - 1] \/ left' = [left EXCEPT !["crashes"] = @ - 1]
      \/ left' = [left EXCEPT !["stops"] = @ - 1] \/ left' = [left EXCEPT !["faults"] = @ - 1]
  BY DEF Next, Tick, Track, Save, RunTick, Transition, FinalSave, ReadTotal, ReadUnique,
         ReadPatterns, ReadStability, ReadLastNew, WriteStamped, WriteStampedFails, WriteLatest,
         WriteLatestFails, ListDoomed, ListFails, PruneOne, PruneDone, SaveReturns, Exit, Crash,
         Damage, Restart, Idle, vars
<1>3. left'.faults <= left.faults /\ left'.crashes <= left.crashes
  BY <1>1, <1>2
<1>4. left'.faults \in Nat /\ left'.crashes \in Nat
  BY DEF TypeOK
<1> QED  BY <1>1, <1>3, <1>4 DEF Faults, Crashes

-----------------------------------------------------------------------------
(* Nothing but the pruning and the writing of a snapshot touches the order *)
(* of the files.                                                           *)
Quiet == /\ DOMAIN stamped' = DOMAIN stamped /\ saves' = saves
         /\ \A t \in DOMAIN stamped : stamped'[t] \in {stamped[t], Corrupt}

(* The first half of NewestSurvivesPruning.                                *)
NewestIsLast == saves > 0 => \/ stamped[Max(DOMAIN stamped)] = Corrupt
                             \/ stamped[Max(DOMAIN stamped)].serial = saves

LEMMA NewestStays ==
    ASSUME TypeOK, NewestIsLast, OrderInv, Quiet
    PROVE  NewestIsLast'
  BY Newest DEF Quiet, NewestIsLast, OrderInv

LEMMA OrderStep ==
    ASSUME TypeOK, TimesInv, OrderInv, PruneInv, NewestIsLast, [Next]_vars
    PROVE  OrderInv' /\ NewestIsLast'
<1> USE DEF TypeOK, OrderInv
<1>1. CASE Tick
  <2>1. OrderInv'  BY <1>1 DEF Tick
  <2>2. Quiet      BY <1>1 DEF Tick, Quiet
  <2> QED  BY <2>1, <2>2, NewestStays
<1>2. CASE Track
  <2>1. OrderInv'  BY <1>2 DEF Track
  <2>2. Quiet      BY <1>2 DEF Track, Quiet
  <2> QED  BY <2>1, <2>2, NewestStays
<1>3. CASE WriteStamped
  <2>1. /\ DOMAIN stamped' = DOMAIN stamped \cup {snap.stamp}
        /\ stamped'[snap.stamp] = snap /\ saves' = saves + 1 /\ snap.serial = saves + 1
        /\ pc' = "latest" /\ UNCHANGED left
        /\ \A t \in DOMAIN stamped' : t <= snap.stamp
    BY <1>3 DEF WriteStamped, Snapshots
  <2>2. snap.stamp \in 0..MaxNow  BY DEF Snapshots
  <2>3. Max(DOMAIN stamped') = snap.stamp
    <3>1. DOMAIN stamped' \subseteq 0..MaxNow /\ snap.stamp \in DOMAIN stamped'
      BY <2>1, <2>2
    <3> QED  BY <2>1, <3>1, MaxIs
  <2> QED  BY <2>1, <2>3 DEF NewestIsLast
<1>4. CASE PruneOne
  <2> DEFINE D == DOMAIN stamped
             m == Min(doomed)
  <2>1. m \in doomed /\ m \in D
    BY <1>4, MinMember DEF PruneOne
  <2>2. D # {} /\ Max(D) \in D /\ \A t \in D : t <= Max(D)
    BY <2>1, Newest
  <2>3. Max(D) # m
    <3> SUFFICES ASSUME Max(D) = m PROVE FALSE
      OBVIOUS
    <3>1. Later(m) = {}  BY <2>2 DEF Later
    <3>2. Cardinality(Later(m)) = 0  BY <3>1, FS_EmptySet
    <3> QED  BY <2>1, <3>2, MaxSnapshotsAssumption DEF PruneInv
  <2>4. /\ saves' = saves /\ pc = "remove" /\ pc' = "remove" /\ snap' = snap
        /\ left'.crashes = left.crashes
    BY <1>4 DEF PruneOne
  <2>5. CASE stamped' = Restrict(stamped, D \ {m})
    <3>1. DOMAIN stamped' = D \ {m} /\ \A t \in D \ {m} : stamped'[t] = stamped[t]
      BY <2>5 DEF Restrict
    <3>2. Max(DOMAIN stamped') = Max(D)
      BY <2>2, <2>3, <3>1, MaxIs
    <3> HIDE DEF m
    <3> QED  BY <2>2, <2>3, <2>4, <3>1, <3>2 DEF NewestIsLast
  <2>6. CASE UNCHANGED stamped
    BY <2>4, <2>6, NewestStays DEF Quiet
  <2> QED  BY <1>4, <2>5, <2>6 DEF PruneOne
<1>5. CASE Save /\ ~WriteStamped /\ ~PruneOne
  <2>1. /\ UNCHANGED <<stamped, saves>>
        /\ left'.crashes = left.crashes
    BY <1>5 DEF Save, RunTick, Transition, FinalSave, ReadTotal, ReadUnique, ReadPatterns,
                ReadStability, ReadLastNew, WriteStampedFails, WriteLatest, WriteLatestFails,
                ListDoomed, ListFails, PruneDone, SaveReturns, Exit
  <2>2. Quiet  BY <2>1 DEF Quiet
  <2>4. NewestIsLast'  BY <2>2, NewestStays
  <2>5. CASE ReadTotal
    BY <2>1, <2>4, <2>5 DEF ReadTotal, Blank, TimesInv
  <2>6. CASE ReadUnique \/ ReadPatterns \/ ReadStability \/ ReadLastNew
    BY <2>1, <2>4, <2>6 DEF ReadUnique, ReadPatterns, ReadStability, ReadLastNew, Snapshots
  <2>7. CASE ~(ReadTotal \/ ReadUnique \/ ReadPatterns \/ ReadStability \/ ReadLastNew)
    <3>1. pc' \notin {"unique", "patterns", "stability", "lastNew", "stamped"}
      BY <1>5, <2>7 DEF Save, RunTick, Transition, FinalSave, WriteStampedFails, WriteLatest,
                        WriteLatestFails, ListDoomed, ListFails, PruneDone, SaveReturns
    <3> QED  BY <2>1, <2>4, <3>1
  <2> QED  BY <2>4, <2>5, <2>6, <2>7
<1>6. CASE Crash
  <2>1. /\ Quiet /\ pc' = "idle" /\ left'.crashes = left.crashes - 1 /\ left.crashes \in Nat
    BY <1>6 DEF Crash, Exit, Quiet
  <2> QED  BY <2>1, NewestStays DEF Quiet
<1>7. CASE Damage
  <2>1. Quiet /\ UNCHANGED <<pc, snap>> /\ left'.crashes = left.crashes
    BY <1>7 DEF Damage, Quiet
  <2> QED  BY <2>1, NewestStays DEF Quiet
<1>8. CASE Restart \/ UNCHANGED vars
  <2>1. UNCHANGED <<stamped, saves, pc, snap, left>>
    BY <1>8 DEF Restart, vars
  <2>2. Quiet  BY <2>1 DEF Quiet
  <2> QED  BY <2>1, <2>2, NewestStays
<1> QED  BY <1>1, <1>2, <1>3, <1>4, <1>5, <1>6, <1>7, <1>8 DEF Next, Idle

-----------------------------------------------------------------------------
(* How many files stay.  The second half of NewestSurvivesPruning.         *)
Window == {"latest", "prune", "remove"}

FewStay == pc \notin Window => Cardinality(DOMAIN stamped) <= MaxSnapshots + Faults + Crashes

(* A set without one of its members has one member less.                   *)
LEMMA RemoveOne ==
    ASSUME NEW S, NEW x \in S, IsFiniteSet(S)
    PROVE  Cardinality(S \ {x}) = Cardinality(S) - 1 /\ IsFiniteSet(S \ {x})
  BY FS_RemoveElement

(* No two files have as many younger ones, so at most MaxSnapshots have    *)
(* fewer than MaxSnapshots: the others are all that is to be removed.      *)
LEMMA FewAreKept ==
    ASSUME TypeOK
    PROVE  LET old == {t \in DOMAIN stamped : Cardinality(Later(t)) >= MaxSnapshots}
           IN  Cardinality(DOMAIN stamped) <= MaxSnapshots + Cardinality(old)
<1> DEFINE D   == DOMAIN stamped
           old == {t \in D : Cardinality(Later(t)) >= MaxSnapshots}
           new == D \ old
           f   == [t \in new |-> Cardinality(Later(t))]
<1>1. D \subseteq Nat /\ IsFiniteSet(D)
  BY FilesAreFinite DEF TypeOK
<1>2. \A t \in D : IsFiniteSet(Later(t)) /\ Cardinality(Later(t)) \in Nat
  BY FilesAreFinite DEF Later
<1>3. f \in [new -> 0..(MaxSnapshots - 1)]
  <2>1. \A t \in new : Cardinality(Later(t)) \in 0..(MaxSnapshots - 1)
    BY <1>2, MaxSnapshotsAssumption
  <2> QED  BY <2>1
<1>4. ASSUME NEW t \in new, NEW u \in new, t < u PROVE f[t] # f[u]
  <2>1. Later(u) \subseteq Later(t) /\ u \in Later(t) /\ u \notin Later(u)
    BY <1>1, <1>4 DEF Later
  <2>2. Cardinality(Later(t)) # Cardinality(Later(u))
    BY <1>2, <2>1, FS_Subset
  <2> QED  BY <2>2
<1>5. \A t, u \in new : f[t] = f[u] => t = u
  <2> SUFFICES ASSUME NEW t \in new, NEW u \in new, f[t] = f[u] PROVE t = u
    OBVIOUS
  <2>1. t \in Nat /\ u \in Nat  BY <1>1
  <2>2. ~(t < u) /\ ~(u < t)    BY <1>4
  <2> QED  BY <2>1, <2>2
<1>6. f \in Injection(new, 0..(MaxSnapshots - 1))
  BY <1>3, <1>5, Zenon DEF Injection, IsInjective
<1>7. Cardinality(new) <= MaxSnapshots
  <2>1. /\ IsFiniteSet(0..(MaxSnapshots - 1))
        /\ Cardinality(0..(MaxSnapshots - 1)) = MaxSnapshots
    <3>1. 0 \in Int /\ MaxSnapshots - 1 \in Int /\ ~(0 > MaxSnapshots - 1)
      BY MaxSnapshotsAssumption
    <3>2. Cardinality(0..(MaxSnapshots - 1)) = (MaxSnapshots - 1) - 0 + 1
      BY <3>1, FS_Interval
    <3> QED  BY <3>1, <3>2, FS_Interval, MaxSnapshotsAssumption
  <2> HIDE DEF f, new
  <2> QED  BY <1>6, <2>1, FS_Injection
<1>8. Cardinality(D) = Cardinality(new) + Cardinality(old)
  <2>1. D \cap old = old  OBVIOUS
  <2> HIDE DEF D, old
  <2>2. Cardinality(new) = Cardinality(D) - Cardinality(old)
    BY <1>1, <2>1, FS_Difference, ZenonT(60)
  <2>3. Cardinality(D) \in Nat /\ Cardinality(old) \in Nat
    BY <1>1, <2>1, FS_CardinalityType, FS_Subset
  <2> QED  BY <2>2, <2>3
<1>9. Cardinality(new) \in Nat /\ Cardinality(old) \in Nat
  BY FilesAreFinite
<1> HIDE DEF D, old, new, f
<1>10. Cardinality(D) <= MaxSnapshots + Cardinality(old)
  BY <1>7, <1>8, <1>9, MaxSnapshotsAssumption
<1> QED  BY <1>10 DEF D, old

(* A step that leaves the names of the files alone.                        *)
LEMMA PruneFrame ==
    ASSUME TypeOK, PruneInv, FewStay, DOMAIN stamped' = DOMAIN stamped, doomed' = doomed,
           pc' \in Window <=> pc \in Window, pc' = "remove" <=> pc = "remove",
           Faults \in Nat, Crashes \in Nat, Faults' \in Nat, Crashes' \in Nat,
           Faults' >= Faults, Crashes' >= Crashes
    PROVE  PruneInv' /\ FewStay'
<1>1. Cardinality(DOMAIN stamped) \in Nat /\ Cardinality(doomed) \in Nat
  BY FilesAreFinite DEF TypeOK
<1>2. \A t : Later(t)' = Later(t)  BY DEF Later
<1>3. pc' # "remove" => doomed' = {}  BY DEF PruneInv
<1>4. \A t \in doomed' : Cardinality(Later(t)') >= MaxSnapshots  BY <1>2 DEF PruneInv
<1>5. Cardinality(DOMAIN stamped') = Cardinality(DOMAIN stamped) /\ Cardinality(doomed') = Cardinality(doomed)
  OBVIOUS
<1> QED  BY <1>1, <1>3, <1>4, <1>5, MaxSnapshotsAssumption DEF PruneInv, FewStay, Window

LEMMA PruneStep ==
    ASSUME TypeOK, TypeOK', OrderInv, LossInv, PruneInv, FewStay, [Next]_vars
    PROVE  PruneInv' /\ FewStay'
<1> USE MaxSnapshotsAssumption
<1>0. /\ Faults \in Nat /\ Crashes \in Nat /\ Faults' \in Nat /\ Crashes' \in Nat
      /\ Faults' >= Faults /\ Crashes' >= Crashes
      /\ IsFiniteSet(DOMAIN stamped) /\ Cardinality(DOMAIN stamped) \in Nat
      /\ IsFiniteSet(doomed) /\ Cardinality(doomed) \in Nat
  BY MisfortunesGrow, FilesAreFinite DEF TypeOK
<1>1. CASE WriteStamped
  <2>1. /\ pc = "stamped" /\ pc' = "latest" /\ doomed' = {} /\ UNCHANGED left
        /\ DOMAIN stamped' = DOMAIN stamped \cup {snap.stamp}
    BY <1>1 DEF WriteStamped, PruneInv
  <2>2. Cardinality(DOMAIN stamped') <= Cardinality(DOMAIN stamped) + 1
    <3>1. CASE snap.stamp \in DOMAIN stamped
      <4>1. DOMAIN stamped' = DOMAIN stamped  BY <2>1, <3>1
      <4> QED  BY <1>0, <4>1
    <3>2. CASE snap.stamp \notin DOMAIN stamped
      <4>1. Cardinality(DOMAIN stamped \cup {snap.stamp}) = Cardinality(DOMAIN stamped) + 1
        BY <1>0, <3>2, FS_AddElement
      <4> QED  BY <1>0, <2>1, <4>1
    <3> QED  BY <3>1, <3>2
  <2>3. Cardinality(DOMAIN stamped) <= MaxSnapshots + Faults + Crashes
    BY <2>1 DEF FewStay, Window
  <2>4. Cardinality(DOMAIN stamped') \in Nat
    BY <1>0, <2>1, FS_AddElement, FS_CardinalityType
  <2> QED  BY <1>0, <2>1, <2>2, <2>3, <2>4 DEF PruneInv, FewStay, Window
<1>2. CASE ListDoomed
  <2>1. /\ pc = "prune" /\ pc' = "remove" /\ stamped' = stamped /\ left' = left
        /\ doomed' = {t \in DOMAIN stamped : Cardinality(Later(t)) >= MaxSnapshots}
    BY <1>2 DEF ListDoomed
  <2>2. Cardinality(DOMAIN stamped) <= MaxSnapshots + Cardinality(doomed')
    BY <2>1, FewAreKept
  <2>3. Cardinality(doomed') \in Nat
    BY <2>1, FilesAreFinite
  <2>4. \A t \in doomed' : Cardinality(Later(t)') >= MaxSnapshots
    BY <2>1 DEF Later
  <2>5. Cardinality(DOMAIN stamped) <= MaxSnapshots + Faults + Crashes + 1
    BY <2>1 DEF PruneInv
  <2> QED  BY <1>0, <2>1, <2>2, <2>3, <2>4, <2>5 DEF PruneInv, FewStay, Window
<1>3. CASE ListFails
  <2>1. /\ pc = "prune" /\ pc' = "exit" /\ stamped' = stamped /\ doomed' = doomed
        /\ Faults' = Faults + 1
    BY <1>3 DEF ListFails, Faults, TypeOK
  <2>2. doomed' = {} /\ Cardinality(DOMAIN stamped) <= MaxSnapshots + Faults + Crashes + 1
    BY <2>1 DEF PruneInv
  <2>3. Cardinality(DOMAIN stamped') <= MaxSnapshots + Faults' + Crashes'
    BY <1>0, <2>1, <2>2
  <2> QED  BY <2>1, <2>2, <2>3 DEF PruneInv, FewStay, Window
<1>4. CASE PruneOne
  <2> DEFINE m == Min(doomed)
  <2>1. /\ m \in doomed /\ m \in DOMAIN stamped /\ \A t \in doomed : m <= t
    BY <1>4, MinMember DEF PruneOne, TypeOK
  <2>2. /\ pc = "remove" /\ pc' = "remove" /\ doomed' = doomed \ {m}
    BY <1>4 DEF PruneOne
  <2>3. \A t \in doomed : t \in Nat /\ m \in Nat
    BY <2>1 DEF TypeOK
  <2>4. Cardinality(doomed') = Cardinality(doomed) - 1 /\ Cardinality(doomed') \in Nat
    <3>1. Cardinality(doomed \ {m}) = Cardinality(doomed) - 1 /\ IsFiniteSet(doomed \ {m})
      BY <1>0, <2>1, RemoveOne
    <3> QED  BY <2>2, <3>1, FS_CardinalityType
  <2>5. /\ Cardinality(DOMAIN stamped) <= MaxSnapshots + Cardinality(doomed) + Faults
        /\ Cardinality(DOMAIN stamped) <= MaxSnapshots + Faults + Crashes + 1
    BY <2>2 DEF PruneInv
  <2>6. CASE stamped' = Restrict(stamped, DOMAIN stamped \ {m}) /\ left' = left
    <3>1. DOMAIN stamped' = DOMAIN stamped \ {m}
      BY <2>6 DEF Restrict
    <3>2. Cardinality(DOMAIN stamped') = Cardinality(DOMAIN stamped) - 1
      <4>1. Cardinality(DOMAIN stamped \ {m}) = Cardinality(DOMAIN stamped) - 1
        BY <1>0, <2>1, RemoveOne
      <4> QED  BY <3>1, <4>1
    <3>3. ASSUME NEW t \in doomed' PROVE Cardinality(Later(t)') >= MaxSnapshots
      <4>1. t \in doomed /\ m <= t /\ m \in Nat /\ t \in Nat
        BY <2>1, <2>2, <2>3, <3>3
      <4>2. Later(t)' = Later(t)
        BY <3>1, <4>1 DEF Later
      <4> QED  BY <4>1, <4>2 DEF PruneInv
    <3> HIDE DEF m
    <3>4. Faults' = Faults /\ Crashes' = Crashes  BY <2>6 DEF Faults, Crashes
    <3> QED  BY <1>0, <2>2, <2>4, <2>5, <3>2, <3>3, <3>4 DEF PruneInv, FewStay, Window
  <2>7. CASE stamped' = stamped /\ left' = [left EXCEPT !["faults"] = @ - 1]
    <3>1. Faults' = Faults + 1  BY <2>7 DEF Faults, TypeOK
    <3>2. \A t \in doomed' : Cardinality(Later(t)') >= MaxSnapshots
      BY <2>2, <2>7 DEF PruneInv, Later
    <3> HIDE DEF m
    <3> QED  BY <1>0, <2>2, <2>4, <2>5, <2>7, <3>1, <3>2 DEF PruneInv, FewStay, Window
  <2> QED  BY <1>4, <2>6, <2>7 DEF PruneOne
<1>5. CASE PruneDone
  <2>1. pc = "remove" /\ pc' = "exit" /\ doomed = {} /\ doomed' = {} /\ stamped' = stamped /\ left' = left
    BY <1>5 DEF PruneDone
  <2>2. Cardinality(DOMAIN stamped) <= MaxSnapshots + Faults
    BY <1>0, <2>1, FS_EmptySet DEF PruneInv
  <2> QED  BY <1>0, <2>1, <2>2 DEF PruneInv, FewStay, Window
<1>6. CASE Crash
  <2>1. pc' = "idle" /\ doomed' = {} /\ stamped' = stamped /\ Crashes' = Crashes + 1
    BY <1>6 DEF Crash, Crashes, TypeOK
  <2>2. Cardinality(DOMAIN stamped) <= MaxSnapshots + Faults + Crashes + 1
    BY <1>0 DEF PruneInv, FewStay, Window
  <2> QED  BY <1>0, <2>1, <2>2 DEF PruneInv, FewStay, Window
<1>7. CASE Damage
  <2>1. DOMAIN stamped' = DOMAIN stamped /\ UNCHANGED <<pc, doomed>>
    BY <1>7 DEF Damage
  <2> QED  BY <1>0, <2>1, PruneFrame
<1>8. CASE \/ Tick \/ Track \/ Restart \/ UNCHANGED vars \/ WriteLatest \/ WriteLatestFails
           \/ RunTick \/ Transition \/ FinalSave \/ ReadTotal \/ ReadUnique \/ ReadPatterns
           \/ ReadStability \/ ReadLastNew \/ WriteStampedFails \/ SaveReturns
  <2>1. /\ stamped' = stamped /\ doomed' = doomed
        /\ pc' \in Window <=> pc \in Window
        /\ pc' = "remove" <=> pc = "remove"
    BY <1>8 DEF Tick, Track, Restart, vars, WriteLatest, WriteLatestFails, RunTick, Transition,
                FinalSave, ReadTotal, ReadUnique, ReadPatterns, ReadStability, ReadLastNew,
                WriteStampedFails, SaveReturns, Window
  <2> QED  BY <1>0, <2>1, PruneFrame
<1> QED  BY <1>1, <1>2, <1>3, <1>4, <1>5, <1>6, <1>7, <1>8 DEF Next, Save, Idle

-----------------------------------------------------------------------------
(* What crashes and faults cost.                                           *)
Allowed == Crashes + Faults + overwrites + (IF pc = "latest" THEN 1 ELSE 0)
Restored(file) == IF file = Missing THEN Blank ELSE file
Bad == IF latest = Corrupt THEN 1 ELSE 0

(* The clauses of LossInv about the two kinds of files. *)
LatestIsNew == latest # Corrupt /\ Faults <= MaxSnapshots => Age(Restored(latest)) <= Allowed
IsNewOrOld(t) == \/ Cardinality(Later(t)) >= MaxSnapshots
                 \/ Age(stamped[t]) <= Cardinality(Later(t)) + overwrites

LEMMA LossTypes ==
    ASSUME TypeOK, OrderInv, LossInv
    PROVE  /\ Crashes \in Nat /\ Faults \in Nat /\ overwrites \in Nat /\ Allowed \in Nat
           /\ saves \in Nat /\ Bad \in {0, 1}
           /\ Age(Restored(latest)) \in Int \/ latest = Corrupt
           /\ \A t \in Valid : stamped[t] \in Snapshots /\ Age(stamped[t]) \in Int
<1>1. Crashes \in Nat /\ Faults \in Nat
  BY DEF TypeOK, OrderInv, LossInv, Crashes, Faults
<1>2. latest # Corrupt => Age(Restored(latest)) \in Int
  BY BlankType DEF TypeOK, Restored, Age, Snapshots
<1>3. \A t \in Valid : stamped[t] \in Snapshots /\ Age(stamped[t]) \in Int
  BY DEF TypeOK, Valid, Age, Snapshots
<1> QED  BY <1>1, <1>2, <1>3 DEF TypeOK, Allowed, Bad

(* A step that leaves the files alone and does not lower what may have     *)
(* been lost.                                                              *)
LEMMA LossFrame ==
    ASSUME TypeOK, TypeOK', OrderInv, LossInv, UNCHANGED <<stamped, latest, written>>, Allowed' >= Allowed, Faults' >= Faults,
           ~up' => pc' = "idle", pc' = "latest" => snap'.serial = saves',
           left'.faults <= MaxFaults
    PROVE  LossInv'
<1>0. Allowed' \in Int /\ Faults' \in Int
  <2>1. left'.faults \in Nat /\ left'.crashes \in Nat /\ overwrites' \in Nat
    BY DEF TypeOK
  <2> QED  BY <2>1 DEF Allowed, Crashes, Faults
<1>1. Valid' = Valid /\ DOMAIN stamped' = DOMAIN stamped /\ saves' = saves /\ overwrites' = overwrites
  BY DEF Valid
<1>2. LatestIsNew
  BY DEF LossInv, LatestIsNew, Allowed, Restored
<1>3. LatestIsNew'
  <2>1. Age(Restored(latest))' = Age(Restored(latest))
    BY DEF Age, Restored
  <2> QED  BY <1>0, <1>2, <2>1, LossTypes, MaxSnapshotsAssumption DEF LatestIsNew
<1>4. \A t \in Valid' : IsNewOrOld(t)'
  BY <1>1 DEF LossInv, IsNewOrOld, Age, Later
<1>5. Cardinality(DOMAIN stamped' \ Valid') + Bad' <= Faults'
  <2>1. Cardinality(DOMAIN stamped \ Valid) + Bad <= Faults
    BY DEF LossInv, Bad
  <2>2. Cardinality(DOMAIN stamped \ Valid) \in Nat
    BY FilesAreFinite
  <2>3. Bad' = Bad
    BY DEF Bad
  <2> QED  BY <1>0, <1>1, <2>1, <2>2, <2>3, LossTypes
<1> QED  BY <1>1, <1>3, <1>4, <1>5 DEF LossInv, LatestIsNew, IsNewOrOld, Allowed, Restored, Bad

(* The writes of a snapshot. *)
LEMMA LossWriteStamped ==
    ASSUME TypeOK, TypeOK', OrderInv, LossInv, WriteStamped
    PROVE  LossInv'
<1> DEFINE s == snap.stamp
<1>0. /\ pc = "stamped" /\ pc' = "latest" /\ snap.serial = saves + 1 /\ up' = up /\ up
      /\ saves' = saves + 1 /\ UNCHANGED <<snap, latest, left>>
      /\ DOMAIN stamped' = DOMAIN stamped \cup {s} /\ stamped'[s] = snap
      /\ \A t \in DOMAIN stamped \ {s} : stamped'[t] = stamped[t]
      /\ \A t \in DOMAIN stamped : t <= s
      /\ overwrites' = IF s \in DOMAIN stamped THEN overwrites + 1 ELSE overwrites
  BY DEF WriteStamped, OrderInv
<1>1. /\ s \in Nat /\ DOMAIN stamped \subseteq Nat /\ snap # Corrupt /\ saves \in Nat /\ overwrites \in Nat
      /\ Allowed \in Nat /\ Faults' = Faults /\ Crashes' = Crashes /\ Faults \in Nat /\ Crashes \in Nat
  BY <1>0, FilesAssumption, LossTypes DEF TypeOK, Snapshots, Faults, Crashes
<1>2. Age(snap)' = 0
  BY <1>0, <1>1 DEF Age
<1>3. LatestIsNew'
  <2> SUFFICES ASSUME latest # Corrupt, Faults <= MaxSnapshots
               PROVE  Age(Restored(latest))' <= Allowed'
    BY <1>0, <1>1 DEF LatestIsNew
  <2>1. Age(Restored(latest)) <= Allowed /\ Age(Restored(latest)) \in Int
    BY LossTypes DEF LossInv, Allowed, Restored
  <2>2. Restored(latest).serial \in Int
    BY BlankType DEF TypeOK, Restored, Snapshots
  <2>3. Age(Restored(latest))' = Age(Restored(latest)) + 1
    BY <1>0, <1>1, <2>2 DEF Age, Restored
  <2>4. Allowed' >= Allowed + 1
    BY <1>0, <1>1 DEF Allowed
  <2>5. Allowed' \in Int
    BY <1>0, <1>1 DEF Allowed
  <2> QED  BY <1>1, <2>1, <2>3, <2>4, <2>5
<1>4. ASSUME NEW t \in Valid'
      PROVE  IsNewOrOld(t)'
  <2> USE MaxSnapshotsAssumption
  <2>1. CASE t = s
    <3>1. Age(stamped[t])' = 0
      BY <1>0, <1>2, <2>1 DEF Age
    <3>2. Cardinality(Later(t)') \in Nat
      <4>1. Later(t)' \subseteq DOMAIN stamped  BY <1>0, <1>1, <2>1 DEF Later
      <4> QED  BY <4>1, FilesAreFinite
    <3> QED  BY <1>0, <1>1, <3>1, <3>2 DEF IsNewOrOld
  <2>2. CASE t # s
    <3>1. t \in Valid /\ stamped'[t] = stamped[t]
      BY <1>0, <2>2 DEF Valid
    <3>2. IsNewOrOld(t) /\ Age(stamped[t]) \in Int
      BY <3>1, LossTypes DEF LossInv, IsNewOrOld
    <3>3. Age(stamped[t])' = Age(stamped[t]) + 1
      <4>1. stamped[t].serial \in Nat  BY <3>1, LossTypes DEF Snapshots
      <4> QED  BY <1>0, <1>1, <3>1, <4>1 DEF Age
    <3>4. Later(t)' = Later(t) \cup {s}
      <4>1. t <= s /\ t \in Nat  BY <1>0, <1>1, <3>1 DEF Valid
      <4> QED  BY <1>0, <1>1, <2>2, <4>1 DEF Later
    <3>5. IsFiniteSet(Later(t)) /\ Cardinality(Later(t)) \in Nat
      BY FilesAreFinite DEF Later
    <3>6. CASE s \in DOMAIN stamped
      <4>1. s \in Later(t)
        BY <1>0, <1>1, <2>2, <3>1, <3>6 DEF Later, Valid
      <4>2. Later(t)' = Later(t)  BY <3>4, <4>1
      <4>3. Cardinality(Later(t)') = Cardinality(Later(t)) /\ overwrites' = overwrites + 1
        BY <1>0, <3>6, <4>2
      <4> QED  BY <1>1, <3>2, <3>3, <3>5, <4>3 DEF IsNewOrOld
    <3>7. CASE s \notin DOMAIN stamped
      <4>1. s \notin Later(t)  BY <3>7 DEF Later
      <4>2. Cardinality(Later(t)') = Cardinality(Later(t)) + 1
        BY <3>4, <3>5, <4>1, FS_AddElement
      <4>3. overwrites' = overwrites  BY <1>0, <3>7
      <4> QED  BY <1>1, <3>2, <3>3, <3>5, <4>2, <4>3 DEF IsNewOrOld
    <3> QED  BY <3>6, <3>7
  <2> QED  BY <2>1, <2>2
<1>5. Cardinality(DOMAIN stamped' \ Valid') + Bad' <= Faults'
  <2>1. DOMAIN stamped' \ Valid' = (DOMAIN stamped \ Valid) \ {s}
    BY <1>0, <1>1 DEF Valid
  <2>2. /\ IsFiniteSet(DOMAIN stamped \ Valid) /\ Cardinality(DOMAIN stamped \ Valid) \in Nat
        /\ Cardinality((DOMAIN stamped \ Valid) \ {s}) \in Nat
    BY FilesAreFinite
  <2>3. Cardinality((DOMAIN stamped \ Valid) \ {s}) <= Cardinality(DOMAIN stamped \ Valid)
    BY <2>2, FS_Subset
  <2>4. Cardinality(DOMAIN stamped \ Valid) + Bad <= Faults /\ Bad' = Bad /\ Bad \in {0, 1}
    BY <1>0 DEF LossInv, Bad
  <2>5. Cardinality(DOMAIN stamped' \ Valid') = Cardinality((DOMAIN stamped \ Valid) \ {s})
    BY <2>1
  <2> HIDE DEF s
  <2> QED  BY <1>1, <2>2, <2>3, <2>4, <2>5
<1>6. \/ Cardinality(DOMAIN stamped') >= MaxSnapshots
      \/ saves' <= Cardinality(DOMAIN stamped') + overwrites'
  <2>1. IsFiniteSet(DOMAIN stamped) /\ Cardinality(DOMAIN stamped) \in Nat
    BY FilesAreFinite
  <2>2. \/ Cardinality(DOMAIN stamped) >= MaxSnapshots
        \/ saves <= Cardinality(DOMAIN stamped) + overwrites
    BY DEF LossInv
  <2>3. CASE s \in DOMAIN stamped
    <3>1. DOMAIN stamped' = DOMAIN stamped  BY <1>0, <2>3
    <3> QED  BY <1>0, <1>1, <2>1, <2>2, <2>3, <3>1
  <2>4. CASE s \notin DOMAIN stamped
    <3>1. Cardinality(DOMAIN stamped') = Cardinality(DOMAIN stamped) + 1
      BY <1>0, <2>1, <2>4, FS_AddElement
    <3> QED  BY <1>0, <1>1, <2>1, <2>2, <2>4, <3>1, MaxSnapshotsAssumption
  <2> QED  BY <2>3, <2>4
<1>7. (~up' => pc' = "idle") /\ (pc' = "latest" => snap'.serial = saves') /\ left'.faults <= MaxFaults
  BY <1>0 DEF LossInv
<1> QED  BY <1>3, <1>4, <1>5, <1>6, <1>7 DEF LossInv, LatestIsNew, IsNewOrOld, Allowed, Restored, Bad

LEMMA LossWriteLatest ==
    ASSUME TypeOK, TypeOK', OrderInv, LossInv, WriteLatest
    PROVE  LossInv'
<1>1. /\ pc = "latest" /\ pc' = "prune" /\ latest' = snap /\ snap.serial = saves /\ up /\ up' = up
      /\ UNCHANGED <<stamped, saves, overwrites, snap, left>>
  BY DEF WriteLatest, LossInv
<1>2. latest' # Corrupt /\ latest' # Missing
  BY <1>1, FilesAssumption DEF TypeOK
<1>3. Age(Restored(latest))' = 0
  <2>1. saves - saves = 0  BY LossTypes
  <2> QED  BY <1>1, <1>2, <2>1 DEF Age, Restored
<1>4. Allowed' >= 0
  BY <1>1, LossTypes DEF Allowed, Crashes, Faults
<1>5. Valid' = Valid /\ Bad' = 0 /\ Faults' = Faults
  BY <1>1, <1>2 DEF Valid, Bad, Faults
<1>6. \A t \in Valid' : IsNewOrOld(t)'
  BY <1>1, <1>5 DEF LossInv, IsNewOrOld, Age, Later
<1>7. Cardinality(DOMAIN stamped' \ Valid') + Bad' <= Faults'
  <2>1. Cardinality(DOMAIN stamped \ Valid) \in Nat  BY FilesAreFinite
  <2>2. Cardinality(DOMAIN stamped \ Valid) + Bad <= Faults /\ Bad \in {0, 1}
    BY DEF LossInv, Bad
  <2> QED  BY <1>1, <1>5, <2>1, <2>2, LossTypes
<1>8. pc' # "latest" /\ left'.faults <= MaxFaults /\ up'
  BY <1>1 DEF LossInv
<1>9. \/ Cardinality(DOMAIN stamped') >= MaxSnapshots
      \/ saves' <= Cardinality(DOMAIN stamped') + overwrites'
  BY <1>1 DEF LossInv
<1>10. Age(Restored(latest))' <= Allowed'
  BY <1>3, <1>4
<1> QED  BY <1>2, <1>6, <1>7, <1>8, <1>9, <1>10 DEF LossInv, IsNewOrOld, Allowed, Restored, Bad

(* The oldest file to be removed has enough younger ones, and they stay. *)
LEMMA LossPruneOne ==
    ASSUME TypeOK, TypeOK', OrderInv, PruneInv, LossInv, PruneOne,
           stamped' = Restrict(stamped, DOMAIN stamped \ {Min(doomed)}), UNCHANGED left
    PROVE  LossInv'
<1> DEFINE m == Min(doomed)
<1>1. /\ pc = "remove" /\ pc' = "remove" /\ up /\ up' = up
      /\ DOMAIN stamped' = DOMAIN stamped \ {m}
      /\ \A t \in DOMAIN stamped \ {m} : stamped'[t] = stamped[t]
      /\ UNCHANGED <<latest, saves, overwrites, snap, left>>
  BY DEF PruneOne, Restrict
<1>2. m \in DOMAIN stamped /\ m \in Nat /\ Cardinality(Later(m)) >= MaxSnapshots
  BY MinMember DEF PruneOne, PruneInv, TypeOK
<1> HIDE DEF m
<1>0. Cardinality(Later(m)) \in Nat
  BY FilesAreFinite DEF Later
<1>3. \A t \in Valid' : IsNewOrOld(t)'
  <2> SUFFICES ASSUME NEW t \in Valid' PROVE IsNewOrOld(t)'
    OBVIOUS
  <2>1. t \in Valid /\ t # m /\ stamped'[t] = stamped[t] /\ t \in Nat
    <3>1. t \in DOMAIN stamped'  BY DEF Valid
    <3>2. t \in DOMAIN stamped /\ t # m  BY <1>1, <3>1
    <3> QED  BY <1>1, <3>2 DEF Valid, TypeOK
  <2>2. CASE m < t
    <3>1. Later(t)' = Later(t)
      BY <1>1, <1>2, <2>1, <2>2 DEF Later
    <3> QED  BY <1>1, <2>1, <3>1 DEF LossInv, IsNewOrOld, Age
  <2>3. CASE t < m
    <3>1. Later(m) \subseteq Later(t)' /\ Later(t)' \subseteq DOMAIN stamped
      BY <1>1, <1>2, <2>1, <2>3, SMTT(30) DEF Later, TypeOK
    <3>2. IsFiniteSet(Later(t)') /\ Cardinality(Later(t)') \in Nat
      BY <3>1, FilesAreFinite
    <3>3. Cardinality(Later(t)') >= Cardinality(Later(m))
      BY <3>1, <3>2, FS_Subset
    <3> QED  BY <1>0, <1>2, <3>2, <3>3, MaxSnapshotsAssumption DEF IsNewOrOld
  <2> QED  BY <1>2, <2>1, <2>2, <2>3
<1>4. Cardinality(DOMAIN stamped' \ Valid') + Bad' <= Faults'
  <2>1. (DOMAIN stamped' \ Valid') \subseteq (DOMAIN stamped \ Valid)
    BY <1>1 DEF Valid
  <2>2. IsFiniteSet(DOMAIN stamped \ Valid) /\ Cardinality(DOMAIN stamped \ Valid) \in Nat
    BY FilesAreFinite
  <2>3. /\ Cardinality(DOMAIN stamped' \ Valid') <= Cardinality(DOMAIN stamped \ Valid)
        /\ Cardinality(DOMAIN stamped' \ Valid') \in Nat
    BY <2>1, <2>2, FS_Subset, FilesAreFinite
  <2>4. Cardinality(DOMAIN stamped \ Valid) + Bad <= Faults
    BY DEF LossInv, Bad
  <2>5. Bad' = Bad /\ Faults' = Faults
    BY <1>1 DEF Bad, Faults
  <2> QED  BY <2>2, <2>3, <2>4, <2>5, LossTypes
<1>5. Cardinality(DOMAIN stamped') >= MaxSnapshots
  <2>1. IsFiniteSet(DOMAIN stamped') /\ Cardinality(DOMAIN stamped') \in Nat
    BY <1>1, FilesAreFinite
  <2>2. Later(m) \subseteq DOMAIN stamped'
    BY <1>1, <1>2 DEF Later
  <2>3. Cardinality(Later(m)) <= Cardinality(DOMAIN stamped')
    BY <2>1, <2>2, FS_Subset
  <2> QED  BY <1>0, <1>2, <2>1, <2>3, MaxSnapshotsAssumption
<1>6. LatestIsNew'
  <2>1. LatestIsNew
    BY DEF LossInv, LatestIsNew, Allowed, Restored
  <2>2. Age(Restored(latest))' = Age(Restored(latest)) /\ Allowed' = Allowed /\ Faults' = Faults
    BY <1>1 DEF Age, Restored, Allowed, Crashes, Faults
  <2> QED  BY <1>1, <2>1, <2>2 DEF LatestIsNew
<1>7. (~up' => pc' = "idle") /\ (pc' = "latest" => snap'.serial = saves') /\ left'.faults <= MaxFaults
  BY <1>1 DEF LossInv
<1> QED  BY <1>3, <1>4, <1>5, <1>6, <1>7 DEF LossInv, LatestIsNew, IsNewOrOld, Allowed, Restored, Bad

(* Damage and healing. *)
LEMMA LossDamage ==
    ASSUME TypeOK, TypeOK', OrderInv, LossInv, Damage
    PROVE  LossInv'
<1>1. /\ ~up /\ ~up' /\ UNCHANGED <<pc, snap, saves, overwrites>> /\ DOMAIN stamped' = DOMAIN stamped
      /\ Faults' = Faults + 1 /\ Crashes' = Crashes /\ left'.faults <= MaxFaults
      /\ Allowed' = Allowed + 1
  <2>1. /\ ~up /\ ~up' /\ UNCHANGED <<pc, snap, saves, overwrites>> /\ DOMAIN stamped' = DOMAIN stamped
        /\ left'.faults = left.faults - 1 /\ left'.crashes = left.crashes
    BY DEF Damage, TypeOK
  <2>2. left.faults \in Nat /\ left.faults <= MaxFaults
    BY DEF TypeOK, LossInv
  <2>3. Faults' = Faults + 1 /\ Crashes' = Crashes
    BY <2>1, <2>2 DEF Faults, Crashes
  <2>4. Allowed' = Allowed + 1
    BY <2>1, <2>3, LossTypes DEF Allowed
  <2> QED  BY <2>1, <2>2, <2>3, <2>4
<1>2. /\ latest # Corrupt /\ Faults <= MaxSnapshots => Age(Restored(latest)) <= Allowed
      /\ latest # Corrupt => Age(Restored(latest)) \in Int
      /\ Cardinality(DOMAIN stamped \ Valid) + Bad <= Faults
  BY LossTypes DEF LossInv, Allowed, Restored, Bad
<1>3. LatestIsNew'
  <2> SUFFICES ASSUME latest' # Corrupt, Faults' <= MaxSnapshots
               PROVE  Age(Restored(latest))' <= Allowed'
    BY DEF LatestIsNew
  <2>1. latest' = latest
    BY DEF Damage
  <2>2. Age(Restored(latest))' = Age(Restored(latest))
    BY <1>1, <2>1 DEF Age, Restored
  <2> QED  BY <1>1, <1>2, <2>1, <2>2, LossTypes, MaxSnapshotsAssumption
<1>4. \A t \in Valid' : IsNewOrOld(t)'
  <2> SUFFICES ASSUME NEW t \in Valid'
               PROVE  IsNewOrOld(t)'
    OBVIOUS
  <2>1. t \in Valid /\ stamped'[t] = stamped[t]
    BY <1>1 DEF Damage, Valid, TypeOK
  <2>2. Later(t)' = Later(t)
    BY <1>1 DEF Later
  <2> QED  BY <1>1, <2>1, <2>2 DEF LossInv, IsNewOrOld, Age
<1>5. Cardinality(DOMAIN stamped' \ Valid') + Bad' <= Faults'
  <2>0. /\ IsFiniteSet(DOMAIN stamped \ Valid) /\ Cardinality(DOMAIN stamped \ Valid) \in Nat
        /\ Faults \in Nat /\ Bad \in {0, 1}
    BY FilesAreFinite, LossTypes
  <2>1. CASE latest' = Corrupt /\ UNCHANGED stamped
    <3>1. Valid' = Valid /\ Bad' <= Bad + 1 /\ Bad' \in {0, 1}
      BY <2>0, <2>1 DEF Valid, Bad
    <3> QED  BY <1>1, <1>2, <2>0, <3>1
  <2>2. ASSUME NEW t \in DOMAIN stamped, stamped' = [stamped EXCEPT ![t] = Corrupt], UNCHANGED latest
        PROVE  Cardinality(DOMAIN stamped' \ Valid') + Bad' <= Faults'
    <3>0. stamped'[t] = Corrupt /\ \A u \in DOMAIN stamped \ {t} : stamped'[u] = stamped[u]
      BY <2>2
    <3>1. DOMAIN stamped' \ Valid' = (DOMAIN stamped \ Valid) \cup {t} /\ Bad' = Bad
      BY <1>1, <2>2, <3>0 DEF Valid, Bad
    <3>2. \/ Cardinality((DOMAIN stamped \ Valid) \cup {t}) = Cardinality(DOMAIN stamped \ Valid)
          \/ Cardinality((DOMAIN stamped \ Valid) \cup {t}) = Cardinality(DOMAIN stamped \ Valid) + 1
      <4>1. CASE t \in DOMAIN stamped \ Valid
        <5>1. (DOMAIN stamped \ Valid) \cup {t} = DOMAIN stamped \ Valid  BY <4>1
        <5> QED  BY <5>1
      <4>2. CASE t \notin DOMAIN stamped \ Valid
        BY <2>0, <4>2, FS_AddElement
      <4> QED  BY <4>1, <4>2
    <3>3. Cardinality(DOMAIN stamped' \ Valid') = Cardinality((DOMAIN stamped \ Valid) \cup {t})
      BY <3>1
    <3> QED  BY <1>1, <1>2, <2>0, <3>1, <3>2, <3>3
  <2> QED  BY <2>1, <2>2 DEF Damage
<1>6. pc' = "idle"
  BY <1>1 DEF LossInv
<1>7. \/ Cardinality(DOMAIN stamped') >= MaxSnapshots
      \/ saves' <= Cardinality(DOMAIN stamped') + overwrites'
  BY <1>1 DEF LossInv
<1> QED  BY <1>1, <1>3, <1>4, <1>5, <1>6, <1>7 DEF LossInv, LatestIsNew, IsNewOrOld, Allowed, Restored, Bad

(* What a restart finds: the latest file, or the newest of the others, if  *)
(* the faults have left one.                                               *)
LEMMA SourceAge ==
    ASSUME TypeOK, OrderInv, LossInv, ~up, Faults <= MaxSnapshots, latest # Corrupt \/ Valid # {}
    PROVE  Age(Source) <= Crashes + Faults + overwrites /\ Source.serial \in Nat
<1>0. /\ Crashes \in Nat /\ Faults \in Nat /\ overwrites \in Nat /\ saves \in Nat
      /\ Allowed = Crashes + Faults + overwrites /\ MaxSnapshots \in Nat
  BY LossTypes, MaxSnapshotsAssumption DEF LossInv, Allowed
<1>1. CASE latest \notin {Missing, Corrupt}
  <2>1. Source = latest /\ Restored(latest) = latest /\ latest \in Snapshots
    BY <1>1 DEF Source, Restored, TypeOK
  <2>2. Age(Restored(latest)) <= Allowed
    BY <1>1 DEF LossInv, Allowed, Restored
  <2> QED  BY <1>0, <2>1, <2>2 DEF Snapshots
<1>2. CASE latest \in {Missing, Corrupt} /\ Valid # {}
  <2> DEFINE m == Max(Valid)
  <2>1. m \in Valid /\ \A t \in Valid : t <= m
    BY <1>2, MaxMember DEF Valid, TypeOK
  <2>2. Source = stamped[m] /\ stamped[m] \in Snapshots
    BY <1>2, <2>1, LossTypes DEF Source
  <2> HIDE DEF m
  <2>3. Later(m) \subseteq DOMAIN stamped \ Valid
    <3>1. DOMAIN stamped \subseteq Nat /\ Valid \subseteq DOMAIN stamped
      BY DEF TypeOK, Valid
    <3> QED  BY <2>1, <3>1 DEF Later
  <2>4. /\ Cardinality(Later(m)) <= Cardinality(DOMAIN stamped \ Valid)
        /\ Cardinality(Later(m)) \in Nat /\ Cardinality(DOMAIN stamped \ Valid) \in Nat
    BY <2>3, FilesAreFinite, FS_Subset
  <2>5. Cardinality(DOMAIN stamped \ Valid) + Bad <= Faults /\ Bad \in {0, 1}
    BY DEF LossInv, Bad
  <2>6. IsNewOrOld(m) /\ Age(stamped[m]) \in Int /\ stamped[m].serial \in Nat
    BY <2>1, LossTypes DEF LossInv, IsNewOrOld, Snapshots
  <2>7. CASE Age(stamped[m]) <= Cardinality(Later(m)) + overwrites
    BY <1>0, <2>2, <2>4, <2>5, <2>6, <2>7
  <2>8. CASE Cardinality(Later(m)) >= MaxSnapshots
    <3>1. Bad = 0
      BY <1>0, <2>4, <2>5, <2>8
    <3>2. latest = Missing
      BY <1>2, <3>1 DEF Bad
    <3>3. Age(Blank) <= Allowed
      BY <3>2, FilesAssumption DEF LossInv, Allowed
    <3>4. Age(stamped[m]) <= Age(Blank) /\ Age(Blank) \in Int
      BY <1>0, <2>6 DEF Age, Blank
    <3> QED  BY <1>0, <2>2, <2>6, <3>3, <3>4
  <2> QED  BY <2>6, <2>7, <2>8 DEF IsNewOrOld
<1>3. CASE latest = Missing /\ Valid = {}
  <2>1. Source = Blank /\ Restored(latest) = Blank /\ Blank.serial = 0
    BY <1>3 DEF Source, Restored, Blank
  <2>2. Age(Restored(latest)) <= Allowed
    BY <1>3, FilesAssumption DEF LossInv, Allowed, Restored
  <2> QED  BY <1>0, <2>1, <2>2
<1> QED  BY <1>1, <1>2, <1>3

LEMMA LossRestart ==
    ASSUME TypeOK, TypeOK', TimesInv, OrderInv, LossInv, Restart
    PROVE  LossInv'
<1>1. /\ ~up /\ pc = "idle" /\ pc' = "idle" /\ UNCHANGED <<snap, stamped, saves, overwrites, left>>
      /\ Allowed' = Allowed /\ Faults' = Faults /\ left'.faults <= MaxFaults
  BY DEF Restart, LossInv, Allowed, Faults, Crashes
<1>2. CASE latest' = latest
  <2>1. Allowed' >= Allowed /\ Faults' >= Faults
    BY <1>1, LossTypes
  <2> QED  BY <1>1, <1>2, <2>1, LossFrame
<1>3. CASE latest = Corrupt /\ Source # Blank /\ latest' = Source
  <2>1. Valid # {}
    BY <1>3 DEF Source
  <2>2. Source \in Snapshots
    BY SourceType
  <2>3. Restored(latest)' = Source /\ Bad' = 0 /\ Valid' = Valid
    BY <1>1, <1>3, <2>2, FilesAssumption DEF Restored, Bad, Valid
  <2>4. LatestIsNew'
    <3> SUFFICES ASSUME Faults <= MaxSnapshots PROVE Age(Restored(latest))' <= Allowed'
      BY <1>1 DEF LatestIsNew
    <3>1. Age(Source) <= Allowed
      BY <1>1, <2>1, SourceAge, LossTypes DEF Allowed
    <3>2. Age(Restored(latest))' = Age(Source)
      BY <1>1, <2>3 DEF Age
    <3> QED  BY <1>1, <3>1, <3>2
  <2>5. \A t \in Valid' : IsNewOrOld(t)'
    BY <1>1, <2>3 DEF LossInv, IsNewOrOld, Age, Later
  <2>6. Cardinality(DOMAIN stamped' \ Valid') + Bad' <= Faults'
    <3>1. Cardinality(DOMAIN stamped \ Valid) \in Nat  BY FilesAreFinite
    <3>2. Cardinality(DOMAIN stamped \ Valid) + Bad <= Faults /\ Bad \in {0, 1}
      BY DEF LossInv, Bad
    <3> QED  BY <1>1, <2>3, <3>1, <3>2, LossTypes
  <2>7. \/ Cardinality(DOMAIN stamped') >= MaxSnapshots
        \/ saves' <= Cardinality(DOMAIN stamped') + overwrites'
    BY <1>1 DEF LossInv
  <2> QED  BY <1>1, <2>4, <2>5, <2>6, <2>7 DEF LossInv, LatestIsNew, IsNewOrOld, Allowed, Restored, Bad
<1> QED  BY <1>2, <1>3 DEF Restart

LEMMA LossStep ==
    ASSUME TypeOK, TypeOK', TimesInv, OrderInv, PruneInv, LossInv, [Next]_vars
    PROVE  LossInv'
<1>0. /\ left.crashes \in Nat /\ left.faults \in Nat /\ overwrites \in Nat
      /\ left.faults <= MaxFaults /\ left.crashes <= MaxCrashes
  BY DEF TypeOK, LossInv, OrderInv
<1>1. CASE \/ Crash \/ WriteStampedFails \/ WriteLatestFails \/ ListFails
           \/ PruneOne /\ UNCHANGED stamped /\ Spend("faults")
  <2>1. UNCHANGED <<stamped, latest, written>> /\ pc' # "latest" /\ (~up' => pc' = "idle")
    BY <1>1 DEF Crash, Exit, WriteStampedFails, WriteLatestFails, ListFails, PruneOne, LossInv
  <2>2. \/ left'.crashes = left.crashes - 1 /\ left'.faults = left.faults
        \/ left'.crashes = left.crashes /\ left'.faults = left.faults - 1
    BY <1>1 DEF Crash, WriteStampedFails, WriteLatestFails, ListFails, PruneOne, TypeOK
  <2>3. /\ Crashes' + Faults' = Crashes + Faults + 1 /\ overwrites' = overwrites
        /\ Crashes' \in Int /\ Faults' \in Int /\ Faults' >= Faults /\ left'.faults <= MaxFaults
    BY <1>0, <2>1, <2>2 DEF Faults, Crashes
  <2>4. Allowed' >= Allowed
    BY <2>1, <2>3, LossTypes DEF Allowed
  <2> QED  BY <2>1, <2>3, <2>4, LossFrame
<1>2. CASE Tick \/ Track \/ UNCHANGED vars
  <2>1. UNCHANGED <<disk, up, pc, snap>> /\ left'.faults = left.faults /\ left'.crashes = left.crashes
    BY <1>2 DEF Tick, Track, vars, TypeOK
  <2>2. Allowed' >= Allowed /\ Faults' >= Faults
    BY <1>0, <2>1 DEF Allowed, Crashes, Faults
  <2> QED  BY <1>0, <2>1, <2>2, LossFrame DEF LossInv
<1>3. CASE \/ RunTick \/ Transition \/ FinalSave \/ ReadTotal \/ ReadUnique \/ ReadPatterns
           \/ ReadStability \/ ReadLastNew \/ ListDoomed \/ PruneDone \/ SaveReturns
  <2>1. /\ UNCHANGED <<stamped, latest, written>> /\ pc # "latest" /\ pc' # "latest"
        /\ left'.faults = left.faults /\ left'.crashes = left.crashes
        /\ ~up' => pc' = "idle"
    BY <1>3 DEF RunTick, Transition, FinalSave, ReadTotal, ReadUnique, ReadPatterns,
                ReadStability, ReadLastNew, ListDoomed, PruneDone, SaveReturns, Exit, TypeOK, LossInv
  <2>2. Allowed' >= Allowed /\ Faults' >= Faults
    BY <1>0, <2>1 DEF Allowed, Crashes, Faults
  <2> QED  BY <1>0, <2>1, <2>2, LossFrame
<1>4. CASE WriteStamped  BY <1>4, LossWriteStamped
<1>5. CASE WriteLatest   BY <1>5, LossWriteLatest
<1>6. CASE PruneOne
  BY <1>1, <1>6, LossPruneOne DEF PruneOne
<1>7. CASE Damage        BY <1>7, LossDamage
<1>8. CASE Restart       BY <1>8, LossRestart
<1> QED  BY <1>1, <1>2, <1>3, <1>4, <1>5, <1>6, <1>7, <1>8 DEF Next, Save, Idle

-----------------------------------------------------------------------------
LEMMA InitInv == Init => IInv
<1> SUFFICES ASSUME Init PROVE IInv
  OBVIOUS
<1> USE DEF Init
<1>1. TypeOK
  <2>1. snap \in Snapshots /\ counts \in [Lineages -> Nat]  BY BlankType
  <2>2. now = 0 /\ lastNew = 0 /\ session = 0 /\ 0 \in 0..0 /\ 0 \in 0..MaxNow  OBVIOUS
  <2>3. left \in [events : Nat, crashes : Nat, stops : Nat, faults : Nat]  OBVIOUS
  <2> QED  BY <2>1, <2>2, <2>3 DEF TypeOK
<1>2. TimesInv  BY BlankType DEF TimesInv
<1>3. OrderInv  BY DEF OrderInv
<1>4. NewestSurvivesPruning
  BY FS_EmptySet, MaxSnapshotsAssumption DEF NewestSurvivesPruning, Faults, Crashes
<1>5. LossInv
  <2>1. DOMAIN stamped = {} /\ Valid = {}  BY DEF Valid
  <2>2. Cardinality(DOMAIN stamped) = 0 /\ Cardinality(DOMAIN stamped \ Valid) = 0
    BY <2>1, FS_EmptySet
  <2>3. Crashes = 0 /\ Faults = 0  BY DEF Crashes, Faults
  <2>4. Age(Blank) = 0  BY DEF Age, Blank
  <2> QED  BY <2>1, <2>2, <2>3, <2>4, FilesAssumption DEF LossInv
<1>6. PruneInv  BY DEF PruneInv
<1> QED  BY <1>1, <1>2, <1>3, <1>4, <1>5, <1>6 DEF IInv

(* The inductive invariant holds.                                          *)
THEOREM InvariantHolds == Spec => []IInv
<1>1. IInv /\ [Next]_vars => IInv'
  BY TypeStep, TimesStep, OrderStep, PruneStep, LossStep
     DEF IInv, NewestSurvivesPruning, NewestIsLast, FewStay, Window
<1> QED  BY InitInv, <1>1, PTL DEF Spec

(* Every variable keeps to its type.                                       *)
THEOREM TypeCorrect == Spec => []TypeOK
<1>1. IInv => TypeOK  BY DEF IInv
<1> QED  BY InvariantHolds, <1>1, PTL

(* The youngest file is the snapshot written last, whatever was pruned and *)
(* whatever could not be, and no more files stay than were asked for but   *)
(* one for each fault and each crash (baseline.go:128-134, 280-307).       *)
THEOREM PruningIsSafe == Spec => []NewestSurvivesPruning
<1>1. IInv => NewestSurvivesPruning  BY DEF IInv
<1> QED  BY InvariantHolds, <1>1, PTL

(* Whatever steps the process died at, whatever writes failed and files    *)
(* were damaged, each of them costs the next start one snapshot at most,   *)
(* and so does a snapshot that replaced one of the same tick; as long as   *)
(* the faults are no more than the files kept (baseline.go:111-131 and     *)
(* 146-224).                                                               *)
THEOREM LossIsBounded == Spec => []EachFaultCostsOneSnapshot
<1>1. ASSUME IInv PROVE EachFaultCostsOneSnapshot
  <2> SUFFICES ASSUME ~up, Faults <= MaxSnapshots
               PROVE  Source.serial >= saves - Crashes - Faults - overwrites
    BY DEF EachFaultCostsOneSnapshot
  <2>0. /\ TypeOK /\ OrderInv /\ LossInv
        /\ Crashes \in Nat /\ Faults \in Nat /\ overwrites \in Nat /\ saves \in Nat
    BY <1>1, LossTypes DEF IInv
  <2>1. CASE latest # Corrupt \/ Valid # {}
    <3>1. Age(Source) <= Crashes + Faults + overwrites /\ Source.serial \in Nat
      BY <2>0, <2>1, SourceAge
    <3> QED  BY <2>0, <3>1 DEF Age
  <2>2. CASE latest = Corrupt /\ Valid = {}
    <3>1. Source.serial = 0
      BY <2>2 DEF Source, Blank
    <3>2. Cardinality(DOMAIN stamped) + 1 <= Faults /\ Cardinality(DOMAIN stamped) \in Nat
      <4>1. DOMAIN stamped \ Valid = DOMAIN stamped  BY <2>2
      <4> QED  BY <2>0, <2>2, <4>1, FilesAreFinite DEF LossInv
    <3>3. saves <= Cardinality(DOMAIN stamped) + overwrites
      BY <2>0, <3>2, MaxSnapshotsAssumption DEF LossInv
    <3> QED  BY <2>0, <3>1, <3>2, <3>3
  <2> QED  BY <2>1, <2>2
<1> QED  BY <1>1, InvariantHolds, PTL

(* What main.go:518-523 and baseline.go:111-131 achieve together: as long  *)
(* as no process died in the middle and no write failed, the latest file   *)
(* is the last snapshot, also when it shares a tick with another.          *)
CleanInv ==
    /\ saves = 0 => DOMAIN stamped = {}
    /\ pc = "latest" => saves > 0
    /\ Crashes = 0 /\ Faults = 0 =>
          \/ saves = 0 /\ latest = Missing
          \/ pc = "latest" /\ latest # Corrupt
          \/ latest \notin {Missing, Corrupt} /\ latest.serial = saves

LEMMA CleanStep == IInv /\ CleanInv /\ [Next]_vars => CleanInv'
<1> SUFFICES ASSUME IInv, CleanInv, [Next]_vars PROVE CleanInv'
  OBVIOUS
<1> USE FilesAssumption DEF CleanInv, Crashes, Faults
<1>0. /\ saves \in Nat /\ snap \in Snapshots /\ left.crashes \in 0..MaxCrashes
      /\ left \in [events : Nat, crashes : Nat, stops : Nat, faults : Nat]
      /\ left.faults \in 0..MaxFaults /\ (pc = "latest" => snap.serial = saves)
  BY DEF IInv, TypeOK, OrderInv, LossInv
<1>1. CASE Tick \/ Idle \/ UNCHANGED vars
  BY <1>1 DEF Tick, Idle, vars
<1>2. CASE Track
  BY <1>0, <1>2 DEF Track
<1>3. CASE Save
  <2>1. CASE RunTick \/ Transition \/ FinalSave \/ ReadTotal \/ ReadUnique \/ ReadPatterns
             \/ ReadStability \/ ReadLastNew \/ ListDoomed \/ PruneDone
    BY <1>0, <2>1 DEF RunTick, Transition, FinalSave, ReadTotal, ReadUnique, ReadPatterns,
                      ReadStability, ReadLastNew, ListDoomed, PruneDone
  <2>2. CASE WriteStamped
    BY <1>0, <2>2 DEF WriteStamped
  <2>3. CASE WriteStampedFails \/ ListFails
    BY <1>0, <2>3 DEF WriteStampedFails, ListFails
  <2>4. CASE WriteLatest
    BY <1>0, <2>4 DEF WriteLatest
  <2>5. CASE WriteLatestFails
    BY <1>0, <2>5 DEF WriteLatestFails
  <2>6. CASE PruneOne
    <3>1. DOMAIN stamped # {}
      BY <2>6 DEF PruneOne, IInv, TypeOK
    <3>2. /\ saves' = saves /\ latest' = latest /\ pc # "latest" /\ pc' # "latest"
          /\ \/ left' = left
             \/ left' = [left EXCEPT !["faults"] = @ - 1] /\ left["faults"] > 0
      BY <2>6 DEF PruneOne
    <3> QED  BY <1>0, <3>1, <3>2
  <2>7. CASE SaveReturns
    BY <1>0, <2>7 DEF SaveReturns, Exit
  <2> QED  BY <1>3, <2>1, <2>2, <2>3, <2>4, <2>5, <2>6, <2>7 DEF Save
<1>4. CASE Crash
  BY <1>0, <1>4 DEF Crash
<1>5. CASE Damage
  BY <1>0, <1>5 DEF Damage
<1>6. CASE Restart
  BY <1>0, <1>6 DEF Restart
<1> QED  BY <1>1, <1>2, <1>3, <1>4, <1>5, <1>6 DEF Next

(* That a start restores the most recent snapshot, as baseline.go:145 says,*)
(* fails for one reason only: a process that died in the middle of a save. *)
(* With orderly stops it holds, however many there were.                   *)
THEOREM OnlyCrashesLoseSnapshots == Spec => [](Crashes = 0 => RestoresMostRecent)
<1>1. Init => CleanInv
  BY FilesAssumption DEF Init, CleanInv
<1>2. IInv /\ CleanInv => (Crashes = 0 => RestoresMostRecent)
  <2> SUFFICES ASSUME IInv, CleanInv, Crashes = 0, ~up, Faults = 0
               PROVE  Source.serial = saves
    BY DEF RestoresMostRecent
  <2>1. pc = "idle"  BY DEF IInv, LossInv
  <2>2. CASE saves = 0 /\ latest = Missing
    <3>1. Valid = {}  BY <2>2 DEF CleanInv, Valid
    <3> QED  BY <2>2, <3>1 DEF Source, Blank
  <2>3. CASE latest \notin {Missing, Corrupt} /\ latest.serial = saves
    BY <2>3 DEF Source
  <2> QED  BY <2>1, <2>2, <2>3 DEF CleanInv
<1> QED  BY <1>1, <1>2, CleanStep, InvariantHolds, PTL DEF Spec

(* A snapshot is read in six calls while the workers write, so its number  *)
(* of patterns and its patterns may disagree (types.go:70,                 *)
(* baseline.go:101-109); but the number is read first and patterns only    *)
(* grow.                                                                   *)
NoneMissing(snapshot) == snapshot.unique <= Cardinality(Discovered(snapshot.counts))

(* No file that decodes counts a pattern it lacks.                         *)
FilesListPatterns ==
    /\ \A t \in Valid : NoneMissing(stamped[t])
    /\ latest \notin {Missing, Corrupt} => NoneMissing(latest)

TornInv ==
    /\ pc = "patterns" => snap.unique <= Cardinality(Discovered(counts))
    /\ pc \notin {"unique", "patterns"} => NoneMissing(snap)
    /\ \A t \in Valid : NoneMissing(stamped[t])
    /\ latest \notin {Missing, Corrupt} => NoneMissing(latest)

LEMMA BlankHasNone == NoneMissing(Blank)
<1>1. Cardinality(Discovered(NoCounts)) \in Nat  BY CountsAreFinite
<1> QED  BY <1>1 DEF NoneMissing, Blank

LEMMA PatternsGrow ==
    ASSUME TypeOK, NEW l \in Lineages
    PROVE  Cardinality(Discovered(counts))
              <= Cardinality(Discovered([counts EXCEPT ![l] = @ + 1]))
<1> DEFINE more == [counts EXCEPT ![l] = @ + 1]
<1>1. Discovered(counts) \subseteq Discovered(more)
  BY DEF TypeOK, Discovered
<1>2. IsFiniteSet(Discovered(more))
  BY LineagesAssumption, FS_Subset DEF Discovered
<1> QED  BY <1>1, <1>2, FS_Subset

LEMMA TornStep == IInv /\ TornInv /\ [Next]_vars => TornInv'
<1> SUFFICES ASSUME IInv, TornInv, [Next]_vars PROVE TornInv'
  OBVIOUS
<1> USE FilesAssumption DEF Valid
<1>0. TypeOK  BY DEF IInv
<1>1. CASE Tick \/ Idle \/ UNCHANGED vars
  BY <1>1 DEF Tick, Idle, vars, TornInv, Discovered, NoneMissing
<1>2. CASE Track
  <2>1. /\ snap.unique \in Nat /\ Cardinality(Discovered(counts)) \in Nat
        /\ Cardinality(Discovered(counts')) \in Nat
    BY <1>0, CountsAreFinite DEF TypeOK, Snapshots
  <2>2. Cardinality(Discovered(counts)) <= Cardinality(Discovered(counts'))
    <3>1. CASE counts' = counts  BY <2>1, <3>1
    <3>2. CASE \E l \in Lineages : counts' = [counts EXCEPT ![l] = @ + 1]
      BY <1>0, <3>2, PatternsGrow
    <3> QED  BY <1>2, <3>1, <3>2 DEF Track
  <2>3. snap' = snap /\ pc' = pc /\ stamped' = stamped /\ latest' = latest
    BY <1>2 DEF Track
  <2> QED  BY <2>1, <2>2, <2>3 DEF TornInv, NoneMissing, Discovered
<1>3. CASE Save
  <2>1. CASE RunTick \/ Transition \/ FinalSave \/ WriteStampedFails \/ WriteLatest
             \/ WriteLatestFails \/ ListDoomed \/ ListFails \/ PruneDone
    BY <2>1 DEF RunTick, Transition, FinalSave, WriteStampedFails, WriteLatest,
                WriteLatestFails, ListDoomed, ListFails, PruneDone, TornInv, NoneMissing, Discovered
  <2>2. CASE ReadTotal
    BY <2>2 DEF ReadTotal, TornInv, NoneMissing, Discovered
  <2>3. CASE ReadUnique
    <3>1. snap'.unique = Cardinality(Discovered(counts)) /\ counts' = counts
      BY <1>0, <2>3 DEF ReadUnique, TypeOK, Snapshots
    <3>2. Cardinality(Discovered(counts)) \in Nat  BY CountsAreFinite
    <3> QED  BY <2>3, <3>1, <3>2 DEF ReadUnique, TornInv, NoneMissing, Discovered
  <2>4. CASE ReadPatterns
    <3>1. snap'.unique = snap.unique /\ snap'.counts = counts
      BY <1>0, <2>4 DEF ReadPatterns, TypeOK, Snapshots
    <3> QED  BY <2>4, <3>1 DEF ReadPatterns, TornInv, NoneMissing, Discovered
  <2>5. CASE ReadStability \/ ReadLastNew
    <3>1. snap'.unique = snap.unique /\ snap'.counts = snap.counts
      BY <1>0, <2>5 DEF ReadStability, ReadLastNew, TypeOK, Snapshots
    <3> QED  BY <2>5, <3>1 DEF ReadStability, ReadLastNew, TornInv, NoneMissing, Discovered
  <2>6. CASE WriteStamped
    BY <2>6 DEF WriteStamped, TornInv, NoneMissing, Discovered
  <2>7. CASE PruneOne
    BY <2>7 DEF PruneOne, TornInv, NoneMissing, Discovered, Restrict
  <2>8. CASE SaveReturns
    BY <2>8, BlankHasNone DEF SaveReturns, TornInv, NoneMissing, Discovered
  <2> QED  BY <1>3, <2>1, <2>2, <2>3, <2>4, <2>5, <2>6, <2>7, <2>8 DEF Save
<1>4. CASE Crash
  BY <1>4, BlankHasNone DEF Crash, TornInv, NoneMissing, Discovered
<1>5. CASE Damage
  BY <1>5 DEF Damage, TornInv, NoneMissing, Discovered
<1>6. CASE Restart
  <2>1. NoneMissing(Source)
    <3>1. CASE latest \notin {Missing, Corrupt}  BY <3>1 DEF Source, TornInv
    <3>2. CASE latest \in {Missing, Corrupt} /\ Valid # {}
      <4>1. Max(Valid) \in Valid  BY <1>0, <3>2, MaxMember DEF TypeOK
      <4> QED  BY <3>2, <4>1 DEF Source, TornInv
    <3>3. CASE latest \in {Missing, Corrupt} /\ Valid = {}
      BY <3>3, BlankHasNone DEF Source
    <3> QED  BY <3>1, <3>2, <3>3
  <2>2. /\ pc' = pc /\ snap' = snap /\ stamped' = stamped
        /\ latest' = latest \/ latest' = Source
    BY <1>6 DEF Restart
  <2>3. pc = "idle"  BY <1>6 DEF Restart, IInv, LossInv
  <2> QED  BY <2>1, <2>2, <2>3 DEF TornInv, NoneMissing, Discovered
<1> QED  BY <1>1, <1>2, <1>3, <1>4, <1>5, <1>6 DEF Next

(* A snapshot that is not one state of the tracker is so in one direction: *)
(* a file that decodes may list more patterns than it counts, never fewer, *)
(* whatever it was restored from and whatever the workers did meanwhile    *)
(* (types.go:70, baseline.go:101-109).                                     *)
THEOREM FilesListWhatTheyCount == Spec => []FilesListPatterns
<1>1. Init => TornInv
  BY BlankHasNone, FilesAssumption DEF Init, TornInv, Valid
<1>2. TornInv => FilesListPatterns
  BY FilesAssumption DEF TornInv, FilesListPatterns, Valid
<1> QED  BY <1>1, <1>2, TornStep, InvariantHolds, PTL DEF Spec

(* STABLE is never announced before this process has watched for the whole *)
(* threshold (baseline.go:65-85).                                          *)
THEOREM StabilityIsEarned == Spec => StableIsEarned
<1>1. IInv /\ [Next]_vars =>
        [newStatus' # newStatus /\ newStatus' = "STABLE" => quiet >= Threshold]_vars
  <2> SUFFICES ASSUME IInv, Next, newStatus' # newStatus, newStatus' = "STABLE"
               PROVE  quiet >= Threshold
    BY DEF vars
  <2>1. RunTick
    BY DEF Next, Tick, Track, Save, Transition, FinalSave, ReadTotal, ReadUnique, ReadPatterns,
           ReadStability, ReadLastNew, WriteStamped, WriteStampedFails, WriteLatest,
           WriteLatestFails, ListDoomed, ListFails, PruneOne, PruneDone, SaveReturns, Exit, Crash,
           Damage, Restart, Idle, vars
  <2>2. now - lastNew \in Nat /\ now - session \in Nat
    BY DEF IInv, TypeOK
  <2> DEFINE S == {now - lastNew, now - session}
  <2>3. Min(S) \in S /\ \A y \in S : Min(S) <= y
    BY <2>2, MinMember
  <2>4. Min(S) >= Threshold
    BY <2>1, <2>2, <2>3, ThresholdAssumption DEF RunTick, Status
  <2>5. quiet >= now - lastNew \/ quiet >= now - session
    BY <2>1 DEF RunTick, IInv, TimesInv
  <2> QED  BY <2>2, <2>3, <2>4, <2>5, ThresholdAssumption DEF IInv, TypeOK
<1> QED  BY InvariantHolds, <1>1, PTL DEF Spec, StableIsEarned
=============================================================================
