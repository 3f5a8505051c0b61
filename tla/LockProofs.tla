----------------------------- MODULE LockProofs -----------------------------
(***************************************************************************)
(* Proofs about the locks of the LF library, for any set of threads.       *)
(***************************************************************************)
EXTENDS LFLock, LFExLock, FiniteSetTheorems, TLAPS

\* The provers get more than their default time.
USE SMTT(40), ZenonT(40)

-----------------------------------------------------------------------------
(* The fast exclusive lock: the inductive invariant. *)

ExWord == [released : BOOLEAN, spin : BOOLEAN, waiting : Int]
ExPlace == {"idle", "spin", "wait", "woken", "signal"}
ExCall == [spin : BOOLEAN, wait : {"try", "timed", "forever"}]

ExTypes ==
    /\ xflag \in Int /\ xword \in ExWord /\ xevent \in BOOLEAN
    /\ xdepth \in Nat /\ xcalls \in Nat
    /\ xat \in [ExThread -> ExPlace] /\ xcall \in [ExThread -> ExCall]
    /\ xheld \in [ExThread -> Nat]

\* A lock that is released is nobody's, and one that is not has one holder, who
\* is not inside another call.
ExHolder ==
    /\ xword.released =>
          xdepth = 0 /\ xowner = {} /\ \A t \in ExThread : xheld[t] = 0
    /\ ~xword.released =>
          \E h \in ExThread :
              /\ xheld[h] = xdepth + 1 /\ xat[h] = "idle"
              /\ xowner = IF xflag >= 0 THEN {h} ELSE {}
              /\ \A t \in ExThread \ {h} : xheld[t] = 0

\* The waiting count is the number of threads that are in the way to wait.
Waiters(at) == {t \in ExThread : at[t] \in {"spin", "wait", "woken"}}
ExCounts == xword.waiting = Cardinality(Waiters(xat))

\* A released lock that is waited for has an event on its way.
ExSignalled ==
    xword.released /\ xword.waiting > 0 =>
        xevent \/ \E t \in ExThread : xat[t] \in {"signal", "woken"}

ExInv == ExTypes /\ ExHolder /\ ExCounts /\ ExSignalled

-----------------------------------------------------------------------------
(* Counting the threads that wait. *)

\* A thread that starts waiting is one more.
LEMMA WaiterComes ==
    ASSUME xat \in [ExThread -> ExPlace], NEW t \in ExThread,
           NEW p \in {"spin", "wait", "woken"},
           xat[t] \notin {"spin", "wait", "woken"}, xat' = [xat EXCEPT ![t] = p]
    PROVE  Cardinality(Waiters(xat')) = Cardinality(Waiters(xat)) + 1
<1>1. Waiters(xat') = Waiters(xat) \cup {t} /\ t \notin Waiters(xat)
  BY Zenon DEF Waiters
<1>2. IsFiniteSet(Waiters(xat))
  BY Zenon, LFExLockAssumption, FS_Subset DEF Waiters
<1> QED
  BY Zenon, <1>1, <1>2, FS_AddElement

\* A thread that stops waiting is one less.
LEMMA WaiterGoes ==
    ASSUME xat \in [ExThread -> ExPlace], NEW t \in ExThread, NEW p \in ExPlace,
           xat[t] \in {"spin", "wait", "woken"}, p \notin {"spin", "wait", "woken"},
           xat' = [xat EXCEPT ![t] = p]
    PROVE  Cardinality(Waiters(xat')) = Cardinality(Waiters(xat)) - 1
<1>1. Waiters(xat') = Waiters(xat) \ {t} /\ t \in Waiters(xat)
  BY Zenon DEF Waiters
<1>2. IsFiniteSet(Waiters(xat))
  BY Zenon, LFExLockAssumption, FS_Subset DEF Waiters
<1> QED
  BY Zenon, <1>1, <1>2, FS_RemoveElement

\* A thread that goes on waiting, or goes on not waiting, changes nothing.
LEMMA WaitersSame ==
    ASSUME xat \in [ExThread -> ExPlace], NEW t \in ExThread, NEW p \in ExPlace,
           xat[t] \in {"spin", "wait", "woken"} <=> p \in {"spin", "wait", "woken"},
           xat' = [xat EXCEPT ![t] = p]
    PROVE  Waiters(xat') = Waiters(xat)
  BY Zenon DEF Waiters

\* The count is a number, and positive when a thread waits.
LEMMA WaitersCounted ==
    ASSUME xat \in [ExThread -> ExPlace]
    PROVE  /\ Cardinality(Waiters(xat)) \in Nat
           /\ \A t \in ExThread :
                 xat[t] \in {"spin", "wait", "woken"} => Cardinality(Waiters(xat)) > 0
<1>1. IsFiniteSet(Waiters(xat))
  BY Zenon, LFExLockAssumption, FS_Subset DEF Waiters
<1>2. Cardinality(Waiters(xat)) \in Nat
  BY Zenon, <1>1, FS_CardinalityType
<1>3. Cardinality(Waiters(xat)) = 0 <=> Waiters(xat) = {}
  BY Zenon, <1>1, FS_EmptySet
<1> QED
  BY <1>2, <1>3 DEF Waiters

-----------------------------------------------------------------------------
(* The fast exclusive lock: the steps. *)

\* LFExLockCreateBase makes a released lock nobody waits for.
LEMMA ExInitial ==
    InitLFExLock => ExInv
<1> SUFFICES ASSUME InitLFExLock PROVE ExInv
  BY Zenon
<1>1. ExTypes
  <2>1. xflag \in Int /\ xcalls \in Nat
    BY LFExLockAssumption DEF InitLFExLock
  <2>2. xword \in ExWord
    BY DEF InitLFExLock, ExWord
  <2>3. xat \in [ExThread -> ExPlace] /\ xcall \in [ExThread -> ExCall]
    BY Zenon DEF InitLFExLock, ExPlace, ExCall, NoExCall
  <2> QED
    BY Zenon, <2>1, <2>2, <2>3 DEF InitLFExLock, ExTypes
<1>2. ExHolder
  BY Zenon DEF InitLFExLock, ExHolder
<1>3. Waiters(xat) = {}
  BY Zenon DEF InitLFExLock, Waiters
<1>4. ExCounts /\ ExSignalled
  BY <1>3, FS_EmptySet DEF InitLFExLock, ExCounts, ExSignalled
<1> QED
  BY Zenon, <1>1, <1>2, <1>4 DEF ExInv

\* A thread takes a released lock, at once, spinning or woken: n is what it
\* takes off the waiting count.
LEMMA ObtainKeeps ==
    ASSUME ExInv, NEW t \in ExThread, NEW s \in BOOLEAN, NEW n \in {0, 1},
           xword.released, ObtainX(t, s, n),
           n = 1 <=> xat[t] \in {"spin", "wait", "woken"},
           xflag' = xflag, xevent' = xevent, xdepth' = xdepth, xcalls' \in Nat
    PROVE  ExInv'
<1>0. ExTypes /\ xword.waiting \in Int
  BY Zenon DEF ExInv, ExTypes, ExWord
<1>1. /\ xword' = [released |-> FALSE, spin |-> s, waiting |-> xword.waiting - n]
      /\ xowner' = (IF xflag >= 0 THEN {t} ELSE {})
      /\ xheld' = [xheld EXCEPT ![t] = @ + 1]
      /\ xat' = [xat EXCEPT ![t] = "idle"] /\ xcall' = [xcall EXCEPT ![t] = NoExCall]
  BY Zenon DEF ObtainX, GotoX
<1>2. ExTypes'
  BY <1>0, <1>1 DEF ExTypes, ExWord, ExPlace, ExCall, NoExCall
<1>3. ExHolder'
  <2>1. xdepth = 0 /\ \A u \in ExThread : xheld[u] = 0
    BY Zenon DEF ExInv, ExHolder
  <2>2. xheld'[t] = 1 /\ xat'[t] = "idle" /\ \A u \in ExThread \ {t} : xheld'[u] = 0
    BY <1>0, <1>1, <2>1 DEF ExTypes
  <2>3. ~xword'.released
    BY Zenon, <1>1
  <2>4. /\ xheld'[t] = xdepth' + 1 /\ xat'[t] = "idle"
        /\ xowner' = IF xflag' >= 0 THEN {t} ELSE {}
        /\ \A u \in ExThread \ {t} : xheld'[u] = 0
    BY <1>1, <2>1, <2>2
  <2> QED
    BY Zenon, <2>3, <2>4 DEF ExHolder
<1>4. ExCounts'
  <2>1. xword.waiting = Cardinality(Waiters(xat))
    BY Zenon DEF ExInv, ExCounts
  <2>2. CASE n = 1
    <3>1. Cardinality(Waiters(xat')) = Cardinality(Waiters(xat)) - 1
      <4>1. xat[t] \in {"spin", "wait", "woken"}
        BY Zenon, <2>2
      <4>2. "idle" \in ExPlace /\ xat \in [ExThread -> ExPlace]
        BY Zenon, <1>0 DEF ExTypes, ExPlace
      <4> QED
        BY Zenon, <1>1, <4>1, <4>2, WaiterGoes
    <3> QED
      BY Zenon, <1>1, <2>1, <2>2, <3>1 DEF ExCounts
  <2>3. CASE n = 0
    <3>1. Waiters(xat') = Waiters(xat)
      <4>1. xat[t] \notin {"spin", "wait", "woken"}
        BY <2>3
      <4>2. "idle" \in ExPlace /\ xat \in [ExThread -> ExPlace]
        BY Zenon, <1>0 DEF ExTypes, ExPlace
      <4> QED
        BY Zenon, <1>1, <4>1, <4>2, WaitersSame
    <3> QED
      BY <1>0, <1>1, <2>1, <2>3, <3>1 DEF ExCounts
  <2> QED
    BY Zenon, <2>2, <2>3
<1>5. ExSignalled'
  BY Zenon, <1>1 DEF ExSignalled
<1> QED
  BY Zenon, <1>2, <1>3, <1>4, <1>5 DEF ExInv

\* A recursive acquire by the holder.
LEMMA OwnerKeeps ==
    ASSUME ExInv, NEW t \in ExThread, ExAcquireOwner(t)
    PROVE  ExInv'
<1>0. ExTypes
  BY Zenon DEF ExInv
<1>1. /\ xword' = xword /\ xat' = xat /\ xcall' = xcall /\ xowner' = xowner
      /\ xflag' = xflag /\ xevent' = xevent /\ xcalls' = xcalls - 1 /\ xcalls > 0
      /\ xowner = {t} /\ xflag >= 0
  BY Zenon DEF ExAcquireOwner
<1>2. \/ xdepth' = xdepth /\ xheld' = xheld
      \/ xdepth' = xdepth + 1 /\ xheld' = [xheld EXCEPT ![t] = @ + 1]
  BY Zenon DEF ExAcquireOwner
<1>3. ExTypes'
  BY <1>0, <1>1, <1>2 DEF ExTypes
<1>4. ExHolder'
  <2>1. ~xword.released
    BY Zenon, <1>1 DEF ExInv, ExHolder
  <2>2. PICK h \in ExThread :
            /\ xheld[h] = xdepth + 1 /\ xat[h] = "idle"
            /\ xowner = IF xflag >= 0 THEN {h} ELSE {}
            /\ \A u \in ExThread \ {h} : xheld[u] = 0
    BY Zenon, <2>1 DEF ExInv, ExHolder
  <2>3. h = t
    BY Zenon, <1>1, <2>2
  <2>4. xheld'[t] = xdepth' + 1 /\ \A u \in ExThread \ {t} : xheld'[u] = 0
    BY Zenon, <1>0, <1>2, <2>2, <2>3 DEF ExTypes
  <2> QED
    BY Zenon, <1>1, <2>1, <2>2, <2>3, <2>4 DEF ExHolder
<1>5. ExCounts' /\ ExSignalled'
  BY Zenon, <1>1 DEF ExInv, ExCounts, ExSignalled
<1> QED
  BY Zenon, <1>3, <1>4, <1>5 DEF ExInv

\* A thread moves on without the lock changing hands.
LEMMA MoveKeeps ==
    ASSUME ExInv, NEW t \in ExThread, NEW p \in ExPlace, NEW c \in ExCall,
           GotoX(t, p, c), xat[t] # "idle" \/ xheld[t] = 0 \/ p = "idle",
           xword' \in ExWord, xword'.released = xword.released,
           xflag' = xflag, xowner' = xowner, xdepth' = xdepth, xheld' = xheld,
           xcalls' \in Nat, xevent' \in BOOLEAN, ExCounts', ExSignalled'
    PROVE  ExInv'
<1>0. ExTypes
  BY Zenon DEF ExInv
<1>1. xat' = [xat EXCEPT ![t] = p] /\ xcall' = [xcall EXCEPT ![t] = c]
  BY Zenon DEF GotoX
<1>2. ExTypes'
  BY Zenon, <1>0, <1>1 DEF ExTypes
<1>3. ExHolder'
  <2>1. CASE xword.released
    BY Zenon, <2>1 DEF ExInv, ExHolder
  <2>2. CASE ~xword.released
    <3>1. PICK h \in ExThread :
              /\ xheld[h] = xdepth + 1 /\ xat[h] = "idle"
              /\ xowner = IF xflag >= 0 THEN {h} ELSE {}
              /\ \A u \in ExThread \ {h} : xheld[u] = 0
      BY Zenon, <2>2 DEF ExInv, ExHolder
    <3>2. h # t \/ p = "idle"
      BY <1>0, <3>1 DEF ExTypes
    <3>3. xat'[h] = "idle"
      BY Zenon, <1>0, <1>1, <3>1, <3>2 DEF ExTypes
    <3> QED
      BY Zenon, <2>2, <3>1, <3>3 DEF ExHolder
  <2> QED
    BY Zenon, <2>1, <2>2
<1> QED
  BY Zenon, <1>2, <1>3 DEF ExInv

\* A new call takes a free lock, gives up, or is counted among the waiting.
LEMMA AcquireKeeps ==
    ASSUME ExInv, NEW t \in ExThread, NEW s \in BOOLEAN, NEW w \in ExWaits,
           ExAcquire(t, s, w)
    PROVE  ExInv'
<1> DEFINE free == xword.released /\ (xword.spin \/ xword.waiting = 0)
<1>0. /\ ExTypes /\ xcalls' \in Nat /\ xflag' = xflag /\ xevent' = xevent
      /\ xdepth' = xdepth /\ xat[t] = "idle" /\ xheld[t] = 0
      /\ xword \in ExWord /\ xword.waiting \in Int
  BY DEF ExInv, ExTypes, ExAcquire, ExWord
<1>1. CASE free
  <2>1. ObtainX(t, s, 0)
    BY Zenon, <1>1 DEF ExAcquire
  <2> QED
    BY <1>0, <1>1, <2>1, ObtainKeeps
<1>2. CASE ~free /\ ~xword.spin /\ w = "try"
  <2>1. UNCHANGED <<xword, xowner, xheld, xat, xcall>>
    BY Zenon, <1>2 DEF ExAcquire
  <2> QED
    BY Zenon, <1>0, <2>1 DEF ExInv, ExTypes, ExHolder, ExCounts, ExSignalled
<1>3. CASE ~free /\ ~(~xword.spin /\ w = "try")
  <2> DEFINE p == IF xword.spin THEN "spin" ELSE "wait"
             c == [spin |-> s, wait |-> w]
  <2>1. /\ xword' = [xword EXCEPT !.waiting = @ + 1]
        /\ GotoX(t, p, c) /\ UNCHANGED <<xowner, xheld>>
    BY Zenon, <1>3 DEF ExAcquire
  <2>2. /\ xword' \in ExWord /\ xword'.released = xword.released
        /\ xword'.waiting = xword.waiting + 1
    BY <1>0, <2>1 DEF ExWord
  <2>3. p \in {"spin", "wait"} /\ p \in ExPlace /\ c \in ExCall
    BY Zenon, LFExLockAssumption DEF ExPlace, ExCall
  <2>4. xat' = [xat EXCEPT ![t] = p]
    BY Zenon, <2>1 DEF GotoX
  <2> HIDE DEF p, c
  <2>5. Cardinality(Waiters(xat')) = Cardinality(Waiters(xat)) + 1
    BY Zenon, <1>0, <2>3, <2>4, WaiterComes DEF ExTypes
  <2>6. ExCounts'
    BY Zenon, <2>2, <2>5 DEF ExInv, ExCounts
  <2>7. ExSignalled'
    <3>1. xword.released => xword.waiting > 0
      <4>1. xword.waiting >= 0
        BY <1>0, WaitersCounted DEF ExInv, ExCounts, ExTypes
      <4> QED
        BY <1>0, <1>3, <4>1
    <3>2. \A u \in ExThread : xat[u] \in {"signal", "woken"} => xat'[u] = xat[u]
      BY Zenon, <1>0, <2>4 DEF ExTypes
    <3> QED
      BY Zenon, <1>0, <2>2, <3>1, <3>2 DEF ExInv, ExSignalled
  <2> QED
    BY Zenon, <1>0, <2>1, <2>2, <2>3, <2>6, <2>7, MoveKeeps DEF ExTypes
<1> QED
  BY Zenon, <1>1, <1>2, <1>3

\* Spinning ends, the event wakes a thread, a woken thread finds the lock taken.
LEMMA WaitingKeeps ==
    ASSUME ExInv, NEW t \in ExThread,
           ExSpinEnd(t) \/ ExWait(t) \/ (ExWoken(t) /\ ~xword.released)
    PROVE  ExInv'
<1>1. PICK p \in {"wait", "woken"} :
         /\ GotoX(t, p, xcall[t])
         /\ xat[t] \in {"spin", "wait", "woken"}
         /\ xword' = xword /\ UNCHANGED <<xflag, xowner, xdepth, xheld, xcalls>>
         /\ \/ p = "wait" /\ xevent' = xevent
               /\ (xat[t] = "woken" => ~xword.released)
            \/ p = "woken" /\ xevent' = FALSE
  BY Zenon DEF ExSpinEnd, ExWait, ExWoken
<1>2. /\ ExTypes /\ p \in ExPlace /\ xcall[t] \in ExCall /\ xevent' \in BOOLEAN
      /\ xword \in ExWord /\ xcalls \in Nat /\ xat[t] # "idle"
  BY Zenon, <1>1 DEF ExInv, ExTypes, ExPlace
<1>3. xat' = [xat EXCEPT ![t] = p]
  BY Zenon, <1>1 DEF GotoX
<1>4. Waiters(xat') = Waiters(xat)
  BY Zenon, <1>1, <1>2, <1>3, WaitersSame DEF ExTypes
<1>5. ExCounts'
  BY Zenon, <1>1, <1>4 DEF ExInv, ExCounts
<1>6. ExSignalled'
  <2>1. CASE p = "woken"
    BY Zenon, <1>2, <1>3, <2>1 DEF ExSignalled, ExTypes
  <2>2. CASE p = "wait"
    <3>1. SUFFICES ASSUME xword.released, xword.waiting > 0
                   PROVE  xevent \/ \E u \in ExThread : xat'[u] \in {"signal", "woken"}
      BY <1>1, <2>2 DEF ExSignalled
    <3>2. xat[t] \in {"spin", "wait"}
      BY Zenon, <1>1, <2>2, <3>1
    <3>3. \A u \in ExThread : xat[u] \in {"signal", "woken"} => xat'[u] = xat[u]
      BY Zenon, <1>2, <1>3, <3>2 DEF ExTypes
    <3> QED
      BY Zenon, <3>1, <3>3 DEF ExInv, ExSignalled
  <2> QED
    BY Zenon, <2>1, <2>2
<1> QED
  BY Zenon, <1>1, <1>2, <1>5, <1>6, MoveKeeps

\* A wait that fails takes its thread off the count.
LEMMA FailKeeps ==
    ASSUME ExInv, NEW t \in ExThread, ExWaitFails(t)
    PROVE  ExInv'
<1>1. /\ xat[t] = "wait" /\ xword' = [xword EXCEPT !.waiting = @ - 1]
      /\ GotoX(t, "idle", NoExCall)
      /\ UNCHANGED <<xflag, xevent, xowner, xdepth, xheld, xcalls>>
  BY Zenon DEF ExWaitFails
<1>2. /\ ExTypes /\ "idle" \in ExPlace /\ NoExCall \in ExCall
      /\ xword \in ExWord /\ xevent \in BOOLEAN /\ xcalls \in Nat
  BY Zenon DEF ExInv, ExTypes, ExPlace, ExCall, NoExCall
<1>3. /\ xword' \in ExWord /\ xword'.released = xword.released
      /\ xword'.waiting = xword.waiting - 1 /\ xword.waiting \in Int
  BY <1>1, <1>2 DEF ExWord
<1>4. xat' = [xat EXCEPT ![t] = "idle"]
  BY Zenon, <1>1 DEF GotoX
<1>5. Cardinality(Waiters(xat')) = Cardinality(Waiters(xat)) - 1
  BY Zenon, <1>1, <1>2, <1>4, WaiterGoes DEF ExTypes
<1>6. ExCounts'
  BY Zenon, <1>3, <1>5 DEF ExInv, ExCounts
<1>7. ExSignalled'
  <2>1. \A u \in ExThread : xat[u] \in {"signal", "woken"} => xat'[u] = xat[u]
    BY Zenon, <1>1, <1>2, <1>4 DEF ExTypes
  <2>2. xword'.waiting > 0 => xword.waiting > 0
    BY <1>3
  <2> QED
    BY Zenon, <1>1, <1>3, <2>1, <2>2 DEF ExInv, ExSignalled
<1> QED
  BY Zenon, <1>1, <1>2, <1>3, <1>6, <1>7, MoveKeeps

\* The event is set.
LEMMA SignalKeeps ==
    ASSUME ExInv, NEW t \in ExThread, ExSignal(t)
    PROVE  ExInv'
<1>1. /\ xat[t] = "signal" /\ xevent' = TRUE /\ GotoX(t, "idle", NoExCall)
      /\ UNCHANGED <<xflag, xword, xowner, xdepth, xheld, xcalls>>
  BY Zenon DEF ExSignal
<1>2. /\ ExTypes /\ "idle" \in ExPlace /\ NoExCall \in ExCall
      /\ xword \in ExWord /\ xcalls \in Nat
  BY Zenon DEF ExInv, ExTypes, ExPlace, ExCall, NoExCall
<1>3. xat' = [xat EXCEPT ![t] = "idle"]
  BY Zenon, <1>1 DEF GotoX
<1>4. Waiters(xat') = Waiters(xat)
  BY Zenon, <1>1, <1>2, <1>3, WaitersSame DEF ExTypes
<1>5. ExCounts' /\ ExSignalled'
  BY Zenon, <1>1, <1>4 DEF ExInv, ExCounts, ExSignalled
<1> QED
  BY Zenon, <1>1, <1>2, <1>5, MoveKeeps

\* LFExLockRelease: the last release of the holder frees the lock, and goes on
\* to signal if a thread waits.
LEMMA ReleaseKeeps ==
    ASSUME ExInv, NEW t \in ExThread, ExRelease(t)
    PROVE  ExInv'
<1>0. /\ ExTypes /\ xheld[t] \in Nat /\ xdepth \in Nat
      /\ xword \in ExWord /\ xword.waiting \in Int
  BY Zenon DEF ExInv, ExTypes, ExWord
<1>1. /\ xat[t] = "idle" /\ xheld[t] > 0 /\ xheld' = [xheld EXCEPT ![t] = @ - 1]
      /\ UNCHANGED <<xflag, xevent, xcalls>>
  BY Zenon DEF ExRelease
<1>2. ~xword.released
  BY <1>0, <1>1 DEF ExInv, ExHolder
<1>3. PICK h \in ExThread :
          /\ xheld[h] = xdepth + 1 /\ xat[h] = "idle"
          /\ xowner = IF xflag >= 0 THEN {h} ELSE {}
          /\ \A u \in ExThread \ {h} : xheld[u] = 0
  BY Zenon, <1>2 DEF ExInv, ExHolder
<1>4. h = t
  BY <1>0, <1>1, <1>3
<1>5. /\ xheld' \in [ExThread -> Nat] /\ xheld'[t] = xdepth
      /\ \A u \in ExThread \ {t} : xheld'[u] = 0
  BY <1>0, <1>1, <1>3, <1>4 DEF ExTypes
<1>6. CASE xdepth > 0
  <2>1. xdepth' = xdepth - 1 /\ UNCHANGED <<xword, xowner, xat, xcall>>
    BY Zenon, <1>6 DEF ExRelease
  <2>2. ExTypes'
    BY <1>0, <1>1, <1>5, <1>6, <2>1 DEF ExTypes
  <2>3. /\ xheld'[t] = xdepth' + 1 /\ xat'[t] = "idle"
        /\ xowner' = IF xflag' >= 0 THEN {t} ELSE {}
    BY <1>0, <1>1, <1>3, <1>4, <1>5, <2>1
  <2>4. ExHolder'
    BY Zenon, <1>2, <1>5, <2>1, <2>3 DEF ExHolder
  <2>5. ExCounts' /\ ExSignalled'
    BY Zenon, <1>1, <2>1 DEF ExInv, ExCounts, ExSignalled
  <2> QED
    BY Zenon, <2>2, <2>4, <2>5 DEF ExInv
<1>7. CASE ~(xdepth > 0)
  <2> DEFINE p == IF xword.waiting > 0 THEN "signal" ELSE "idle"
  <2>1. /\ xword' = [xword EXCEPT !.released = TRUE] /\ xowner' = {}
        /\ xat' = [xat EXCEPT ![t] = p] /\ xcall' = [xcall EXCEPT ![t] = NoExCall]
        /\ xdepth' = xdepth /\ xdepth = 0
    BY <1>0, <1>7 DEF ExRelease, GotoX
  <2>2. p \in ExPlace /\ NoExCall \in ExCall /\ p \notin {"spin", "wait", "woken"}
    BY Zenon DEF ExPlace, ExCall, NoExCall
  <2>3. /\ xword' \in ExWord /\ xword'.released
        /\ xword'.waiting = xword.waiting
    BY Zenon, <1>0, <2>1 DEF ExWord
  <2>4. ExTypes'
    BY Zenon, <1>0, <1>1, <1>5, <2>1, <2>2, <2>3 DEF ExTypes
  <2>5. ExHolder'
    BY Zenon, <1>5, <2>1, <2>3 DEF ExHolder
  <2>6. Waiters(xat') = Waiters(xat)
    BY Zenon, <1>0, <1>1, <2>1, <2>2, WaitersSame DEF ExTypes
  <2>7. ExCounts'
    BY Zenon, <2>3, <2>6 DEF ExInv, ExCounts
  <2>8. ExSignalled'
    <3>1. xat'[t] = p
      BY Zenon, <1>0, <2>1 DEF ExTypes
    <3> QED
      BY Zenon, <2>3, <3>1 DEF ExSignalled
  <2> QED
    BY Zenon, <2>4, <2>5, <2>7, <2>8 DEF ExInv
<1> QED
  BY Zenon, <1>6, <1>7

\* Every step keeps the invariant.
LEMMA ExStep ==
    ExInv /\ [NextLFExLock]_exVars => ExInv'
<1> SUFFICES ASSUME ExInv, [NextLFExLock]_exVars PROVE ExInv'
  BY Zenon
<1>0. ExTypes
  BY Zenon DEF ExInv
<1>1. ASSUME NEW t \in ExThread,
             ExSpin(t) \/ (ExWoken(t) /\ xword.released)
      PROVE  ExInv'
  <2>1. /\ ObtainX(t, xcall[t].spin, 1) /\ xword.released
        /\ xat[t] \in {"spin", "wait", "woken"}
        /\ UNCHANGED <<xflag, xevent, xdepth, xcalls>>
    BY Zenon, <1>1 DEF ExSpin, ExWoken
  <2>2. xcall[t].spin \in BOOLEAN /\ xcalls \in Nat
    BY Zenon, <1>0 DEF ExTypes, ExCall
  <2> QED
    BY Zenon, <2>1, <2>2, ObtainKeeps
<1>2. CASE NextLFExLock
  BY Zenon, <1>1, <1>2, OwnerKeeps, AcquireKeeps, WaitingKeeps, FailKeeps, ReleaseKeeps,
     SignalKeeps DEF NextLFExLock
<1>3. CASE UNCHANGED exVars
  BY Zenon, <1>3 DEF exVars, ExInv, ExTypes, ExHolder, ExCounts, ExSignalled
<1> QED
  BY Zenon, <1>2, <1>3

-----------------------------------------------------------------------------
(* The fast exclusive lock: the theorems. *)

\* LFExLockAcquireEx and LFExLockRelease: one thread at most holds the lock,
\* through recursion, spinners that overtake, waits that fail and signals meant
\* for somebody else.
THEOREM ExLockExcludes ==
    SpecLFExLock => []ExMutualExclusion
<1>1. ExInv => ExMutualExclusion
  <2> SUFFICES ASSUME ExInv PROVE ExMutualExclusion
    BY Zenon
  <2> DEFINE H == {t \in ExThread : xheld[t] > 0}
  <2>1. H = {} \/ \E h \in ExThread : H = {h}
    <3>1. CASE xword.released
      BY <3>1 DEF ExInv, ExHolder
    <3>2. CASE ~xword.released
      BY <3>2 DEF ExInv, ExHolder, ExTypes
    <3> QED
      BY Zenon, <3>1, <3>2
  <2>2. Cardinality(H) <= 1
    BY <2>1, FS_EmptySet, FS_Singleton
  <2> QED
    BY Zenon, <2>2 DEF ExMutualExclusion
<1> QED
  BY ExInitial, ExStep, <1>1, PTL DEF SpecLFExLock

\* No wakeup is lost: when no thread can go on and nobody holds the lock, nobody
\* waits for it, whoever gave up or took the event.
THEOREM ExLockWakes ==
    SpecLFExLock => []ExWakesWaiters
<1>1. ExInv => ExWakesWaiters
  <2> SUFFICES ASSUME ExInv,
                      \A t \in ExThread : \/ xat[t] = "idle" /\ xheld[t] = 0
                                          \/ xat[t] = "wait" /\ ~xevent,
                      NEW w \in ExThread, xat[w] # "idle"
               PROVE  FALSE
    BY Zenon DEF ExWakesWaiters
  <2>1. xat[w] = "wait" /\ ~xevent
    BY Zenon
  <2>2. xword.waiting > 0
    BY Zenon, <2>1, WaitersCounted DEF ExInv, ExTypes, ExCounts
  <2>3. xword.released
    <3> SUFFICES ASSUME ~xword.released PROVE FALSE
      BY Zenon
    <3>1. PICK h \in ExThread : xheld[h] = xdepth + 1 /\ xat[h] = "idle"
      BY Zenon DEF ExInv, ExHolder
    <3>2. xdepth \in Nat
      BY Zenon DEF ExInv, ExTypes
    <3> QED
      BY <3>1, <3>2
  <2> QED
    BY Zenon, <2>1, <2>2, <2>3 DEF ExInv, ExSignalled
<1> QED
  BY ExInitial, ExStep, <1>1, PTL DEF SpecLFExLock

-----------------------------------------------------------------------------
(* The reader-writer lock: the inductive invariant. *)

LWord == [exw : Int, exa : BOOLEAN, exu : BOOLEAN, spin : BOOLEAN, shw : Int,
          sha : Int]
LPlace == {"idle", "spin", "wait", "woken", "signal", "clear"}
LInside == {"spin", "wait", "woken"}
LCall == [op : {"none", "shared", "exclusive", "upgrade", "readers", "writer"},
          fWaitSpin : BOOLEAN, wait : {"try", "timed", "forever"}, n : Int]

LockTypes ==
    /\ mode \in Modes /\ word \in LWord /\ recursion \in Nat
    /\ pc \in [Thread -> LPlace] /\ call \in [Thread -> LCall]
    /\ sh \in [Thread -> Nat] /\ ex \in [Thread -> Nat]

\* The shared locks that are held, thread by thread, and the registered writers.
Holds(s) == {x \in Thread \X Nat : 1 <= x[2] /\ x[2] <= s[x[1]]}
Writers(p, c) ==
    {t \in Thread : p[t] \in LInside /\ c[t].op \in {"exclusive", "upgrade"}}
Upgrading(t) == pc[t] \in LInside /\ call[t].op = "upgrade"

\* A step that registers no writer and lets none go, and that leaves only
\* threads without a lock to wait.
SameWriters ==
    \A u \in Thread :
        /\ (u \in Writers(pc, call))' <=> u \in Writers(pc, call)
        /\ Upgrading(u)' <=> Upgrading(u)
        /\ pc'[u] \in LInside =>
              \/ pc[u] \in LInside /\ sh'[u] = sh[u] /\ ex'[u] = ex[u]
              \/ sh'[u] = 0 /\ ex'[u] = 0

\* The counters of the word are the numbers of their threads.
LockCounts ==
    /\ IsFiniteSet(Holds(sh)) /\ word.sha = Cardinality(Holds(sh))
    /\ word.exw = Cardinality(Writers(pc, call))

\* ExActive is set for one thread that holds the lock, and nobody else does.
LockOwner ==
    /\ ~word.exa => owner = {} /\ recursion = 0 /\ \A t \in Thread : ex[t] = 0
    /\ word.exa =>
          \E h \in Thread :
              /\ owner = {h} /\ ex[h] = recursion + 1
              /\ \A t \in Thread \ {h} : ex[t] = 0 /\ sh[t] = 0

\* A thread that waits holds nothing.
LockWaiting == \A t \in Thread : pc[t] \in LInside => sh[t] = 0 /\ ex[t] = 0

\* ExUpgrade is set for one thread, and keeps all others from the lock.
LockUpgrade ==
    /\ word.exu => ~word.exa /\ \E t \in Thread : Upgrading(t)
    /\ \A t, u \in Thread : Upgrading(t) /\ Upgrading(u) => t = u
    /\ \A t \in Thread : Upgrading(t) => word.exu

LockInv == LockTypes /\ LockCounts /\ LockOwner /\ LockWaiting /\ LockUpgrade

-----------------------------------------------------------------------------
(* The reader-writer lock: counting. *)

\* One more shared lock.
LEMMA HoldsMore ==
    ASSUME NEW s \in [Thread -> Nat], NEW t \in Thread, IsFiniteSet(Holds(s))
    PROVE  LET z == [s EXCEPT ![t] = @ + 1]
           IN  IsFiniteSet(Holds(z)) /\ Cardinality(Holds(z)) = Cardinality(Holds(s)) + 1
<1> DEFINE z == [s EXCEPT ![t] = @ + 1]
           e == <<t, s[t] + 1>>
<1>1. Holds(z) = Holds(s) \cup {e}
  <2>1. ASSUME NEW x \in Thread \X Nat
        PROVE  (1 <= x[2] /\ x[2] <= z[x[1]]) <=>
                  ((1 <= x[2] /\ x[2] <= s[x[1]]) \/ x = e)
    <3>1. x = <<x[1], x[2]>> /\ x[1] \in Thread /\ x[2] \in Nat
      OBVIOUS
    <3>2. CASE x[1] = t
      <4>1. z[x[1]] = s[t] + 1 /\ s[t] \in Nat
        BY Zenon, <3>2
      <4>2. x = e <=> x[2] = s[t] + 1
        BY <3>1, <3>2
      <4> QED
        BY <3>1, <3>2, <4>1, <4>2
    <3>3. CASE x[1] # t
      BY <3>1, <3>3
    <3> QED
      BY Zenon, <3>2, <3>3
  <2>2. e \in Thread \X Nat
    OBVIOUS
  <2> QED
    BY Zenon, <2>1, <2>2 DEF Holds
<1>2. e \notin Holds(s)
  BY DEF Holds
<1>3. /\ IsFiniteSet(Holds(s) \cup {e})
      /\ Cardinality(Holds(s) \cup {e}) = Cardinality(Holds(s)) + 1
  <2> HIDE DEF e
  <2> QED
    BY Zenon, <1>2, FS_AddElement
<1> QED
  BY Zenon, <1>1, <1>3

\* One shared lock less.
LEMMA HoldsLess ==
    ASSUME NEW s \in [Thread -> Nat], NEW t \in Thread, IsFiniteSet(Holds(s)),
           s[t] > 0
    PROVE  LET z == [s EXCEPT ![t] = @ - 1]
           IN  IsFiniteSet(Holds(z)) /\ Cardinality(Holds(z)) = Cardinality(Holds(s)) - 1
<1> DEFINE z == [s EXCEPT ![t] = @ - 1]
           e == <<t, s[t]>>
<1>1. Holds(z) = Holds(s) \ {e}
  <2>1. ASSUME NEW x \in Thread \X Nat
        PROVE  (1 <= x[2] /\ x[2] <= z[x[1]]) <=>
                  (1 <= x[2] /\ x[2] <= s[x[1]] /\ x # e)
    <3>1. x = <<x[1], x[2]>> /\ x[1] \in Thread /\ x[2] \in Nat
      OBVIOUS
    <3>2. CASE x[1] = t
      <4>1. z[x[1]] = s[t] - 1 /\ s[t] \in Nat
        BY Zenon, <3>2
      <4>2. x = e <=> x[2] = s[t]
        BY <3>1, <3>2
      <4> QED
        BY <3>1, <3>2, <4>1, <4>2
    <3>3. CASE x[1] # t
      BY <3>1, <3>3
    <3> QED
      BY Zenon, <3>2, <3>3
  <2> QED
    BY Zenon, <2>1 DEF Holds
<1>2. e \in Holds(s)
  BY DEF Holds
<1>3. /\ IsFiniteSet(Holds(s) \ {e})
      /\ Cardinality(Holds(s) \ {e}) = Cardinality(Holds(s)) - 1
  <2> HIDE DEF e
  <2> QED
    BY Zenon, <1>2, FS_RemoveElement
<1> QED
  BY Zenon, <1>1, <1>3

\* When nobody has a shared lock the counter says so, and the other way round;
\* when the counter is one, the thread with a lock is the only one.
LEMMA HoldsZero ==
    ASSUME LockInv
    PROVE  /\ word.sha \in Nat
           /\ word.sha = 0 => \A t \in Thread : sh[t] = 0
           /\ \A t \in Thread : sh[t] > 0 /\ word.sha = 1 =>
                 \A u \in Thread \ {t} : sh[u] = 0
<1>0. IsFiniteSet(Holds(sh)) /\ word.sha = Cardinality(Holds(sh))
      /\ sh \in [Thread -> Nat]
  BY Zenon DEF LockInv, LockCounts, LockTypes
<1>1. word.sha \in Nat
  BY Zenon, <1>0, FS_CardinalityType
<1>2. \A t \in Thread : sh[t] > 0 => <<t, 1>> \in Holds(sh)
  BY <1>0 DEF Holds
<1>3. word.sha = 0 => \A t \in Thread : sh[t] = 0
  <2> SUFFICES ASSUME word.sha = 0, NEW t \in Thread PROVE sh[t] = 0
    BY Zenon
  <2>1. Holds(sh) = {}
    BY Zenon, <1>0, FS_EmptySet
  <2> QED
    BY <1>0, <1>2, <2>1
<1>4. ASSUME NEW t \in Thread, sh[t] > 0, word.sha = 1, NEW u \in Thread \ {t}
      PROVE  sh[u] = 0
  <2>1. PICK x : Holds(sh) = {x}
    BY Zenon, <1>0, <1>4, FS_Singleton
  <2>2. <<t, 1>> = x
    BY Zenon, <1>2, <1>4, <2>1
  <2>3. <<u, 1>> # x
    BY Zenon, <1>4, <2>2
  <2> QED
    BY <1>0, <1>2, <2>1, <2>3
<1> QED
  BY Zenon, <1>1, <1>3, <1>4

-----------------------------------------------------------------------------
(* The reader-writer lock: registered writers. *)

\* The registered writers can be counted.
LEMMA WritersFinite ==
    ASSUME NEW p, NEW c
    PROVE  IsFiniteSet(Writers(p, c)) /\ Cardinality(Writers(p, c)) \in Nat
<1>1. IsFiniteSet(Writers(p, c))
  BY Zenon, LFLockAssumption, FS_Subset DEF Writers
<1> QED
  BY Zenon, <1>1, FS_CardinalityType

\* A writer registers, or a registered writer leaves.
LEMMA WritersChange ==
    ASSUME NEW p, NEW c, NEW q, NEW d, NEW t \in Thread,
           \A u \in Thread \ {t} : u \in Writers(q, d) <=> u \in Writers(p, c)
    PROVE  /\ t \in Writers(q, d) /\ t \notin Writers(p, c) =>
                 Cardinality(Writers(q, d)) = Cardinality(Writers(p, c)) + 1
           /\ t \notin Writers(q, d) /\ t \in Writers(p, c) =>
                 Cardinality(Writers(q, d)) = Cardinality(Writers(p, c)) - 1
<1> DEFINE A == Writers(p, c)
           B == Writers(q, d)
<1>0. A \subseteq Thread /\ B \subseteq Thread
  BY Zenon DEF Writers
<1>1. IsFiniteSet(A) /\ IsFiniteSet(B)
  BY Zenon, WritersFinite
<1> HIDE DEF A, B
<1>2. ASSUME t \in B, t \notin A PROVE Cardinality(B) = Cardinality(A) + 1
  <2>1. B = A \cup {t}
    BY Zenon, <1>0, <1>2 DEF A, B
  <2> QED
    BY Zenon, <1>1, <1>2, <2>1, FS_AddElement
<1>3. ASSUME t \notin B, t \in A PROVE Cardinality(B) = Cardinality(A) - 1
  <2>1. B = A \ {t}
    BY Zenon, <1>0, <1>3 DEF A, B
  <2> QED
    BY Zenon, <1>1, <1>3, <2>1, FS_RemoveElement
<1> QED
  BY Zenon, <1>2, <1>3 DEF A, B

\* ExUpgrade is set while a writer is registered.
LEMMA UpgradeWaits ==
    ASSUME LockInv PROVE word.exw \in Nat /\ (word.exu => word.exw > 0)
<1>1. IsFiniteSet(Writers(pc, call)) /\ word.exw = Cardinality(Writers(pc, call))
      /\ word.exw \in Nat
  BY Zenon, WritersFinite DEF LockInv, LockCounts
<1>2. word.exu => Writers(pc, call) # {}
  BY Zenon DEF LockInv, LockUpgrade, Upgrading, Writers
<1> QED
  BY <1>1, <1>2, FS_EmptySet

-----------------------------------------------------------------------------
(* The reader-writer lock: the kinds of step. *)

\* The writers registered before are those registered after.
LEMMA SameCount ==
    ASSUME LockInv, SameWriters, word'.exw = word.exw
    PROVE  (word.exw = Cardinality(Writers(pc, call)))'
<1>1. Writers(pc, call)' = Writers(pc, call)
  BY Zenon DEF SameWriters, Writers
<1> QED
  BY Zenon, <1>1 DEF LockInv, LockCounts

\* ExUpgrade stays where it is.
LEMMA SameUpgrade ==
    ASSUME LockInv, SameWriters, word'.exu = word.exu,
           word.exu => ~word'.exa
    PROVE  LockUpgrade'
BY Zenon DEF LockInv, LockUpgrade, SameWriters

\* No lock changes hands.
LEMMA StillKeeps ==
    ASSUME LockInv, LockTypes', SameWriters, UNCHANGED <<sh, ex, owner, recursion>>,
           word'.exw = word.exw, word'.exa = word.exa, word'.exu = word.exu,
           word'.sha = word.sha
    PROVE  LockInv'
<1>1. LockCounts'
  BY Zenon, SameCount DEF LockInv, LockCounts, Holds
<1>2. LockOwner'
  BY Zenon DEF LockInv, LockOwner
<1>3. LockWaiting'
  BY Zenon DEF LockInv, LockWaiting, SameWriters
<1>4. LockUpgrade'
  BY Zenon, SameUpgrade DEF LockInv, LockUpgrade
<1> QED
  BY Zenon, <1>1, <1>2, <1>3, <1>4 DEF LockInv

\* A thread obtains a shared lock.
LEMMA SharedKeeps ==
    ASSUME LockInv, LockTypes', SameWriters, NEW t \in Thread, pc'[t] \notin LInside,
           HoldShared(t), UNCHANGED <<ex, owner, recursion>>,
           word'.exw = word.exw, word'.exa = word.exa, word'.exu = word.exu,
           word'.sha = word.sha + 1, word.exa => owner = {t}
    PROVE  LockInv'
<1>0. sh \in [Thread -> Nat]
  BY Zenon DEF LockInv, LockTypes
<1>1. LockCounts'
  <2>1. IsFiniteSet(Holds(sh)) /\ word.sha = Cardinality(Holds(sh))
    BY Zenon DEF LockInv, LockCounts
  <2>2. IsFiniteSet(Holds(sh)') /\ Cardinality(Holds(sh)') = Cardinality(Holds(sh)) + 1
    BY <1>0, <2>1, HoldsMore DEF HoldShared, Holds
  <2> QED
    BY Zenon, <2>1, <2>2, SameCount DEF LockCounts, Holds
<1>2. LockOwner'
  BY Zenon, <1>0 DEF LockInv, LockOwner, HoldShared
<1>3. LockWaiting'
  BY Zenon, <1>0 DEF LockInv, LockWaiting, SameWriters, HoldShared
<1>4. LockUpgrade'
  BY Zenon, SameUpgrade DEF LockInv, LockUpgrade
<1> QED
  BY Zenon, <1>1, <1>2, <1>3, <1>4 DEF LockInv

\* A thread obtains the exclusive lock: nobody has a lock, nobody upgrades.
LEMMA ExclusiveKeeps ==
    ASSUME LockInv, LockTypes', LockCounts', NEW t \in Thread, pc'[t] \notin LInside,
           \A u \in Thread \ {t} : pc'[u] \in LInside => pc[u] \in LInside,
           \A u \in Thread : sh'[u] = 0 /\ ~Upgrading(u)',
           HoldExclusive(t), recursion' = recursion, ~word.exa, word'.exa, ~word'.exu
    PROVE  LockInv'
<1>0. \A u \in Thread : ex[u] = 0
  BY Zenon DEF LockInv, LockOwner
<1>1. recursion = 0
  BY Zenon DEF LockInv, LockOwner
<1>2. ex'[t] = 1 /\ \A u \in Thread \ {t} : ex'[u] = 0
  BY <1>0 DEF HoldExclusive, LockInv, LockTypes
<1>3. LockOwner'
  BY <1>1, <1>2 DEF LockOwner, HoldExclusive
<1>4. LockWaiting'
  BY Zenon, <1>2 DEF LockWaiting
<1>5. LockUpgrade'
  BY Zenon DEF LockUpgrade
<1> QED
  BY Zenon, <1>3, <1>4, <1>5 DEF LockInv

-----------------------------------------------------------------------------
(* The reader-writer lock: types. *)

\* What a thread does next, and the words a compare-and-swap writes.
LEMMA LCallTypes ==
    /\ Idle \in LCall
    /\ \A k \in {"readers", "writer"}, n \in Int :
          [Idle EXCEPT !.op = k, !.n = n] \in LCall
    /\ \A o \in {"shared", "exclusive", "upgrade"}, s \in BOOLEAN, w \in Waits :
          [op |-> o, fWaitSpin |-> s, wait |-> w, n |-> 0] \in LCall
<1>1. Idle \in LCall
  BY DEF Idle, LCall
<1>2. ASSUME NEW k \in {"readers", "writer"}, NEW n \in Int
      PROVE  [Idle EXCEPT !.op = k, !.n = n] \in LCall
  BY Zenon, <1>1, <1>2 DEF LCall
<1>3. ASSUME NEW o \in {"shared", "exclusive", "upgrade"}, NEW s \in BOOLEAN,
             NEW w \in Waits
      PROVE  [op |-> o, fWaitSpin |-> s, wait |-> w, n |-> 0] \in LCall
  <2>1. w \in {"try", "timed", "forever"}
    BY Zenon, LFLockAssumption
  <2> QED
    BY <2>1 DEF LCall
<1> QED
  BY Zenon, <1>1, <1>2, <1>3

\* The word after a shared lock was granted.
LEMMA SharedWord ==
    ASSUME NEW w \in LWord, NEW s \in BOOLEAN, NEW b \in BOOLEAN,
           NEW g, g = GrantShared(w, s, b)
    PROVE  /\ g \in LWord
           /\ g.exw = w.exw /\ g.exa = w.exa /\ g.exu = w.exu /\ g.sha = w.sha + 1
<1>1. PICK x, y \in Int : x = w.sha + 1 /\ y = w.shw - (IF b THEN 1 ELSE 0)
  BY DEF LWord
<1>2. PICK z \in BOOLEAN :
         z = IF ~s THEN FALSE ELSE IF w.sha = 0 THEN TRUE ELSE w.spin
  BY Zenon DEF LWord
<1>3. g = [w EXCEPT !.sha = x, !.shw = y, !.spin = z]
  BY Zenon, <1>1, <1>2 DEF GrantShared
<1> QED
  BY Zenon, <1>1, <1>3 DEF LWord

\* The word after an exclusive lock was granted to a thread that did not wait.
LEMMA ExclusiveWord ==
    ASSUME NEW w \in LWord, NEW s \in BOOLEAN, NEW g, g = GrantExclusive(w, s, FALSE)
    PROVE  /\ g \in LWord /\ g.exw = w.exw
           /\ g.exa /\ g.exu = w.exu /\ g.sha = w.sha
<1>1. PICK x \in Int : x = w.exw
  BY Zenon DEF LWord
<1>3. w.exw - (IF FALSE THEN 1 ELSE 0) = x
  BY <1>1 DEF LWord
<1>2. g = [w EXCEPT !.exa = TRUE, !.spin = s, !.exw = x]
  BY <1>3, Zenon DEF GrantExclusive
<1> QED
  BY Zenon, <1>1, <1>2 DEF LWord

\* The word after an exclusive lock was granted to a registered writer.
LEMMA WaitedWord ==
    ASSUME NEW w \in LWord, NEW s \in BOOLEAN, NEW g, g = GrantExclusive(w, s, TRUE)
    PROVE  /\ g \in LWord /\ g.exw = w.exw - 1
           /\ g.exa /\ g.exu = w.exu /\ g.sha = w.sha
<1>1. PICK x \in Int : x = w.exw - 1
  BY DEF LWord
<1>3. w.exw - (IF TRUE THEN 1 ELSE 0) = x
  BY Zenon, <1>1 DEF LWord
<1>2. g = [w EXCEPT !.exa = TRUE, !.spin = s, !.exw = x]
  BY <1>3, Zenon DEF GrantExclusive
<1> QED
  BY Zenon, <1>1, <1>2 DEF LWord

\* The word after an upgrade was granted.
LEMMA UpgradeWord ==
    ASSUME NEW w \in LWord, NEW s \in BOOLEAN, NEW g, g = GrantUpgrade(w, s)
    PROVE  /\ g \in LWord /\ g.exw = w.exw - 1 /\ g.exa /\ ~g.exu /\ g.sha = w.sha
<1>1. PICK x \in Int : x = w.exw - 1
  BY DEF LWord
<1>2. g = [w EXCEPT !.exa = TRUE, !.spin = s, !.exw = x, !.exu = FALSE]
  BY Zenon, <1>1 DEF GrantUpgrade
<1> QED
  BY Zenon, <1>1, <1>2 DEF LWord

\* The word after an upgrade was taken back.
LEMMA CancelWord ==
    ASSUME NEW w \in LWord, NEW g, g = CancelUpgrade(w)
    PROVE  /\ g \in LWord /\ g.exw = w.exw - 1 /\ g.exa = w.exa /\ ~g.exu
           /\ g.sha = w.sha + 1
<1>1. PICK x, y \in Int : x = w.exw - 1 /\ y = w.sha + 1
  BY DEF LWord
<1>2. g = [w EXCEPT !.exw = x, !.exu = FALSE, !.sha = y]
  BY Zenon, <1>1 DEF CancelUpgrade
<1> QED
  BY Zenon, <1>1, <1>2 DEF LWord

\* What a thread holds goes up by one, down by one, or to nothing.
LEMMA HeldChanges ==
    ASSUME NEW s \in [Thread -> Nat], NEW t \in Thread, NEW z
    PROVE  /\ z = [s EXCEPT ![t] = @ + 1] =>
                 /\ z \in [Thread -> Nat] /\ z[t] = s[t] + 1
                 /\ \A u \in Thread \ {t} : z[u] = s[u]
           /\ z = [s EXCEPT ![t] = @ - 1] /\ s[t] > 0 =>
                 /\ z \in [Thread -> Nat] /\ z[t] = s[t] - 1
                 /\ \A u \in Thread \ {t} : z[u] = s[u]
           /\ z = [s EXCEPT ![t] = 0] =>
                 /\ z \in [Thread -> Nat] /\ z[t] = 0
                 /\ \A u \in Thread \ {t} : z[u] = s[u]
<1>1. s[t] + 1 \in Nat /\ (s[t] > 0 => s[t] - 1 \in Nat)
  OBVIOUS
<1> QED
  BY <1>1

\* The control part of a step of t: it returns, waits on, or signals.
LEMMA ControlTypes ==
    ASSUME LockTypes, NEW t \in Thread
    PROVE  /\ Return(t) =>
                 /\ pc' \in [Thread -> LPlace] /\ call' \in [Thread -> LCall]
                 /\ pc'[t] = "idle"
                 /\ \A u \in Thread \ {t} : pc'[u] = pc[u] /\ call'[u] = call[u]
           /\ \A p \in LPlace, c \in LCall : Continue(t, p, c) =>
                 /\ pc' \in [Thread -> LPlace] /\ call' \in [Thread -> LCall]
                 /\ pc'[t] = p /\ call'[t] = c
                 /\ \A u \in Thread \ {t} : pc'[u] = pc[u] /\ call'[u] = call[u]
           /\ \A k \in {"", "readers", "writer"}, n \in Int : ThenSignal(t, k, n) =>
                 /\ pc' \in [Thread -> LPlace] /\ call' \in [Thread -> LCall]
                 /\ pc'[t] \notin LInside
                 /\ \A u \in Thread \ {t} : pc'[u] = pc[u] /\ call'[u] = call[u]
<1>0. pc \in [Thread -> LPlace] /\ call \in [Thread -> LCall]
  BY Zenon DEF LockTypes
<1>1. ASSUME NEW p \in LPlace, NEW c \in LCall, Continue(t, p, c)
      PROVE  /\ pc' \in [Thread -> LPlace] /\ call' \in [Thread -> LCall]
             /\ pc'[t] = p /\ call'[t] = c
             /\ \A u \in Thread \ {t} : pc'[u] = pc[u] /\ call'[u] = call[u]
  BY Zenon, <1>0, <1>1 DEF Continue
<1>2. Return(t) <=> Continue(t, "idle", Idle)
  BY Zenon DEF Return, Continue
<1>3. "idle" \in LPlace /\ "signal" \in LPlace
      /\ "idle" \notin LInside /\ "signal" \notin LInside
  BY Zenon DEF LPlace, LInside
<1>4. ASSUME Return(t)
      PROVE  /\ pc' \in [Thread -> LPlace] /\ call' \in [Thread -> LCall]
             /\ pc'[t] = "idle"
             /\ \A u \in Thread \ {t} : pc'[u] = pc[u] /\ call'[u] = call[u]
  BY ZenonT(40), <1>1, <1>2, <1>3, <1>4, LCallTypes
<1>5. ASSUME NEW k \in {"", "readers", "writer"}, NEW n \in Int, ThenSignal(t, k, n)
      PROVE  /\ pc' \in [Thread -> LPlace] /\ call' \in [Thread -> LCall]
             /\ pc'[t] \notin LInside
             /\ \A u \in Thread \ {t} : pc'[u] = pc[u] /\ call'[u] = call[u]
  <2>1. CASE k = ""
    BY Zenon, <1>3, <1>4, <1>5, <2>1 DEF ThenSignal
  <2>2. CASE k # ""
    BY ZenonT(40), <1>1, <1>3, <1>5, <2>2, LCallTypes DEF ThenSignal
  <2> QED
    BY Zenon, <2>1, <2>2
<1> QED
  BY Zenon, <1>1, <1>4, <1>5

\* A step that leaves the other threads alone, and t where it is not counted
\* before or after, registers nobody.
LEMMA SameWritersBy ==
    ASSUME LockInv, NEW t \in Thread,
           \A u \in Thread \ {t} : /\ pc'[u] = pc[u] /\ call'[u] = call[u]
                                   /\ sh'[u] = sh[u] /\ ex'[u] = ex[u],
           \/ /\ pc[t] \in LInside => call[t].op = "shared"
              /\ pc'[t] \in LInside => call'[t].op = "shared"
           \/ pc[t] \in LInside /\ pc'[t] \in LInside /\ call'[t].op = call[t].op,
           pc'[t] \in LInside =>
              \/ pc[t] \in LInside /\ sh'[t] = sh[t] /\ ex'[t] = ex[t]
              \/ sh'[t] = 0 /\ ex'[t] = 0
    PROVE  SameWriters
<1>1. ASSUME NEW u \in Thread
      PROVE  /\ (u \in Writers(pc, call))' <=> u \in Writers(pc, call)
             /\ Upgrading(u)' <=> Upgrading(u)
  <2>1. CASE u = t
    BY Zenon, <2>1 DEF Writers, Upgrading
  <2>2. CASE u # t
    BY Zenon, <2>2 DEF Writers, Upgrading
  <2> QED
    BY Zenon, <2>1, <2>2
<1>2. ASSUME NEW u \in Thread, pc'[u] \in LInside
      PROVE  \/ pc[u] \in LInside /\ sh'[u] = sh[u] /\ ex'[u] = ex[u]
             \/ sh'[u] = 0 /\ ex'[u] = 0
  BY Zenon, <1>2
<1> QED
  BY Zenon, <1>1, <1>2 DEF SameWriters

-----------------------------------------------------------------------------
(* The reader-writer lock: LF_LOCK_SHARED. *)

\* t obtains a shared lock, at once or after it waited for it.
LEMMA GrantSharedKeeps ==
    ASSUME LockInv, NEW t \in Thread, NEW s \in BOOLEAN, NEW b \in BOOLEAN,
           word' = GrantShared(word, s, b), HoldShared(t),
           UNCHANGED <<mode, owner, recursion, ex>>, word.exa => owner = {t},
           \/ pc[t] = "idle" /\ UNCHANGED <<pc, call>>
           \/ call[t].op = "shared" /\ Return(t)
    PROVE  LockInv'
<1>0. /\ LockTypes /\ sh \in [Thread -> Nat] /\ word \in LWord
      /\ "idle" \notin LInside
  BY Zenon DEF LockInv, LockTypes, LInside
<1>1. /\ word' \in LWord /\ word'.exw = word.exw /\ word'.exa = word.exa
      /\ word'.exu = word.exu /\ word'.sha = word.sha + 1
  BY <1>0, SharedWord
<1>2. sh' \in [Thread -> Nat] /\ \A u \in Thread \ {t} : sh'[u] = sh[u]
  BY Zenon, <1>0, HeldChanges DEF HoldShared
<1>3. /\ pc' \in [Thread -> LPlace] /\ call' \in [Thread -> LCall] /\ pc'[t] = "idle"
      /\ \A u \in Thread \ {t} : pc'[u] = pc[u] /\ call'[u] = call[u]
  <2>1. CASE pc[t] = "idle" /\ UNCHANGED <<pc, call>>
    BY Zenon, <1>0, <2>1 DEF LockTypes
  <2>2. CASE Return(t)
    BY Zenon, <1>0, <2>2, ControlTypes
  <2> QED
    BY Zenon, <2>1, <2>2
<1>4. LockTypes'
  BY ZenonT(40), <1>0, <1>1, <1>2, <1>3 DEF LockTypes
<1>5. SameWriters
  <2>1. pc[t] \in LInside => call[t].op = "shared"
    BY Zenon, <1>0
  <2> QED
    BY ZenonT(40), <1>0, <1>2, <1>3, <2>1, SameWritersBy
<1> QED
  BY ZenonT(40), <1>0, <1>1, <1>3, <1>4, <1>5, SharedKeeps

\* A call that changes no lock and no registered writer.
LEMMA WaitKeeps ==
    ASSUME LockInv, NEW t \in Thread, UNCHANGED <<mode, sh, ex, owner, recursion>>,
           \/ word' = word
           \/ \E x \in Int : word' = [word EXCEPT !.shw = x],
           \/ UNCHANGED <<pc, call>>
           \/ /\ pc[t] \in LInside => call[t].op = "shared"
              /\ Return(t)
           \/ \E p \in LInside : pc[t] \in LInside /\ Continue(t, p, call[t])
           \/ \E p \in LPlace, c \in LCall :
                 /\ p \in LInside => c.op = "shared" /\ sh[t] = 0 /\ ex[t] = 0
                 /\ pc[t] \notin LInside
                 /\ Continue(t, p, c)
    PROVE  LockInv'
<1>0. /\ LockTypes /\ word \in LWord /\ "idle" \notin LInside
      /\ pc \in [Thread -> LPlace] /\ call \in [Thread -> LCall] /\ LInside \subseteq LPlace
  BY Zenon DEF LockInv, LockTypes, LInside, LPlace
<1>1. /\ word' \in LWord /\ word'.exw = word.exw /\ word'.exa = word.exa
      /\ word'.exu = word.exu /\ word'.sha = word.sha
  BY Zenon, <1>0 DEF LWord
<1>2. /\ pc' \in [Thread -> LPlace] /\ call' \in [Thread -> LCall]
      /\ \A u \in Thread \ {t} : pc'[u] = pc[u] /\ call'[u] = call[u]
      /\ \/ pc'[t] = pc[t] /\ call'[t] = call[t]
         \/ /\ pc[t] \in LInside => call[t].op = "shared"
            /\ pc'[t] \in LInside => call'[t].op = "shared"
         \/ pc[t] \in LInside /\ pc'[t] \in LInside /\ call'[t].op = call[t].op
      /\ pc'[t] \in LInside => pc[t] \in LInside \/ (sh[t] = 0 /\ ex[t] = 0)
  <2>1. CASE UNCHANGED <<pc, call>>
    BY Zenon, <1>0, <2>1
  <2>2. CASE /\ pc[t] \in LInside => call[t].op = "shared"
             /\ Return(t)
    BY Zenon, <1>0, <2>2, ControlTypes
  <2>3. CASE \E p \in LInside : pc[t] \in LInside /\ Continue(t, p, call[t])
    <3>1. PICK p \in LInside : pc[t] \in LInside /\ Continue(t, p, call[t])
      BY Zenon, <2>3
    <3>2. p \in LPlace /\ call[t] \in LCall
      BY Zenon, <1>0
    <3>3. /\ pc' \in [Thread -> LPlace] /\ call' \in [Thread -> LCall]
          /\ pc'[t] = p /\ call'[t] = call[t]
          /\ \A u \in Thread \ {t} : pc'[u] = pc[u] /\ call'[u] = call[u]
      BY ZenonT(40), <1>0, <3>1, <3>2, ControlTypes
    <3> QED
      BY Zenon, <3>1, <3>3
  <2>4. CASE \E p \in LPlace, c \in LCall :
                 /\ p \in LInside => c.op = "shared" /\ sh[t] = 0 /\ ex[t] = 0
                 /\ pc[t] \notin LInside
                 /\ Continue(t, p, c)
    <3>1. PICK p \in LPlace, c \in LCall :
                 /\ p \in LInside => c.op = "shared" /\ sh[t] = 0 /\ ex[t] = 0
                 /\ pc[t] \notin LInside
                 /\ Continue(t, p, c)
      BY Zenon, <2>4
    <3>2. /\ pc' \in [Thread -> LPlace] /\ call' \in [Thread -> LCall]
          /\ pc'[t] = p /\ call'[t] = c
          /\ \A u \in Thread \ {t} : pc'[u] = pc[u] /\ call'[u] = call[u]
      BY ZenonT(40), <1>0, <3>1, ControlTypes
    <3> QED
      BY Zenon, <3>1, <3>2
  <2> QED
    BY ZenonT(40), <2>1, <2>2, <2>3, <2>4
<1>3. LockTypes'
  BY Zenon, <1>0, <1>1, <1>2 DEF LockTypes
<1>4. SameWriters
  <2>1. CASE pc'[t] = pc[t] /\ call'[t] = call[t]
    BY Zenon, <1>2, <2>1 DEF SameWriters, Writers, Upgrading
  <2>2. CASE ~(pc'[t] = pc[t] /\ call'[t] = call[t])
    BY Zenon, <1>2, <2>2, SameWritersBy
  <2> QED
    BY Zenon, <2>1, <2>2
<1> QED
  BY ZenonT(40), <1>1, <1>3, <1>4, StillKeeps

\* A thread that holds nothing asks for a shared lock.
LEMMA AcquireSharedKeeps ==
    ASSUME LockInv, NEW t \in Thread, NEW s \in BOOLEAN, NEW w \in Waits,
           AcquireShared(t, s, w)
    PROVE  LockInv'
<1>0. LockTypes /\ word.shw + 1 \in Int
  BY DEF LockInv, LockTypes, LWord
<1>1. /\ "idle" \notin LInside /\ "spin" \in LPlace /\ "wait" \in LPlace
  BY Zenon DEF LInside, LPlace
<1>2. /\ pc[t] = "idle" /\ UNCHANGED <<mode, owner, recursion, ex>>
      /\ sh[t] = 0 /\ ex[t] = 0
  BY Zenon DEF AcquireShared, Begin
<1>3. CASE ~ExAll(word)
  <2>1. word' = GrantShared(word, s, FALSE) /\ HoldShared(t) /\ UNCHANGED <<pc, call>>
    BY Zenon, <1>3 DEF AcquireShared
  <2>2. ~word.exa
    BY Zenon, <1>3 DEF ExAll
  <2> QED
    BY ZenonT(40), <1>2, <2>1, <2>2, GrantSharedKeeps
<1>4. CASE ExAll(word) /\ w = "try"
  <2>1. UNCHANGED <<word, sh, pc, call>>
    BY Zenon, <1>4 DEF AcquireShared
  <2> QED
    BY Zenon, <1>2, <2>1, WaitKeeps
<1>5. CASE ExAll(word) /\ w # "try"
  <2> DEFINE c == [op |-> "shared", fWaitSpin |-> s, wait |-> w, n |-> 0]
             p == IF word.spin THEN "spin" ELSE "wait"
  <2>1. word' = [word EXCEPT !.shw = @ + 1] /\ sh' = sh /\ Continue(t, p, c)
    BY Zenon, <1>5 DEF AcquireShared, Registered
  <2>2. c \in LCall /\ c.op = "shared" /\ p \in LPlace
    BY Zenon, <1>1, LCallTypes
  <2>3. \E x \in Int : word' = [word EXCEPT !.shw = x]
    BY Zenon, <1>0, <2>1
  <2> HIDE DEF c, p
  <2> QED
    BY ZenonT(40), <1>1, <1>2, <2>1, <2>2, <2>3, WaitKeeps
<1> QED
  BY ZenonT(40), <1>3, <1>4, <1>5

\* The owner's shared lock, and what a thread does that spins or waits for one.
LEMMA SharedSteps ==
    ASSUME LockInv, NEW t \in Thread, NEW s \in BOOLEAN,
           \/ AcquireSharedOwner(t, s)
           \/ SpinShared(t) \/ WaitShared(t) \/ WokenShared(t) \/ TimeoutShared(t)
    PROVE  LockInv'
<1>0. /\ LockTypes /\ word \in LWord /\ call[t] \in LCall
      /\ call[t].fWaitSpin \in BOOLEAN /\ word.shw - 1 \in Int /\ word.shw + 1 \in Int
      /\ word.exa \in BOOLEAN
  BY DEF LockInv, LockTypes, LWord, LCall
<1>1. /\ "idle" \notin LInside /\ "spin" \in LInside /\ "wait" \in LInside
      /\ "woken" \in LInside /\ "spin" \in LPlace /\ "wait" \in LPlace
  BY Zenon DEF LInside, LPlace
<1>2. CASE AcquireSharedOwner(t, s)
  <2>1. pc[t] = "idle" /\ UNCHANGED <<mode, owner, recursion, pc, call, ex>> /\ owner = {t}
    BY Zenon, <1>2 DEF AcquireSharedOwner, Begin
  <2>2. CASE mode.flag = 0
    <3>1. UNCHANGED <<word, sh>>
      BY Zenon, <1>2, <2>2 DEF AcquireSharedOwner
    <3> QED
      BY Zenon, <2>1, <3>1, WaitKeeps
  <2>3. CASE mode.flag # 0
    <3>1. word' = GrantShared(word, s, FALSE) /\ HoldShared(t)
      BY Zenon, <1>2, <2>3 DEF AcquireSharedOwner
    <3> QED
      BY Zenon, <2>1, <3>1, GrantSharedKeeps
  <2> QED
    BY Zenon, <2>2, <2>3
<1>4. CASE SpinShared(t)
  <2>1. ~word.exa
    BY Zenon, <1>4 DEF SpinShared, ExAll
  <2> QED
    BY ZenonT(40), <1>0, <1>4, <2>1, GrantSharedKeeps DEF SpinShared
<1>5. CASE WaitShared(t)
  BY ZenonT(40), <1>1, <1>5, WaitKeeps DEF WaitShared
<1>6. CASE WokenShared(t)
  <2>1. CASE ExAll(word)
    BY ZenonT(40), <1>1, <1>6, <2>1, WaitKeeps DEF WokenShared
  <2>2. CASE ~ExAll(word)
    <3>1. ~word.exa
      BY Zenon, <2>2 DEF ExAll
    <3> QED
      BY ZenonT(40), <1>0, <1>6, <2>2, <3>1, GrantSharedKeeps DEF WokenShared
  <2> QED
    BY Zenon, <2>1, <2>2
<1>7. CASE TimeoutShared(t)
  <2>1. \E x \in Int : word' = [word EXCEPT !.shw = x]
    BY Zenon, <1>0, <1>7 DEF TimeoutShared
  <2> QED
    BY ZenonT(40), <1>1, <1>7, <2>1, WaitKeeps DEF TimeoutShared
<1> QED
  BY ZenonT(40), <1>2, <1>4, <1>5, <1>6, <1>7

\* Clearing SpinWait, the end of spinning, an event that was taken, and the
\* signal that follows a release.
LEMMA QuietSteps ==
    ASSUME LockInv, NEW t \in Thread,
           ClearSpin(t) \/ SpinEnd(t) \/ WaitWriter(t) \/ Signal(t)
    PROVE  LockInv'
<1>1. /\ "spin" \in LInside /\ "wait" \in LInside /\ "woken" \in LInside
      /\ "clear" \notin LInside /\ "signal" \notin LInside
  BY Zenon DEF LInside
<1>2. CASE ClearSpin(t)
  BY Zenon, <1>1, <1>2, WaitKeeps DEF ClearSpin
<1>3. CASE SpinEnd(t)
  BY Zenon, <1>1, <1>3, WaitKeeps DEF SpinEnd
<1>4. CASE WaitWriter(t)
  BY Zenon, <1>1, <1>4, WaitKeeps DEF WaitWriter
<1>5. CASE Signal(t)
  BY Zenon, <1>1, <1>5, WaitKeeps DEF Signal
<1> QED
  BY ZenonT(40), <1>2, <1>3, <1>4, <1>5

-----------------------------------------------------------------------------
(* The reader-writer lock: LF_LOCK_EXCLUSIVE. *)

\* t obtains the exclusive lock with nobody registered for it.
LEMMA GrantAtOnceKeeps ==
    ASSUME LockInv, NEW t \in Thread, pc[t] = "idle", UNCHANGED <<mode, pc, call, recursion>>,
           HoldExclusive(t), ~word.exa, ~word.exu, word' \in LWord,
           word'.exw = word.exw, word'.exa, word'.exu = word.exu,
           word'.sha = 0, sh' \in [Thread -> Nat], \A u \in Thread : sh'[u] = 0
    PROVE  LockInv'
<1>0. LockTypes /\ ex \in [Thread -> Nat] /\ "idle" \notin LInside
  BY Zenon DEF LockInv, LockTypes, LInside
<1>1. ex' \in [Thread -> Nat]
  BY Zenon, <1>0, HeldChanges DEF HoldExclusive
<1>2. LockTypes'
  BY ZenonT(40), <1>0, <1>1 DEF LockTypes
<1>3. Holds(sh') = {}
  BY DEF Holds
<1>4. LockCounts'
  <2>1. IsFiniteSet(Holds(sh)') /\ word'.sha = Cardinality(Holds(sh)')
    BY Zenon, <1>3, FS_EmptySet DEF Holds
  <2>2. word'.exw = Cardinality(Writers(pc, call)')
    BY Zenon DEF LockInv, LockCounts, Writers
  <2> QED
    BY Zenon, <2>1, <2>2 DEF LockCounts
<1>5. \A u \in Thread : ~Upgrading(u)'
  BY Zenon DEF LockInv, LockUpgrade, Upgrading
<1> QED
  BY ZenonT(40), <1>0, <1>2, <1>4, <1>5, ExclusiveKeeps

\* t, a registered writer, obtains the exclusive lock.
LEMMA GrantWaitedKeeps ==
    ASSUME LockInv, NEW t \in Thread, t \in Writers(pc, call), Return(t),
           UNCHANGED <<mode, recursion, sh>>, HoldExclusive(t), ~word.exa, word.sha = 0,
           word' \in LWord, word'.exw = word.exw - 1, word'.exa, ~word'.exu,
           word'.sha = word.sha, word.exu => Upgrading(t)
    PROVE  LockInv'
<1>0. LockTypes /\ ex \in [Thread -> Nat] /\ "idle" \notin LInside
  BY Zenon DEF LockInv, LockTypes, LInside
<1>1. ex' \in [Thread -> Nat]
  BY ZenonT(40), <1>0, HeldChanges DEF HoldExclusive
<1>2. /\ pc' \in [Thread -> LPlace] /\ call' \in [Thread -> LCall] /\ pc'[t] = "idle"
      /\ \A u \in Thread \ {t} : pc'[u] = pc[u] /\ call'[u] = call[u]
  BY ZenonT(40), <1>0, ControlTypes
<1>3. LockTypes'
  BY ZenonT(40), <1>0, <1>1, <1>2 DEF LockTypes
<1>4. \A u \in Thread : sh'[u] = 0
  BY ZenonT(40), HoldsZero
<1>5. LockCounts'
  <2>1. Cardinality(Writers(pc', call')) = Cardinality(Writers(pc, call)) - 1
    <3>1. \A u \in Thread \ {t} : u \in Writers(pc', call') <=> u \in Writers(pc, call)
      BY ZenonT(40), <1>2 DEF Writers
    <3>2. t \notin Writers(pc', call')
      BY ZenonT(40), <1>0, <1>2 DEF Writers
    <3> QED
      BY <3>1, <3>2, WritersChange
  <2>2. Writers(pc, call)' = Writers(pc', call') /\ Holds(sh)' = Holds(sh)
    BY Zenon DEF Writers, Holds
  <2> QED
    BY ZenonT(40), <2>1, <2>2 DEF LockInv, LockCounts
<1>6. \A u \in Thread : ~Upgrading(u)'
  <2> SUFFICES ASSUME NEW u \in Thread, Upgrading(u)' PROVE FALSE
    BY Zenon
  <2>1. u # t
    BY Zenon, <1>0, <1>2 DEF Upgrading
  <2>2. Upgrading(u)
    BY Zenon, <1>2, <2>1 DEF Upgrading
  <2> QED
    BY Zenon, <2>1, <2>2 DEF LockInv, LockUpgrade
<1> QED
  BY ZenonT(40), <1>0, <1>2, <1>3, <1>4, <1>5, <1>6, ExclusiveKeeps

\* A writer registers.
LEMMA RegisterKeeps ==
    ASSUME LockInv, NEW t \in Thread, pc[t] = "idle", sh[t] = 0, ex[t] = 0,
           NEW p \in LInside, NEW c \in LCall, Continue(t, p, c), c.op = "exclusive",
           UNCHANGED <<mode, sh, ex, owner, recursion>>,
           word' = [word EXCEPT !.exw = @ + 1]
    PROVE  LockInv'
<1>0. /\ LockTypes /\ word \in LWord /\ "idle" \notin LInside /\ LInside \subseteq LPlace
  BY Zenon DEF LockInv, LockTypes, LInside, LPlace
<1>1. /\ pc' \in [Thread -> LPlace] /\ call' \in [Thread -> LCall]
      /\ pc'[t] = p /\ call'[t] = c
      /\ \A u \in Thread \ {t} : pc'[u] = pc[u] /\ call'[u] = call[u]
  BY ZenonT(40), <1>0, ControlTypes
<1>2. /\ word' \in LWord /\ word'.exw = word.exw + 1 /\ word'.exa = word.exa
      /\ word'.exu = word.exu /\ word'.sha = word.sha
  BY <1>0 DEF LWord
<1>3. LockTypes'
  BY ZenonT(40), <1>0, <1>1, <1>2 DEF LockTypes
<1>4. LockCounts'
  <2>1. Cardinality(Writers(pc', call')) = Cardinality(Writers(pc, call)) + 1
    <3>1. \A u \in Thread \ {t} : u \in Writers(pc', call') <=> u \in Writers(pc, call)
      BY Zenon, <1>1 DEF Writers
    <3>2. t \in Writers(pc', call') /\ t \notin Writers(pc, call)
      BY Zenon, <1>0, <1>1 DEF Writers
    <3> QED
      BY <3>1, <3>2, WritersChange
  <2>2. Writers(pc, call)' = Writers(pc', call') /\ Holds(sh)' = Holds(sh)
    BY Zenon DEF Writers, Holds
  <2> QED
    BY ZenonT(40), <1>2, <2>1, <2>2 DEF LockInv, LockCounts
<1>5. LockOwner'
  BY Zenon, <1>2 DEF LockInv, LockOwner
<1>6. LockWaiting'
  BY Zenon, <1>1 DEF LockInv, LockWaiting
<1>7. LockUpgrade'
  <2>1. \A u \in Thread : Upgrading(u)' <=> Upgrading(u)
    BY Zenon, <1>0, <1>1 DEF Upgrading
  <2> QED
    BY Zenon, <1>2, <2>1 DEF LockInv, LockUpgrade
<1> QED
  BY ZenonT(40), <1>3, <1>4, <1>5, <1>6, <1>7 DEF LockInv

\* A writer gives up.
LEMMA TimeoutExclusiveKeeps ==
    ASSUME LockInv, NEW t \in Thread, TimeoutExclusive(t)
    PROVE  LockInv'
<1>0. /\ LockTypes /\ word \in LWord /\ "idle" \notin LInside /\ "wait" \in LInside
  BY Zenon DEF LockInv, LockTypes, LInside
<1>1. /\ word' = [word EXCEPT !.exw = @ - 1] /\ pc[t] = "wait" /\ call[t].op = "exclusive"
      /\ UNCHANGED <<mode, sh, ex, owner, recursion>>
  BY Zenon DEF TimeoutExclusive, GiveUp
<1>2. /\ word' \in LWord /\ word'.exw = word.exw - 1 /\ word'.exa = word.exa
      /\ word'.exu = word.exu /\ word'.sha = word.sha /\ word'.shw \in Int
  BY <1>0, <1>1 DEF LWord
<1>3. /\ pc' \in [Thread -> LPlace] /\ call' \in [Thread -> LCall]
      /\ pc'[t] \notin LInside
      /\ \A u \in Thread \ {t} : pc'[u] = pc[u] /\ call'[u] = call[u]
  <2>1. Return(t) \/ ThenSignal(t, "readers", word'.shw)
    BY Zenon, <1>1 DEF TimeoutExclusive, GiveUp
  <2>2. CASE Return(t)
    BY ZenonT(40), <1>0, <2>2, ControlTypes
  <2>3. CASE ThenSignal(t, "readers", word'.shw)
    BY ZenonT(40), <1>0, <1>2, <2>3, ControlTypes
  <2> QED
    BY ZenonT(40), <2>1, <2>2, <2>3
<1>4. LockTypes'
  BY ZenonT(40), <1>0, <1>1, <1>2, <1>3 DEF LockTypes
<1>5. LockCounts'
  <2>1. Cardinality(Writers(pc', call')) = Cardinality(Writers(pc, call)) - 1
    <3>1. \A u \in Thread \ {t} : u \in Writers(pc', call') <=> u \in Writers(pc, call)
      BY ZenonT(40), <1>3 DEF Writers
    <3>2. t \notin Writers(pc', call') /\ t \in Writers(pc, call)
      BY ZenonT(40), <1>0, <1>1, <1>3 DEF Writers
    <3> QED
      BY <3>1, <3>2, WritersChange
  <2>2. Writers(pc, call)' = Writers(pc', call') /\ Holds(sh)' = Holds(sh)
    BY Zenon, <1>1 DEF Writers, Holds
  <2> QED
    BY ZenonT(40), <1>2, <2>1, <2>2 DEF LockInv, LockCounts
<1>6. LockOwner'
  BY Zenon, <1>1, <1>2 DEF LockInv, LockOwner
<1>7. LockWaiting'
  BY Zenon, <1>1, <1>3 DEF LockInv, LockWaiting
<1>8. LockUpgrade'
  <2>1. \A u \in Thread : Upgrading(u)' <=> Upgrading(u)
    BY Zenon, <1>1, <1>3 DEF Upgrading
  <2> QED
    BY Zenon, <1>2, <2>1 DEF LockInv, LockUpgrade
<1> QED
  BY ZenonT(40), <1>4, <1>5, <1>6, <1>7, <1>8 DEF LockInv

\* The thread in dwThreadID, the one with an exclusive lock, is the owner.
LEMMA OwnerAlone ==
    ASSUME LockInv, NEW t \in Thread, owner = {t} \/ ex[t] > 0
    PROVE  /\ word.exa /\ ~word.exu /\ owner = {t} /\ ex[t] = recursion + 1
           /\ \A u \in Thread \ {t} : ex[u] = 0 /\ sh[u] = 0
           /\ recursion \in Nat
<1>1. word.exa
  BY DEF LockInv, LockOwner
<1>2. PICK h \in Thread : /\ owner = {h} /\ ex[h] = recursion + 1
                          /\ \A u \in Thread \ {h} : ex[u] = 0 /\ sh[u] = 0
  BY Zenon, <1>1 DEF LockInv, LockOwner
<1>3. h = t
  BY <1>2
<1> QED
  BY ZenonT(40), <1>1, <1>2, <1>3 DEF LockInv, LockUpgrade, LockTypes

\* The owner stays the owner: t is outside, and only what t holds changes.
LEMMA OwnerStays ==
    ASSUME LockInv, LockTypes', NEW t \in Thread, owner = {t}, owner' = owner,
           pc[t] \notin LInside, pc'[t] \notin LInside,
           \A u \in Thread \ {t} : /\ pc'[u] = pc[u] /\ call'[u] = call[u]
                                   /\ sh'[u] = sh[u] /\ ex'[u] = ex[u],
           ex'[t] = recursion' + 1, word'.exa, word'.exu = word.exu,
           word'.exw = word.exw,
           IsFiniteSet(Holds(sh)'), word'.sha = Cardinality(Holds(sh)')
    PROVE  LockInv'
<1>1. /\ word.exa /\ ~word.exu
      /\ \A u \in Thread \ {t} : ex[u] = 0 /\ sh[u] = 0
  BY Zenon, OwnerAlone
<1>2. SameWriters
  BY Zenon, SameWritersBy
<1>3. LockCounts'
  BY ZenonT(40), <1>2, SameCount DEF LockCounts
<1>4. LockOwner'
  BY <1>1 DEF LockOwner
<1>5. LockWaiting'
  BY Zenon DEF LockInv, LockWaiting
<1>6. LockUpgrade'
  BY ZenonT(40), <1>1, <1>2, SameUpgrade
<1> QED
  BY ZenonT(40), <1>3, <1>4, <1>5, <1>6 DEF LockInv

\* The owner gives the exclusive lock up.
LEMMA OwnerLeaves ==
    ASSUME LockInv, LockTypes', NEW t \in Thread, owner = {t}, owner' = {},
           recursion = 0, recursion' = 0,
           pc[t] \notin LInside, pc'[t] \notin LInside,
           \A u \in Thread \ {t} : /\ pc'[u] = pc[u] /\ call'[u] = call[u]
                                   /\ sh'[u] = sh[u] /\ ex'[u] = ex[u],
           ex'[t] = 0, ~word'.exa, word'.exu = word.exu, word'.exw = word.exw,
           IsFiniteSet(Holds(sh)'), word'.sha = Cardinality(Holds(sh)')
    PROVE  LockInv'
<1>1. /\ word.exa /\ ~word.exu
      /\ \A u \in Thread \ {t} : ex[u] = 0 /\ sh[u] = 0
  BY Zenon, OwnerAlone
<1>2. SameWriters
  BY Zenon, SameWritersBy
<1>3. LockCounts'
  BY Zenon, <1>2, SameCount DEF LockCounts
<1>4. LockOwner'
  BY Zenon, <1>1 DEF LockOwner
<1>5. LockWaiting'
  BY Zenon DEF LockInv, LockWaiting
<1>6. LockUpgrade'
  BY ZenonT(40), <1>1, <1>2, SameUpgrade
<1> QED
  BY ZenonT(40), <1>3, <1>4, <1>5, <1>6 DEF LockInv

\* The owner asks for the exclusive lock again: recursion.
LEMMA AcquireExclusiveOwnerKeeps ==
    ASSUME LockInv, NEW t \in Thread, NEW s \in BOOLEAN, AcquireExclusiveOwner(t, s)
    PROVE  LockInv'
<1>0. /\ LockTypes /\ "idle" \notin LInside /\ "clear" \notin LInside
      /\ "clear" \in LPlace /\ ex \in [Thread -> Nat]
      /\ pc \in [Thread -> LPlace] /\ call \in [Thread -> LCall]
  BY Zenon DEF LockInv, LockTypes, LInside, LPlace
<1>1. pc[t] = "idle" /\ owner = {t} /\ UNCHANGED <<mode, word, owner, sh>>
  BY Zenon DEF AcquireExclusiveOwner, Begin
<1>2. CASE mode.flag = 0
  <2>1. UNCHANGED <<recursion, ex, pc, call>>
    BY Zenon, <1>2 DEF AcquireExclusiveOwner
  <2> QED
    BY ZenonT(40), <1>1, <2>1, WaitKeeps
<1>3. CASE mode.flag # 0
  <2>1. /\ recursion' = recursion + 1 /\ ex' = [ex EXCEPT ![t] = @ + 1]
        /\ Continue(t, "clear", Idle) \/ UNCHANGED <<pc, call>>
    BY Zenon, <1>3 DEF AcquireExclusiveOwner
  <2>2. /\ ex' \in [Thread -> Nat] /\ ex'[t] = ex[t] + 1
        /\ \A u \in Thread \ {t} : ex'[u] = ex[u]
    BY ZenonT(40), <1>0, <2>1, HeldChanges
  <2>3. /\ pc' \in [Thread -> LPlace] /\ call' \in [Thread -> LCall]
        /\ pc'[t] \notin LInside
        /\ \A u \in Thread \ {t} : pc'[u] = pc[u] /\ call'[u] = call[u]
    <3>1. CASE Continue(t, "clear", Idle)
      BY ZenonT(40), <1>0, <3>1, ControlTypes, LCallTypes
    <3>2. CASE UNCHANGED <<pc, call>>
      BY ZenonT(40), <1>0, <1>1, <3>2
    <3> QED
      BY ZenonT(40), <2>1, <3>1, <3>2
  <2>4. LockTypes'
    BY <1>0, <1>1, <2>1, <2>2, <2>3 DEF LockTypes
  <2>5. /\ word.exa /\ ex[t] = recursion + 1
    BY ZenonT(40), <1>1, OwnerAlone
  <2>6. IsFiniteSet(Holds(sh)') /\ word'.sha = Cardinality(Holds(sh)')
    BY Zenon, <1>1 DEF LockInv, LockCounts, Holds
  <2>7. ex'[t] = recursion' + 1
    BY ZenonT(40), <2>1, <2>2, <2>5
  <2> QED
    BY ZenonT(40), <1>0, <1>1, <2>2, <2>3, <2>4, <2>5, <2>6, <2>7, OwnerStays
<1> QED
  BY Zenon, <1>2, <1>3

\* A thread that holds nothing asks for the exclusive lock.
LEMMA AcquireExclusiveKeeps ==
    ASSUME LockInv, NEW t \in Thread, NEW s \in BOOLEAN, NEW w \in Waits,
           AcquireExclusive(t, s, w)
    PROVE  LockInv'
<1>0. /\ LockTypes /\ word \in LWord /\ "idle" \notin LInside /\ "wait" \in LInside
      /\ "spin" \in LInside /\ sh \in [Thread -> Nat]
  BY Zenon DEF LockInv, LockTypes, LInside
<1>1. /\ pc[t] = "idle" /\ sh[t] = 0 /\ ex[t] = 0 /\ UNCHANGED <<mode, recursion, sh>>
  BY Zenon DEF AcquireExclusive, Begin
<1>2. CASE ExclusiveFree(word)
  <2>1. /\ word' = GrantExclusive(word, s, FALSE)
        /\ HoldExclusive(t) /\ UNCHANGED <<pc, call>>
    BY Zenon, <1>2 DEF AcquireExclusive
  <2>2. word.sha \in Nat /\ word.exw \in Nat /\ (word.exu => word.exw > 0)
    BY ZenonT(40), HoldsZero, UpgradeWaits
  <2>3. ~word.exa /\ ~word.exu /\ word.sha = 0
    BY <1>2, <2>2 DEF ExclusiveFree, AllActiveOrExWaiting, ActiveAllOrExUpgrade,
       ActiveAll
  <2>4. /\ word' \in LWord /\ word'.exw = word.exw /\ word'.exa
        /\ word'.exu = word.exu /\ word'.sha = word.sha
    BY ZenonT(40), <1>0, <2>1, ExclusiveWord
  <2>5. \A u \in Thread : sh'[u] = 0
    BY ZenonT(40), <1>1, <2>3, HoldsZero
  <2> QED
    BY ZenonT(40), <1>0, <1>1, <2>1, <2>3, <2>4, <2>5, GrantAtOnceKeeps
<1>3. CASE ~ExclusiveFree(word) /\ w = "try"
  <2>1. UNCHANGED <<word, owner, ex, pc, call>>
    BY Zenon, <1>3 DEF AcquireExclusive
  <2> QED
    BY ZenonT(40), <1>1, <2>1, WaitKeeps
<1>4. CASE ~ExclusiveFree(word) /\ w # "try"
  <2> DEFINE c == [op |-> "exclusive", fWaitSpin |-> s, wait |-> w, n |-> 0]
             p == IF word.spin THEN "spin" ELSE "wait"
  <2>1. /\ word' = [word EXCEPT !.exw = @ + 1] /\ Continue(t, p, c)
        /\ UNCHANGED <<owner, ex>>
    BY Zenon, <1>4 DEF AcquireExclusive, Registered
  <2>2. c \in LCall /\ c.op = "exclusive" /\ p \in LInside
    BY Zenon, <1>0, LCallTypes
  <2> HIDE DEF c, p
  <2> QED
    BY ZenonT(40), <1>1, <2>1, <2>2, RegisterKeeps
<1> QED
  BY ZenonT(40), <1>2, <1>3, <1>4

\* A registered writer looks at the word again.
LEMMA WriterSteps ==
    ASSUME LockInv, NEW t \in Thread, SpinExclusive(t) \/ WokenExclusive(t)
    PROVE  LockInv'
<1>0. /\ LockTypes /\ word \in LWord /\ "wait" \in LInside
      /\ "spin" \in LInside /\ "woken" \in LInside /\ call[t].fWaitSpin \in BOOLEAN
  BY Zenon DEF LockInv, LockTypes, LInside, LCall
<1>1. /\ call[t].op = "exclusive" /\ pc[t] \in LInside /\ UNCHANGED <<mode, recursion, sh>>
  BY Zenon, <1>0 DEF SpinExclusive, WokenExclusive
<1>2. CASE ActiveAllOrExUpgrade(word)
  <2>1. Continue(t, "wait", call[t]) /\ UNCHANGED <<word, owner, ex>>
    BY Zenon, <1>2 DEF SpinExclusive, WokenExclusive
  <2> QED
    BY ZenonT(40), <1>0, <1>1, <2>1, WaitKeeps
<1>3. CASE ~ActiveAllOrExUpgrade(word)
  <2>1. /\ word' = GrantExclusive(word, call[t].fWaitSpin, TRUE)
        /\ HoldExclusive(t) /\ Return(t)
    BY Zenon, <1>3 DEF SpinExclusive, WokenExclusive
  <2>2. word.sha \in Nat
    BY Zenon, HoldsZero
  <2>3. ~word.exa /\ ~word.exu /\ word.sha = 0
    BY <1>3, <2>2 DEF ActiveAllOrExUpgrade, ActiveAll
  <2>4. /\ word' \in LWord /\ word'.exw = word.exw - 1
        /\ word'.exa /\ word'.exu = word.exu /\ word'.sha = word.sha
    BY ZenonT(40), <1>0, <2>1, WaitedWord
  <2>5. t \in Writers(pc, call)
    BY Zenon, <1>1 DEF Writers
  <2> QED
    BY ZenonT(40), <1>1, <2>1, <2>3, <2>4, <2>5, GrantWaitedKeeps
<1> QED
  BY ZenonT(40), <1>2, <1>3

-----------------------------------------------------------------------------
(* The reader-writer lock: upgrades and downgrades. *)

\* An exclusive lock becomes a shared one.
LEMMA DowngradeKeeps ==
    ASSUME LockInv, NEW t \in Thread, NEW s \in BOOLEAN, Downgrade(t, s)
    PROVE  LockInv'
<1>0. /\ LockTypes /\ word \in LWord /\ "idle" \notin LInside
      /\ sh \in [Thread -> Nat] /\ ex \in [Thread -> Nat]
      /\ pc \in [Thread -> LPlace] /\ call \in [Thread -> LCall]
  BY Zenon DEF LockInv, LockTypes, LInside
<1>1. /\ pc[t] = "idle" /\ ex[t] > 0 /\ mode' = mode
      /\ ex' = [ex EXCEPT ![t] = @ - 1] /\ sh' = [sh EXCEPT ![t] = @ + 1]
  BY Zenon DEF Downgrade, Begin, HoldShared
<1>2. /\ word.exa /\ owner = {t} /\ ex[t] = recursion + 1 /\ recursion \in Nat
  BY Zenon, <1>1, OwnerAlone
<1>3. /\ ex' \in [Thread -> Nat] /\ ex'[t] = ex[t] - 1
      /\ \A u \in Thread \ {t} : ex'[u] = ex[u]
  BY ZenonT(40), <1>0, <1>1, HeldChanges
<1>4. /\ sh' \in [Thread -> Nat] /\ \A u \in Thread \ {t} : sh'[u] = sh[u]
  BY ZenonT(40), <1>0, <1>1, HeldChanges
<1>5. word' = [word EXCEPT !.exa = recursion > 0, !.sha = @ + 1, !.spin = s]
  BY Zenon DEF Downgrade
<1>6. /\ word' \in LWord /\ word'.exw = word.exw /\ (word'.exa <=> recursion > 0)
      /\ word'.exu = word.exu /\ word'.sha = word.sha + 1
  <2>1. PICK x \in Int : x = word.sha + 1
    BY <1>0 DEF LWord
  <2>2. CASE recursion > 0
    <3>1. (recursion > 0) = TRUE
      BY Zenon, <2>2
    <3>2. word' = [word EXCEPT !.exa = TRUE, !.sha = x, !.spin = s]
      BY <1>5, <2>1, <3>1, ZenonT(40)
    <3>3. word' \in LWord /\ word'.exw = word.exw /\ word'.exu = word.exu
      BY ZenonT(40), <1>0, <3>2 DEF LWord
    <3>4. word'.exa /\ word'.sha = x
      BY ZenonT(40), <1>0, <3>2 DEF LWord
    <3> QED
      BY ZenonT(40), <2>1, <2>2, <3>3, <3>4
  <2>3. CASE ~(recursion > 0)
    <3>1. (recursion > 0) = FALSE
      BY <2>3
    <3>2. word' = [word EXCEPT !.exa = FALSE, !.sha = x, !.spin = s]
      BY <1>5, <2>1, <3>1, ZenonT(40)
    <3>3. word' \in LWord /\ word'.exw = word.exw /\ word'.exu = word.exu
      BY ZenonT(40), <1>0, <3>2 DEF LWord
    <3>4. ~word'.exa /\ word'.sha = x
      BY ZenonT(40), <1>0, <3>2 DEF LWord
    <3> QED
      BY ZenonT(40), <2>1, <2>3, <3>3, <3>4
  <2> QED
    BY ZenonT(40), <2>2, <2>3
<1>7. IsFiniteSet(Holds(sh)') /\ word'.sha = Cardinality(Holds(sh)')
  <2>1. IsFiniteSet(Holds(sh)) /\ word.sha = Cardinality(Holds(sh))
    BY Zenon DEF LockInv, LockCounts
  <2>2. Holds(sh)' = Holds(sh')
    BY Zenon DEF Holds
  <2>3. IsFiniteSet(Holds(sh')) /\ Cardinality(Holds(sh')) = Cardinality(Holds(sh)) + 1
    BY ZenonT(40), <1>0, <1>1, <2>1, HoldsMore
  <2> QED
    BY ZenonT(40), <1>6, <2>1, <2>2, <2>3
<1>8. CASE recursion > 0
  <2>1. recursion' = recursion - 1 /\ UNCHANGED <<owner, pc, call>>
    BY ZenonT(40), <1>8 DEF Downgrade
  <2>2. LockTypes'
    BY <1>0, <1>1, <1>2, <1>3, <1>4, <1>6, <1>8, <2>1 DEF LockTypes
  <2>3. ex'[t] = recursion' + 1
    BY <1>2, <1>3, <2>1
  <2> QED
    BY ZenonT(40), <1>0, <1>1, <1>2, <1>3, <1>4, <1>6, <1>7, <1>8, <2>1, <2>2,
       <2>3, OwnerStays
<1>9. CASE ~(recursion > 0)
  <2> DEFINE k == IF word'.exw = 0 /\ word'.shw > 0 THEN "readers" ELSE ""
  <2>1. recursion' = recursion /\ owner' = {} /\ ThenSignal(t, k, word'.shw)
    BY ZenonT(40), <1>5, <1>9 DEF Downgrade
  <2>2. k \in {"", "readers", "writer"} /\ word'.shw \in Int
    BY Zenon, <1>6 DEF LWord
  <2> HIDE DEF k
  <2>3. /\ pc' \in [Thread -> LPlace] /\ call' \in [Thread -> LCall]
        /\ pc'[t] \notin LInside
        /\ \A u \in Thread \ {t} : pc'[u] = pc[u] /\ call'[u] = call[u]
    BY ZenonT(40), <1>0, <2>1, <2>2, ControlTypes
  <2>4. LockTypes'
    BY ZenonT(40), <1>0, <1>1, <1>3, <1>4, <1>6, <2>1, <2>3 DEF LockTypes
  <2>5. recursion = 0 /\ ex'[t] = 0
    BY <1>2, <1>3, <1>9
  <2> QED
    BY ZenonT(40), <1>0, <1>1, <1>2, <1>3, <1>4, <1>6, <1>7, <1>9, <2>1, <2>3,
       <2>4, <2>5,
       OwnerLeaves
<1> QED
  BY ZenonT(40), <1>8, <1>9

\* The owner upgrades a shared lock that it holds beside the exclusive one.
LEMMA UpgradeOwnerKeeps ==
    ASSUME LockInv, NEW t \in Thread, NEW s \in BOOLEAN, UpgradeOwner(t, s)
    PROVE  LockInv'
<1>0. /\ LockTypes /\ word \in LWord /\ "idle" \notin LInside
      /\ sh \in [Thread -> Nat] /\ ex \in [Thread -> Nat]
  BY Zenon DEF LockInv, LockTypes, LInside
<1>1. /\ pc[t] = "idle" /\ owner = {t} /\ sh[t] > 0 /\ recursion' = recursion + 1
      /\ UNCHANGED <<mode, owner, pc, call>>
      /\ ex' = [ex EXCEPT ![t] = @ + 1] /\ sh' = [sh EXCEPT ![t] = @ - 1]
  BY Zenon DEF UpgradeOwner, Begin
<1>2. word.exa /\ ex[t] = recursion + 1 /\ recursion \in Nat
  BY Zenon, <1>1, OwnerAlone
<1>3. /\ ex' \in [Thread -> Nat] /\ ex'[t] = ex[t] + 1
      /\ \A u \in Thread \ {t} : ex'[u] = ex[u]
  BY ZenonT(40), <1>0, <1>1, HeldChanges
<1>4. /\ sh' \in [Thread -> Nat] /\ \A u \in Thread \ {t} : sh'[u] = sh[u]
  BY ZenonT(40), <1>0, <1>1, HeldChanges
<1>5. /\ word' \in LWord /\ word'.exw = word.exw /\ word'.exa = word.exa
      /\ word'.exu = word.exu /\ word'.sha = word.sha - 1
  <2>1. PICK x \in Int : x = word.sha - 1
    BY <1>0 DEF LWord
  <2>2. PICK b \in BOOLEAN : b = (word.spin /\ s)
    BY Zenon
  <2>3. word' = [word EXCEPT !.sha = x, !.spin = b]
    BY <2>1, <2>2, Zenon DEF UpgradeOwner
  <2> QED
    BY ZenonT(40), <1>0, <2>1, <2>3 DEF LWord
<1>6. IsFiniteSet(Holds(sh)') /\ word'.sha = Cardinality(Holds(sh)')
  <2>1. IsFiniteSet(Holds(sh)) /\ word.sha = Cardinality(Holds(sh))
    BY Zenon DEF LockInv, LockCounts
  <2>2. Holds(sh)' = Holds(sh')
    BY Zenon DEF Holds
  <2>3. IsFiniteSet(Holds(sh')) /\ Cardinality(Holds(sh')) = Cardinality(Holds(sh)) - 1
    BY ZenonT(40), <1>0, <1>1, <2>1, HoldsLess
  <2> QED
    BY ZenonT(40), <1>5, <2>1, <2>2, <2>3
<1>7. LockTypes'
  BY <1>0, <1>1, <1>2, <1>3, <1>4, <1>5 DEF LockTypes
<1>8. ex'[t] = recursion' + 1
  BY ZenonT(40), <1>1, <1>2, <1>3
<1> QED
  BY ZenonT(40), <1>0, <1>1, <1>2, <1>3, <1>4, <1>5, <1>6, <1>7, <1>8, OwnerStays

\* A thread gives up its shared lock to wait for the exclusive one.
LEMMA RegisterUpgradeKeeps ==
    ASSUME LockInv, NEW t \in Thread, pc[t] = "idle", sh[t] = 1, ex[t] = 0,
           NEW p \in LInside, NEW c \in LCall, Continue(t, p, c), c.op = "upgrade",
           UNCHANGED <<mode, ex, owner, recursion>>, sh' = [sh EXCEPT ![t] = 0],
           ~word.exu, word' \in LWord, word'.exw = word.exw + 1, word'.exa = word.exa,
           word'.exu, word'.sha = word.sha - 1
    PROVE  LockInv'
<1>0. /\ LockTypes /\ "idle" \notin LInside /\ LInside \subseteq LPlace
      /\ sh \in [Thread -> Nat]
  BY Zenon DEF LockInv, LockTypes, LInside, LPlace
<1>1. /\ pc' \in [Thread -> LPlace] /\ call' \in [Thread -> LCall]
      /\ pc'[t] = p /\ call'[t] = c
      /\ \A u \in Thread \ {t} : pc'[u] = pc[u] /\ call'[u] = call[u]
  BY Zenon, <1>0, ControlTypes
<1>2. /\ sh' \in [Thread -> Nat] /\ sh'[t] = 0
      /\ \A u \in Thread \ {t} : sh'[u] = sh[u]
  BY ZenonT(40), <1>0, HeldChanges
<1>3. LockTypes'
  BY Zenon, <1>0, <1>1, <1>2 DEF LockTypes
<1>4. ~word.exa
  <2> SUFFICES ASSUME word.exa PROVE FALSE
    BY Zenon
  <2>1. PICK h \in Thread : /\ ex[h] = recursion + 1
                            /\ \A u \in Thread \ {h} : ex[u] = 0 /\ sh[u] = 0
    BY Zenon DEF LockInv, LockOwner
  <2>2. recursion \in Nat
    BY Zenon DEF LockInv, LockTypes
  <2> QED
    BY <2>1, <2>2
<1>5. LockCounts'
  <2>1. Cardinality(Writers(pc', call')) = Cardinality(Writers(pc, call)) + 1
    <3>1. \A u \in Thread \ {t} : u \in Writers(pc', call') <=> u \in Writers(pc, call)
      BY Zenon, <1>1 DEF Writers
    <3>2. t \in Writers(pc', call') /\ t \notin Writers(pc, call)
      BY Zenon, <1>0, <1>1 DEF Writers
    <3> QED
      BY <3>1, <3>2, WritersChange
  <2>2. Writers(pc, call)' = Writers(pc', call') /\ Holds(sh)' = Holds(sh')
    BY Zenon DEF Writers, Holds
  <2>3. IsFiniteSet(Holds(sh)) /\ word.sha = Cardinality(Holds(sh))
    BY Zenon DEF LockInv, LockCounts
  <2> DEFINE z == [sh EXCEPT ![t] = @ - 1]
  <2>4. sh' = z
    BY <1>0
  <2>5. IsFiniteSet(Holds(sh')) /\ Cardinality(Holds(sh')) = Cardinality(Holds(sh)) - 1
    <3>1. sh[t] > 0
      OBVIOUS
    <3>2. IsFiniteSet(Holds(z)) /\ Cardinality(Holds(z)) = Cardinality(Holds(sh)) - 1
      BY <1>0, <2>3, <3>1, HoldsLess, ZenonT(40)
    <3> HIDE DEF z
    <3> QED
      BY ZenonT(40), <2>4, <3>2
  <2> HIDE DEF z
  <2> QED
    BY ZenonT(40), <2>1, <2>2, <2>3, <2>5 DEF LockInv, LockCounts
<1>6. LockOwner'
  BY Zenon, <1>4 DEF LockInv, LockOwner
<1>7. LockWaiting'
  BY ZenonT(40), <1>1, <1>2 DEF LockInv, LockWaiting
<1>8. LockUpgrade'
  <2>1. \A u \in Thread : ~Upgrading(u)
    BY Zenon DEF LockInv, LockUpgrade
  <2>2. \A u \in Thread \ {t} : ~Upgrading(u)'
    BY ZenonT(40), <1>1, <2>1 DEF Upgrading
  <2>3. Upgrading(t)'
    BY Zenon, <1>1 DEF Upgrading
  <2> QED
    BY ZenonT(40), <1>4, <2>2, <2>3 DEF LockUpgrade
<1> QED
  BY ZenonT(40), <1>3, <1>5, <1>6, <1>7, <1>8 DEF LockInv

\* A thread upgrades its only shared lock: at once, refused, or registered.
LEMMA UpgradeKeeps ==
    ASSUME LockInv, NEW t \in Thread, NEW safely \in BOOLEAN, NEW s \in BOOLEAN,
           NEW wait \in Waits, Upgrade(t, safely, s, wait)
    PROVE  LockInv'
<1> DEFINE w == [word EXCEPT !.sha = @ - 1]
           refused == word.exu \/ (safely /\ word.exw > 0)
<1>0. /\ LockTypes /\ word \in LWord /\ "idle" \notin LInside /\ "wait" \in LInside
      /\ "spin" \in LInside /\ sh \in [Thread -> Nat]
  BY Zenon DEF LockInv, LockTypes, LInside
<1>1. /\ pc[t] = "idle" /\ sh[t] = 1 /\ ex[t] = 0 /\ UNCHANGED <<mode, recursion>>
  BY Zenon DEF Upgrade, Begin
<1>2. /\ w \in LWord /\ w.exw = word.exw /\ w.exa = word.exa /\ w.exu = word.exu
      /\ w.sha = word.sha - 1 /\ word.sha \in Nat
  BY <1>0, HoldsZero DEF LWord
<1>3. CASE refused \/ (ActiveAll(w) /\ wait = "try")
  <2>1. UNCHANGED <<word, owner, sh, ex, pc, call>>
    BY Zenon, <1>3 DEF Upgrade
  <2> QED
    BY ZenonT(40), <1>1, <2>1, WaitKeeps
<1>4. CASE ~refused /\ ~ActiveAll(w)
  <2>1. /\ word' = GrantExclusive(w, s, FALSE) /\ sh' = [sh EXCEPT ![t] = 0]
        /\ HoldExclusive(t) /\ UNCHANGED <<pc, call>>
    BY Zenon, <1>4 DEF Upgrade
  <2>2. ~word.exa /\ ~word.exu /\ ~(w.sha > 0)
    BY ZenonT(40), <1>2, <1>4 DEF ActiveAll
  <2> HIDE DEF w
  <2>3. /\ word' \in LWord /\ word'.exw = w.exw /\ word'.exa
        /\ word'.exu = w.exu /\ word'.sha = w.sha
    BY ZenonT(40), <1>2, <2>1, ExclusiveWord
  <2>4. sh[t] > 0
    BY <1>1
  <2>5. word.sha = 1
    BY <1>2, <2>2, <2>4, HoldsZero
  <2>6. \A u \in Thread \ {t} : sh[u] = 0
    BY ZenonT(40), <2>4, <2>5, HoldsZero
  <2>7. sh' \in [Thread -> Nat] /\ \A u \in Thread : sh'[u] = 0
    BY ZenonT(40), <1>0, <2>1, <2>6, HeldChanges
  <2>8. word'.sha = 0
    BY <1>2, <2>3, <2>5
  <2> QED
    BY ZenonT(40), <1>1, <1>2, <2>1, <2>2, <2>3, <2>7, <2>8, GrantAtOnceKeeps
<1>5. CASE ~refused /\ ActiveAll(w) /\ wait # "try"
  <2> DEFINE c == [op |-> "upgrade", fWaitSpin |-> s, wait |-> wait, n |-> 0]
             p == IF word.spin THEN "spin" ELSE "wait"
  <2>1. /\ word' = [w EXCEPT !.exw = @ + 1, !.exu = TRUE] /\ Continue(t, p, c)
        /\ sh' = [sh EXCEPT ![t] = 0] /\ UNCHANGED <<owner, ex>>
    BY Zenon, <1>5 DEF Upgrade, Registered
  <2>2. c \in LCall /\ c.op = "upgrade" /\ p \in LInside
    BY Zenon, <1>0, LCallTypes
  <2>3. /\ word' \in LWord /\ word'.exw = w.exw + 1 /\ word'.exa = w.exa /\ word'.exu
        /\ word'.sha = w.sha
    <3> HIDE DEF w
    <3>1. PICK x \in Int : x = w.exw + 1
      BY <1>2 DEF LWord
    <3>2. word' = [w EXCEPT !.exw = x, !.exu = TRUE]
      BY Zenon, <2>1, <3>1
    <3> QED
      BY ZenonT(40), <1>2, <3>1, <3>2 DEF LWord
  <2>4. ~word.exu
    BY ZenonT(40), <1>5
  <2> HIDE DEF c, p, w
  <2> QED
    BY ZenonT(40), <1>1, <1>2, <2>1, <2>2, <2>3, <2>4, RegisterUpgradeKeeps
<1> QED
  BY ZenonT(40), <1>3, <1>4, <1>5

\* The thread that upgrades looks at the word again.
LEMMA UpgradeSteps ==
    ASSUME LockInv, NEW t \in Thread, SpinUpgrade(t) \/ WokenUpgrade(t)
    PROVE  LockInv'
<1>0. /\ LockTypes /\ word \in LWord /\ "wait" \in LInside
      /\ "spin" \in LInside /\ "woken" \in LInside /\ call[t].fWaitSpin \in BOOLEAN
  BY Zenon DEF LockInv, LockTypes, LInside, LCall
<1>1. /\ call[t].op = "upgrade" /\ pc[t] \in LInside /\ UNCHANGED <<mode, recursion, sh>>
  BY Zenon, <1>0 DEF SpinUpgrade, WokenUpgrade
<1>2. CASE ActiveAll(word)
  <2>1. Continue(t, "wait", call[t]) /\ UNCHANGED <<word, owner, ex>>
    BY Zenon, <1>2 DEF SpinUpgrade, WokenUpgrade
  <2> QED
    BY ZenonT(40), <1>0, <1>1, <2>1, WaitKeeps
<1>3. CASE ~ActiveAll(word)
  <2>1. /\ word' = GrantUpgrade(word, call[t].fWaitSpin)
        /\ HoldExclusive(t) /\ Return(t)
    BY ZenonT(40), <1>3 DEF SpinUpgrade, WokenUpgrade
  <2>2. word.sha \in Nat
    BY Zenon, HoldsZero
  <2>3. ~word.exa /\ word.sha = 0
    BY <1>3, <2>2 DEF ActiveAll
  <2>4. /\ word' \in LWord /\ word'.exw = word.exw - 1 /\ word'.exa
        /\ ~word'.exu /\ word'.sha = word.sha
    BY ZenonT(40), <1>0, <2>1, UpgradeWord
  <2>5. t \in Writers(pc, call) /\ Upgrading(t)
    BY ZenonT(40), <1>1 DEF Writers, Upgrading
  <2> QED
    BY ZenonT(40), <1>1, <2>1, <2>3, <2>4, <2>5, GrantWaitedKeeps
<1> QED
  BY Zenon, <1>2, <1>3

\* The upgrade is given up: the thread has its shared lock back.
LEMMA TimeoutUpgradeKeeps ==
    ASSUME LockInv, NEW t \in Thread, TimeoutUpgrade(t)
    PROVE  LockInv'
<1>0. /\ LockTypes /\ word \in LWord /\ "idle" \notin LInside /\ "wait" \in LInside
      /\ sh \in [Thread -> Nat]
  BY Zenon DEF LockInv, LockTypes, LInside
<1>1. /\ word' = CancelUpgrade(word) /\ pc[t] = "wait" /\ call[t].op = "upgrade"
      /\ UNCHANGED <<mode, ex, owner, recursion>> /\ sh' = [sh EXCEPT ![t] = @ + 1]
  BY Zenon DEF TimeoutUpgrade, GiveUp, HoldShared
<1>2. /\ word' \in LWord /\ word'.exw = word.exw - 1 /\ word'.exa = word.exa
      /\ ~word'.exu /\ word'.sha = word.sha + 1
  BY ZenonT(40), <1>0, <1>1, CancelWord
<1>3. /\ pc' \in [Thread -> LPlace] /\ call' \in [Thread -> LCall]
      /\ pc'[t] \notin LInside
      /\ \A u \in Thread \ {t} : pc'[u] = pc[u] /\ call'[u] = call[u]
  <2>1. Return(t) \/ ThenSignal(t, "readers", word'.shw)
    BY Zenon, <1>1 DEF TimeoutUpgrade, GiveUp
  <2>2. CASE Return(t)
    BY ZenonT(40), <1>0, <2>2, ControlTypes
  <2>3. CASE ThenSignal(t, "readers", word'.shw)
    <3>1. word'.shw \in Int
      BY Zenon, <1>2 DEF LWord
    <3> QED
      BY ZenonT(40), <1>0, <2>3, <3>1, ControlTypes
  <2> QED
    BY Zenon, <2>1, <2>2, <2>3
<1>4. sh' \in [Thread -> Nat] /\ \A u \in Thread \ {t} : sh'[u] = sh[u]
  BY ZenonT(40), <1>0, <1>1, HeldChanges
<1>5. LockTypes'
  BY ZenonT(40), <1>0, <1>1, <1>2, <1>3, <1>4 DEF LockTypes
<1>6. Upgrading(t) /\ ~word.exa
  BY ZenonT(40), <1>0, <1>1 DEF Upgrading, LockInv, LockUpgrade
<1>7. LockCounts'
  <2>1. Cardinality(Writers(pc', call')) = Cardinality(Writers(pc, call)) - 1
    <3>1. \A u \in Thread \ {t} : u \in Writers(pc', call') <=> u \in Writers(pc, call)
      BY Zenon, <1>3 DEF Writers
    <3>2. t \notin Writers(pc', call') /\ t \in Writers(pc, call)
      BY ZenonT(40), <1>0, <1>1, <1>3 DEF Writers
    <3> QED
      BY <3>1, <3>2, WritersChange
  <2>2. Writers(pc, call)' = Writers(pc', call') /\ Holds(sh)' = Holds(sh')
    BY Zenon DEF Writers, Holds
  <2>3. IsFiniteSet(Holds(sh)) /\ word.sha = Cardinality(Holds(sh))
    BY Zenon DEF LockInv, LockCounts
  <2>4. IsFiniteSet(Holds(sh')) /\ Cardinality(Holds(sh')) = Cardinality(Holds(sh)) + 1
    BY ZenonT(40), <1>0, <1>1, <2>3, HoldsMore
  <2> QED
    BY <1>2, <2>1, <2>2, <2>3, <2>4 DEF LockInv, LockCounts
<1>8. LockOwner'
  BY ZenonT(40), <1>1, <1>2, <1>6 DEF LockInv, LockOwner
<1>9. LockWaiting'
  BY ZenonT(40), <1>1, <1>3, <1>4 DEF LockInv, LockWaiting
<1>10. LockUpgrade'
  <2>1. \A u \in Thread : ~Upgrading(u)'
    BY ZenonT(40), <1>3, <1>6 DEF Upgrading, LockInv, LockUpgrade
  <2> QED
    BY Zenon, <1>2, <2>1 DEF LockUpgrade
<1> QED
  BY Zenon, <1>5, <1>7, <1>8, <1>9, <1>10 DEF LockInv

-----------------------------------------------------------------------------
(* The reader-writer lock: releases. *)

\* LFLockRelease of a shared lock.
LEMMA ReleaseSharedKeeps ==
    ASSUME LockInv, NEW t \in Thread, ReleaseShared(t)
    PROVE  LockInv'
<1>0. /\ LockTypes /\ word \in LWord /\ "idle" \notin LInside /\ sh \in [Thread -> Nat]
  BY Zenon DEF LockInv, LockTypes, LInside
<1>1. /\ pc[t] = "idle" /\ sh[t] > 0 /\ sh' = [sh EXCEPT ![t] = @ - 1]
      /\ word' = [word EXCEPT !.sha = @ - 1]
      /\ UNCHANGED <<mode, owner, recursion, ex>>
  BY Zenon DEF ReleaseShared
<1>2. /\ word' \in LWord /\ word'.exw = word.exw /\ word'.exa = word.exa
      /\ word'.exu = word.exu /\ word'.sha = word.sha - 1
  BY <1>0, <1>1 DEF LWord
<1>3. /\ pc' \in [Thread -> LPlace] /\ call' \in [Thread -> LCall]
      /\ pc'[t] \notin LInside
      /\ \A u \in Thread \ {t} : pc'[u] = pc[u] /\ call'[u] = call[u]
  <2>1. \E k \in {"", "readers", "writer"} : ThenSignal(t, k, 0)
    BY Zenon DEF ReleaseShared
  <2>3. 0 \in Int
    OBVIOUS
  <2>2. PICK k \in {"", "readers", "writer"}, n \in Int : ThenSignal(t, k, n)
    BY <2>1, <2>3, Zenon
  <2> QED
    BY ZenonT(40), <1>0, <2>2, ControlTypes
<1>4. /\ sh' \in [Thread -> Nat] /\ \A u \in Thread \ {t} : sh'[u] = sh[u]
      /\ \A u \in Thread : sh[u] = 0 => sh'[u] = 0
  <2>1. sh' \in [Thread -> Nat] /\ \A u \in Thread \ {t} : sh'[u] = sh[u]
    BY ZenonT(40), <1>0, <1>1, HeldChanges
  <2> QED
    BY <1>1, <2>1
<1>5. LockTypes'
  BY ZenonT(40), <1>0, <1>1, <1>2, <1>3, <1>4 DEF LockTypes
<1>6. SameWriters
  BY <1>0, <1>1, <1>3, <1>4, SameWritersBy
<1>7. LockCounts'
  <2>1. IsFiniteSet(Holds(sh)) /\ word.sha = Cardinality(Holds(sh))
    BY Zenon DEF LockInv, LockCounts
  <2>2. Holds(sh)' = Holds(sh')
    BY Zenon DEF Holds
  <2>3. IsFiniteSet(Holds(sh')) /\ Cardinality(Holds(sh')) = Cardinality(Holds(sh)) - 1
    BY ZenonT(40), <1>0, <1>1, <2>1, HoldsLess
  <2> QED
    BY ZenonT(40), <1>2, <1>6, <2>1, <2>2, <2>3, SameCount DEF LockCounts
<1>8. LockOwner'
  BY ZenonT(40), <1>1, <1>2, <1>4 DEF LockInv, LockOwner
<1>9. LockWaiting'
  BY ZenonT(40), <1>1, <1>3, <1>4 DEF LockInv, LockWaiting
<1>10. LockUpgrade'
  BY ZenonT(40), <1>2, <1>6, SameUpgrade DEF LockInv, LockUpgrade
<1> QED
  BY Zenon, <1>5, <1>7, <1>8, <1>9, <1>10 DEF LockInv

\* LFLockRelease of the exclusive lock: the last one clears ExActive and the owner.
LEMMA ReleaseExclusiveKeeps ==
    ASSUME LockInv, NEW t \in Thread, ReleaseExclusive(t)
    PROVE  LockInv'
<1>0. /\ LockTypes /\ word \in LWord /\ "idle" \notin LInside /\ ex \in [Thread -> Nat]
  BY Zenon DEF LockInv, LockTypes, LInside
<1>1. /\ pc[t] = "idle" /\ ex[t] > 0 /\ ex' = [ex EXCEPT ![t] = @ - 1]
      /\ UNCHANGED <<mode, sh>>
  BY Zenon DEF ReleaseExclusive
<1>2. word.exa /\ owner = {t} /\ ex[t] = recursion + 1 /\ recursion \in Nat
  BY ZenonT(40), <1>1, OwnerAlone
<1>3. /\ ex' \in [Thread -> Nat] /\ ex'[t] = ex[t] - 1
      /\ \A u \in Thread \ {t} : ex'[u] = ex[u]
  BY ZenonT(40), <1>0, <1>1, HeldChanges
<1>4. IsFiniteSet(Holds(sh)') /\ word.sha = Cardinality(Holds(sh)')
  BY Zenon, <1>1 DEF LockInv, LockCounts, Holds
<1>5. CASE recursion > 0
  <2>1. recursion' = recursion - 1 /\ UNCHANGED <<word, owner, pc, call>>
    BY ZenonT(40), <1>5 DEF ReleaseExclusive
  <2>2. LockTypes'
    BY <1>0, <1>1, <1>2, <1>3, <1>5, <2>1 DEF LockTypes
  <2>3. ex'[t] = recursion' + 1
    BY <1>2, <1>3, <2>1
  <2> QED
    BY ZenonT(40), <1>0, <1>1, <1>2, <1>3, <1>4, <2>1, <2>2, <2>3, OwnerStays
<1>6. CASE ~(recursion > 0)
  <2>1. /\ word' = [word EXCEPT !.exa = FALSE] /\ owner' = {} /\ recursion' = recursion
        /\ \/ ThenSignal(t, "writer", 0) \/ ThenSignal(t, "", 0) \/ Return(t)
           \/ ThenSignal(t, "readers", word'.shw)
    BY Zenon, <1>6 DEF ReleaseExclusive
  <2>2. /\ word' \in LWord /\ word'.exw = word.exw /\ ~word'.exa
        /\ word'.exu = word.exu /\ word'.sha = word.sha /\ word'.shw \in Int
    BY ZenonT(40), <1>0, <2>1 DEF LWord
  <2>3. /\ pc' \in [Thread -> LPlace] /\ call' \in [Thread -> LCall]
        /\ pc'[t] \notin LInside
        /\ \A u \in Thread \ {t} : pc'[u] = pc[u] /\ call'[u] = call[u]
    <3>1. CASE Return(t)
      BY ZenonT(40), <1>0, <3>1, ControlTypes
    <3>2. CASE ThenSignal(t, "writer", 0) \/ ThenSignal(t, "", 0)
      <4>2. 0 \in Int
        OBVIOUS
      <4>1. PICK k \in {"", "readers", "writer"}, n \in Int : ThenSignal(t, k, n)
        BY <3>2, <4>2, ZenonT(40)
      <4> QED
        BY Zenon, <1>0, <4>1, ControlTypes
    <3>3. CASE ThenSignal(t, "readers", word'.shw)
      BY ZenonT(40), <1>0, <2>2, <3>3, ControlTypes
    <3> QED
      BY ZenonT(40), <2>1, <3>1, <3>2, <3>3
  <2>4. LockTypes'
    BY ZenonT(40), <1>0, <1>1, <1>2, <1>3, <2>1, <2>2, <2>3 DEF LockTypes
  <2>5. recursion = 0 /\ ex'[t] = 0 /\ recursion' = 0
    <3>1. recursion = 0
      BY <1>2, <1>6
    <3>2. ex'[t] = 0
      BY <1>2, <1>3, <3>1
    <3> QED
      BY ZenonT(40), <2>1, <3>1, <3>2
  <2> QED
    BY ZenonT(40), <1>0, <1>1, <1>2, <1>3, <1>4, <2>1, <2>2, <2>3, <2>4, <2>5,
       OwnerLeaves
<1> QED
  BY ZenonT(40), <1>5, <1>6

-----------------------------------------------------------------------------
(* The reader-writer lock: the theorem. *)

\* The free lock satisfies the invariant.
LEMMA LockInitial == InitLFLock => LockInv
<1> SUFFICES ASSUME InitLFLock PROVE LockInv
  BY Zenon
<1>1. LockTypes
  <2>1. FreeWord \in LWord
    BY DEF FreeWord, LWord
  <2>2. Idle \in LCall /\ "idle" \in LPlace
    BY Zenon, LCallTypes DEF LPlace
  <2> QED
    BY ZenonT(40), <2>1, <2>2 DEF InitLFLock, LockTypes
<1>2. "idle" \notin LInside
  BY Zenon DEF LInside
<1>3. Holds(sh) = {} /\ Writers(pc, call) = {}
  BY <1>2 DEF InitLFLock, Holds, Writers
<1>4. LockCounts
  BY Zenon, <1>3, FS_EmptySet DEF LockCounts, InitLFLock, FreeWord
<1>5. LockOwner
  BY Zenon DEF LockOwner, InitLFLock, FreeWord
<1>6. LockWaiting
  BY Zenon, <1>2 DEF LockWaiting, InitLFLock
<1>7. LockUpgrade
  BY Zenon, <1>2 DEF LockUpgrade, Upgrading, InitLFLock, FreeWord
<1> QED
  BY ZenonT(40), <1>1, <1>4, <1>5, <1>6, <1>7 DEF LockInv

\* Every step of every thread keeps the invariant.
LEMMA LockSteps ==
    ASSUME LockInv, [NextLFLock]_lockVars
    PROVE  LockInv'
<1>1. ASSUME NEW t \in Thread, NEW s \in BOOLEAN,
             \/ AcquireSharedOwner(t, s) \/ AcquireExclusiveOwner(t, s)
             \/ Downgrade(t, s) \/ UpgradeOwner(t, s)
      PROVE  LockInv'
  BY ZenonT(40), <1>1, SharedSteps, AcquireExclusiveOwnerKeeps, DowngradeKeeps,
     UpgradeOwnerKeeps
<1>4. ASSUME NEW t \in Thread, NEW s \in BOOLEAN, NEW w \in Waits,
             NEW safely \in BOOLEAN,
             \/ AcquireShared(t, s, w) \/ AcquireExclusive(t, s, w)
             \/ Upgrade(t, safely, s, w)
      PROVE  LockInv'
  BY ZenonT(40), <1>4, AcquireSharedKeeps, AcquireExclusiveKeeps, UpgradeKeeps
<1>2. ASSUME NEW t \in Thread,
             \/ ClearSpin(t) \/ SpinShared(t) \/ SpinExclusive(t) \/ SpinUpgrade(t)
             \/ SpinEnd(t) \/ WaitShared(t) \/ WaitWriter(t) \/ WokenShared(t)
             \/ WokenExclusive(t) \/ WokenUpgrade(t) \/ TimeoutShared(t)
             \/ TimeoutExclusive(t) \/ TimeoutUpgrade(t) \/ ReleaseShared(t)
             \/ ReleaseExclusive(t) \/ Signal(t)
      PROVE  LockInv'
  BY ZenonT(40), <1>2, SharedSteps, QuietSteps, WriterSteps, UpgradeSteps,
     TimeoutExclusiveKeeps, TimeoutUpgradeKeeps, ReleaseSharedKeeps, ReleaseExclusiveKeeps
<1>3. CASE UNCHANGED lockVars
  BY Zenon, <1>3 DEF lockVars, LockInv, LockTypes, LockCounts, LockOwner, LockWaiting,
              LockUpgrade, Upgrading
<1> QED
  BY ZenonT(40), <1>1, <1>2, <1>3, <1>4 DEF NextLFLock

\* LFLockAcquireEx and LFLockRelease: a thread with an exclusive lock excludes
\* every lock of another thread, for any number of threads and calls, through
\* upgrades, downgrades, recursion, spinners that overtake and waits that fail.
THEOREM LockExcludes ==
    SpecLFLock => []MutualExclusion
<1>1. LockInv => MutualExclusion
  BY Zenon, OwnerAlone DEF MutualExclusion
<1> QED
  BY LockInitial, LockSteps, <1>1, PTL DEF SpecLFLock
=============================================================================
