--------------------- MODULE CommandSocketLockingProofs ---------------------
(***************************************************************************)
(* What holds of the locks for any of the threads and duties.              *)
(***************************************************************************)
EXTENDS CommandSocketLocking, TLAPS

Ops == {"lock", "unlock", "request", "recalculate"}

\* While a request is served, the compositor's thread is at most recalculating;
\* once it has got past trying the mutex, the requester cannot take it.
ServesOnly ==
  served # None =>
    /\ mainTodo \in {<<>>, Recalculation, <<"take">>}
    /\ mainTodo = <<"take">> => holder # served

LInv == LockingTypeOK /\ todo \in [Threads -> Seq(Ops)] /\ ServesOnly

-----------------------------------------------------------------------------
(* Each action preserves the invariant.                                    *)

\* What a thread does next is an operation, and it drops out of the list.
LEMMA GoesFacts ==
  ASSUME todo \in [Threads -> Seq(Ops)], NEW t \in Threads, todo[t] # <<>>, Goes(t)
  PROVE  /\ todo' \in [Threads -> Seq(Ops)]
         /\ \A u \in Threads \ {t} : todo'[u] = todo[u]
         /\ Head(todo[t]) \in Ops
  BY DEF Goes

\* Sequences of operations, stated as LockingTypeOK does.
LEMMA OpsFacts ==
  ASSUME NEW f \in [Threads -> Seq(Ops)]
  PROVE  \A t \in Threads : \A i \in DOMAIN f[t] : f[t][i] \in Ops
  OBVIOUS

\* In the beginning nobody has anything to do.
LEMMA LInvInit == LockingInit => LInv
  BY LockingAssumption DEF LockingInit, LInv, LockingTypeOK, ServesOnly, Ops

\* Every call is a list of operations.
LEMMA CallsAreOps == \A t \in Threads : CallsOf(t) \subseteq Seq(Ops)
<1>1. {Compute, AskLocked, AskUnlocked, AskRecalc} \subseteq Seq(Ops)
  BY DEF Compute, AskLocked, AskUnlocked, AskRecalc, Ops
<1>2. ASSUME NEW t \in Threads
      PROVE  CallsOf(t) \subseteq {Compute, AskLocked, AskUnlocked, AskRecalc}
  <2>1. t \in {"event", "controller", "notifier", "helper"}
    BY LockingAssumption DEF LockingAssumption
  <2> QED BY <2>1 DEF CallsOf
<1> QED BY <1>1, <1>2

\* A call of an idle thread.
LEMMA LInvStart == ASSUME LInv, NEW t \in Threads, Start(t) PROVE LInv'
<1>1. todo' \in [Threads -> Seq(Ops)]
  BY CallsAreOps DEF LInv, Start
<1>2. t \notin asked /\ \A u \in Threads \ {t} : todo'[u] = todo[u]
  BY DEF LInv, LockingTypeOK, Start, Does
<1>3. LockingTypeOK'
  BY <1>1, <1>2, OpsFacts DEF LInv, LockingTypeOK, Start, Does, Ops
<1>4. ServesOnly'
  BY DEF LInv, ServesOnly, Start
<1> QED BY <1>1, <1>3, <1>4 DEF LInv

\* The mutex and the socket, as a thread sees them: a thread that waits for an
\* answer is not at a lock, and who locks is not being served.
LEMMA LInvCallStep ==
  ASSUME LInv, NEW t \in Threads, CallStep(t) \/ AskFails(t) PROVE LInv'
<1>1. CASE Lock(t) \/ Unlock(t)
  <2>1. t \notin asked /\ todo[t] # <<>> /\ Goes(t)
    BY <1>1 DEF LInv, LockingTypeOK, Lock, Unlock, Does
  <2>2. todo' \in [Threads -> Seq(Ops)] /\ \A u \in Threads \ {t} : todo'[u] = todo[u]
    BY <2>1, GoesFacts DEF LInv
  <2>3. LockingTypeOK'
    BY <1>1, <2>1, <2>2, OpsFacts DEF LInv, LockingTypeOK, Lock, Unlock, Does, Ops
  <2>4. ServesOnly'
    BY <1>1, <2>1, LockingAssumption
    DEF LInv, LockingTypeOK, ServesOnly, Lock, Unlock, LockingAssumption
  <2> QED BY <2>2, <2>3, <2>4 DEF LInv
<1>2. CASE Ask(t)
  <2>1. LockingTypeOK'
    BY <1>2 DEF LInv, LockingTypeOK, Ask, Does
  <2> QED BY <1>2, <2>1 DEF LInv, ServesOnly, Ask
<1>3. CASE AskFails(t)
  <2>1. t \notin asked /\ todo[t] # <<>> /\ Goes(t)
    BY <1>3 DEF AskFails, Does
  <2>2. todo' \in [Threads -> Seq(Ops)] /\ \A u \in Threads \ {t} : todo'[u] = todo[u]
    BY <2>1, GoesFacts DEF LInv
  <2>3. LockingTypeOK'
    BY <1>3, <2>1, <2>2, OpsFacts DEF LInv, LockingTypeOK, AskFails, Does, Ops
  <2> QED BY <1>3, <2>2, <2>3 DEF LInv, ServesOnly, AskFails
<1> QED BY <1>1, <1>2, <1>3 DEF CallStep

\* A thread that was told to end does.
LEMMA LInvEnd == ASSUME LInv, NEW t \in Threads, End(t) PROVE LInv'
  BY DEF LInv, LockingTypeOK, ServesOnly, End, Does

\* The compositor takes up a request; it tries the mutex before it waits for it.
LEMMA LInvServe == ASSUME LInv, NEW t \in Threads, Serve(t) PROVE LInv'
<1>1. LockingTypeOK'
  BY DEF LInv, LockingTypeOK, Serve, Does
<1>2. Recalculation # <<"take">> /\ <<>> # <<"take">>
  BY DEF Recalculation
<1>3. ServesOnly'
  BY <1>2 DEF ServesOnly, Serve
<1> QED BY <1>1, <1>3 DEF LInv, Serve

\* The answer.
LEMMA LInvReply == ASSUME LInv, Reply PROVE LInv'
<1> DEFINE t == served
<1>1. t \in Threads /\ t \in asked /\ todo[t] # <<>> /\ Goes(t)
  BY DEF LInv, LockingTypeOK, Reply, Does
<1>2. todo' \in [Threads -> Seq(Ops)] /\ \A u \in Threads \ {t} : todo'[u] = todo[u]
  BY <1>1, GoesFacts DEF LInv
<1>3. LockingTypeOK'
  BY <1>1, <1>2, OpsFacts DEF LInv, LockingTypeOK, Reply, Does, Ops
<1> QED BY <1>2, <1>3 DEF LInv, ServesOnly, Reply

\* What occupies the compositor's thread when it serves nobody.
LEMMA LInvDuty == ASSUME LInv, Recalculate \/ Dispatch \/ PluginExit PROVE LInv'
  BY DEF LInv, LockingTypeOK, ServesOnly, Recalculate, Dispatch, PluginExit, MainIdle, Does

\* What it does next when it serves somebody is to try or to take the mutex.
LEMMA ServingHead ==
  ASSUME ServesOnly, served # None, mainTodo # <<>>
  PROVE  \/ mainTodo = Recalculation /\ MainDoes("try") /\ Tail(mainTodo) = <<"take">>
         \/ mainTodo = <<"take">> /\ MainDoes("take") /\ Tail(mainTodo) = <<>>
<1>1. mainTodo \in {Recalculation, <<"take">>}
  BY DEF ServesOnly
<1>2. Recalculation # <<>> /\ Head(Recalculation) = "try" /\ Tail(Recalculation) = <<"take">>
  BY DEF Recalculation
<1>3. <<"take">> # <<>> /\ Head(<<"take">>) = "take" /\ Tail(<<"take">>) = <<>>
  OBVIOUS
<1> QED BY <1>1, <1>2, <1>3 DEF MainDoes

\* The mutex was free when it was tried, and the requester does not lock.
LEMMA LInvMain ==
  ASSUME LInv, \/ TryMutex \/ TakeMutex \/ StartHelper \/ EndTap
               \/ Join("controller") \/ Join("notifier") \/ Join("event")
  PROVE LInv'
<1>1. LockingTypeOK' /\ todo' = todo /\ served' = served /\ holder' = holder
  BY DEF LInv, LockingTypeOK, TryMutex, TakeMutex, StartHelper, EndTap, Join, Does
<1>2. CASE TryMutex
  <2>1. CASE served = None
    BY <1>1, <2>1 DEF LInv, ServesOnly
  <2>2. CASE served # None
    <3>1. mainTodo = Recalculation /\ Tail(mainTodo) = <<"take">>
      BY <1>2, <2>2, ServingHead DEF LInv, TryMutex, MainDoes
    <3>2. mainTodo' = <<>> \/ (mainTodo' = <<"take">> /\ holder = None)
      BY <1>2, <3>1 DEF TryMutex
    <3>3. <<>> # <<"take">>
      OBVIOUS
    <3>4. CASE mainTodo' = <<>>
      BY <1>1, <3>3, <3>4 DEF LInv, ServesOnly
    <3>5. CASE mainTodo' = <<"take">> /\ holder = None
      BY <1>1, <2>2, <3>5 DEF LInv, ServesOnly
    <3> QED BY <3>2, <3>4, <3>5
  <2> QED BY <2>1, <2>2
<1>3. CASE TakeMutex
  BY <1>1, <1>3, ServingHead DEF LInv, ServesOnly, TakeMutex, MainDoes, Recalculation
<1>4. CASE \/ StartHelper \/ EndTap
           \/ Join("controller") \/ Join("notifier") \/ Join("event")
  <2>1. served = None
    BY <1>4, ServingHead DEF LInv, StartHelper, EndTap, Join, MainDoes
  <2> QED BY <1>1, <2>1 DEF LInv, ServesOnly
<1> QED BY <1>2, <1>3, <1>4

\* Every step of any thread preserves the invariant.
LEMMA LInvStep == LInv /\ [LockingNext]_lockingVars => LInv'
<1> SUFFICES ASSUME LInv, [LockingNext]_lockingVars PROVE LInv'
  OBVIOUS
<1>1. CASE \E t \in Threads : Start(t) \/ CallStep(t) \/ AskFails(t) \/ Serve(t)
  BY <1>1, LInvStart, LInvCallStep, LInvServe
<1>2. CASE (\E t \in Threads \ {"event"} : End(t)) \/ EventEnds
  BY <1>2, LInvEnd DEF EventEnds
<1>3. CASE Recalculate \/ Dispatch \/ PluginExit
  BY <1>3, LInvDuty
<1>4. CASE MainStep
  BY <1>4, LInvReply, LInvMain DEF MainStep
<1>5. CASE UNCHANGED lockingVars
  BY <1>5 DEF LInv, LockingTypeOK, ServesOnly, lockingVars, Does
<1> QED BY <1>1, <1>2, <1>3, <1>4, <1>5 DEF LockingNext

\* The types, the operations and what is left to do for a request hold throughout.
THEOREM LInvHolds == LockingSpec => []LInv
  BY LInvInit, LInvStep, PTL DEF LockingSpec

-----------------------------------------------------------------------------
(* The results.                                                            *)

\* Requests, locks and the lists of what is left to do have their types.
THEOREM LockingTypeCorrect == LockingSpec => []LockingTypeOK
<1>1. LInv => LockingTypeOK
  BY DEF LInv
<1> QED BY <1>1, LInvHolds, PTL

\* With any threads and duties, the compositor's thread never waits for a mutex
\* that is held by the thread whose request it serves: recalculate's first look
\* at the mutex only tries, and a thread that waits for an answer cannot take it
\* afterwards.
THEOREM NeverWaits == LockingSpec => []NeverWaitsForItsClient
<1>1. LInv => NeverWaitsForItsClient
  <2> SUFFICES ASSUME LInv, MainWaits PROVE holder # served
    BY DEF NeverWaitsForItsClient
  <2>1. CASE served = None
    BY <2>1 DEF MainWaits
  <2>2. CASE served # None
    <3>1. mainTodo = <<"take">>
      BY <2>2, ServingHead DEF LInv, MainWaits, MainDoes, Recalculation
    <3> QED BY <2>2, <3>1 DEF LInv, ServesOnly
  <2> QED BY <2>1, <2>2
<1> QED BY <1>1, LInvHolds, PTL
=============================================================================
