------------------------ MODULE HiddenWindowsProofs ------------------------
(***************************************************************************)
(* Hidden windows, whatever the two threads do at once and whatever the    *)
(* compositor fails to do: the properties of SessionHistory.  A hidden     *)
(* window is recorded unless it was overtaken (HInv), the end of a         *)
(* connection restores what was not hidden late (RInv), and the event      *)
(* thread hides what the layout hides unless it was disturbed (EInv).      *)
(*                                                                         *)
(* Each invariant says what is still on a thread's list, and what the      *)
(* other thread can do to that only the history variables let it.          *)
(***************************************************************************)
EXTENDS SessionHistory, ManagedSessionProofs

-----------------------------------------------------------------------------
(* What a step does to the threads' lists.                                 *)

\* What a thread plans to do: not one of the second halves, which only the
\* first half of the same call leads to.
PlannedCalls == {x \in Calls : x.op \notin {"record", "forget"}}

\* All but the end of a connection.
OrdinaryCalls == {x \in PlannedCalls : x.op \notin {"clean-up", "scan", "restore", "offline"}}

\* Thread t goes from one call of C to others, or begins with some, and moves no
\* window.
Plans(t, C) ==
  /\ UNCHANGED <<window, hiddenFrom>> /\ (t = "controller" => UNCHANGED queue)
  /\ \/ /\ Idle(t)
        /\ \E calls \in Seq(C) : todo' = [todo EXCEPT ![t] = calls]
     \/ /\ ~Idle(t) /\ Head(todo[t]) \in C
        /\ \E calls \in Seq(C) : Goes(t, calls)

\* The event thread works, the controller thread accepts or serves a connection.
LEMMA OrdinaryStep ==
  ASSUME TInv,
         \/ EventThread \/ CommandReceived \/ CommandStep \/ Accept \/ GoOnline
         \/ \E c \in Clients : SeedCommand(c)
  PROVE  /\ (EventThread /\ Plans("event", OrdinaryCalls)) \/ Plans("controller", OrdinaryCalls)
         /\ connected => connected'
<1>1. /\ "event" \in Threads /\ "controller" \in Threads
      /\ \A t \in Threads : MayStart(t) => Idle(t)
  BY DEF Threads, MayStart
<1>2. CommandCalls \subseteq OrdinaryCalls /\ EventCalls \subseteq OrdinaryCalls
  BY DEF CommandCalls, CommandOps, EventCalls, EventOps, OrdinaryCalls, PlannedCalls, InputModes
<1>3. /\ \A calls \in Seq(CommandCalls) : calls \in Seq(OrdinaryCalls)
      /\ \A calls \in Seq(EventCalls) : calls \in Seq(OrdinaryCalls)
  BY <1>2, SeqMonotonic
<1>4. CASE HandleEvent
  <2>1. Reads /\ EventThread
    BY <1>4, HandleEventFacts DEF EventThread
  <2> QED BY <1>1, <1>3, <2>1 DEF Reads, Plans
<1>5. CASE Answer \/ Enforce
  <2>1. Serves /\ EventThread
    BY <1>5, ServesEvent DEF EventThread
  <2> QED BY <1>1, <1>2, <1>3, <2>1 DEF Serves, Plans, NothingElse
<1>6. CASE CommandReceived \/ \E c \in Clients : SeedCommand(c)
  <2>1. Starts
    BY <1>6, StartsCommand
  <2> QED BY <1>1, <1>3, <2>1 DEF Starts, Plans, NothingElse, Then
<1>7. CASE CommandStep
  <2>1. Continues
    BY <1>7, ContinuesCommand
  <2> QED BY <1>1, <1>2, <1>3, <2>1 DEF Continues, Plans, NothingElse
<1>8. Call("online", None, None) \in OrdinaryCalls
  BY CallTypes DEF OrdinaryCalls, PlannedCalls, Call
<1>9. CASE Accept
  <2>1. todo' = [todo EXCEPT !["controller"] = <<Call("online", None, None)>>]
    BY <1>9 DEF Accept
  <2>2. <<Call("online", None, None)>> \in Seq(OrdinaryCalls)
    BY <1>8, ShortLists
  <2> QED BY <1>1, <1>9, <2>1, <2>2 DEF Accept, Plans, vars
<1>10. CASE GoOnline
  <2>1. ~Idle("controller") /\ Head(todo["controller"]).op = "online"
    BY <1>10 DEF GoOnline, Doing
  <2>2. Head(todo["controller"]) \in Calls
    BY <1>1, <2>1, GoesFacts DEF TInv, SessionTypes
  <2>3. Head(todo["controller"]) \in OrdinaryCalls
    BY <2>1, <2>2 DEF OrdinaryCalls, PlannedCalls
  <2>4. Goes("controller", <<>>) /\ <<>> \in Seq(OrdinaryCalls)
    BY <1>10, ShortLists DEF GoOnline, Finishes
  <2> QED BY <1>1, <1>10, <2>1, <2>3, <2>4 DEF GoOnline, Plans, NothingElse, Connect
<1> QED BY <1>4, <1>5, <1>6, <1>7, <1>9, <1>10 DEF EventThread

\* What the end of a connection begins with, what is on the list when the managed
\* workspace has been read, and what comes last.
HangUpCall == Call("clean-up", None, None)
ScanCall == Call("scan", None, managedWs)
OfflineCall == Call("offline", None, None)

\* What is restored at the end of a connection.
LEMMA RestoreList ==
  ASSUME NEW w \in Maybe(Workspaces)
  PROVE  LET held == {c \in Clients : hiddenFrom[c] = w}
         IN  /\ ForEach(held, "restore", w) \in Seq({x \in Calls : x.op \in {"restore", "forget"}})
             /\ \A c \in held : \E x \in Range(ForEach(held, "restore", w)) : x.client = c
<1> DEFINE held == {c \in Clients : hiddenFrom[c] = w}
           C == {x \in Calls : x.op \in {"restore", "forget"}}
<1>1. held \in SUBSET Clients
  OBVIOUS
<1> HIDE DEF held
<1>2. \A c \in held : Call("restore", c, w) \in C
  BY <1>1, CallTypes DEF Call
<1> HIDE DEF C
<1>3. ForEach(held, "restore", w) \in Seq(C)
  BY <1>1, <1>2, ForEachFacts
<1>4. \A c \in held : Call("restore", c, w) \in Range(ForEach(held, "restore", w))
  BY <1>1, ForEachFacts
<1>5. \A c : Call("restore", c, w).client = c
  BY DEF Call
<1> QED BY <1>3, <1>4, <1>5 DEF held, C

\* What the calls at the end of a connection lead to.
LEMMA ClosingCalls ==
  ASSUME TInv, NEW op \in {"clean-up", "scan", "offline"}, Doing("controller", op)
  PROVE  /\ ~Idle("controller") /\ Head(todo["controller"]).op = op
         /\ Head(todo["controller"]) \in PlannedCalls
         /\ Head(todo["controller"]).ws \in Maybe(Workspaces)
<1>1. ~Idle("controller") /\ Head(todo["controller"]).op = op
  BY DEF Doing
<1>2. Head(todo["controller"]) \in Calls
  BY <1>1, GoesFacts DEF TInv, SessionTypes, Threads
<1> QED BY <1>1, <1>2, CallArguments DEF PlannedCalls

\* The end of a connection moves no window by itself.
LEMMA ClosingStep ==
  ASSUME TInv, HangUp \/ CleanUp \/ Scan \/ GoOffline
  PROVE  Plans("controller", PlannedCalls)
<1>1. HangUpCall \in PlannedCalls /\ OfflineCall \in PlannedCalls
  BY CallTypes DEF PlannedCalls, Call, HangUpCall, OfflineCall
<1>2. \A x \in PlannedCalls : <<x>> \in Seq(PlannedCalls)
  BY ShortLists
<1>3. CASE HangUp
  <2>1. todo' = [todo EXCEPT !["controller"] = <<HangUpCall>>] /\ Idle("controller")
    BY <1>3 DEF HangUp, HangUpCall, MayStart
  <2> QED BY <1>1, <1>2, <1>3, <2>1 DEF HangUp, Plans
<1>4. CASE CleanUp
  <2>1. Doing("controller", "clean-up") /\ UNCHANGED <<window, queue, hiddenFrom>>
    BY <1>4 DEF CleanUp, NothingElse
  <2>2. managedWs # None => ScanCall \in PlannedCalls
    <3>1. managedWs # None => ScanCall \in Calls
      BY CallTypes DEF TInv, IInv, TypeOK, Maybe, WorkspaceOps, ScanCall
    <3> QED BY <3>1 DEF PlannedCalls, ScanCall, Call
  <2>3. (managedWs # None /\ Goes("controller", <<ScanCall>>)) \/ Goes("controller", <<OfflineCall>>)
    BY <1>4 DEF CleanUp, ScanCall, OfflineCall
  <2> QED BY <1>1, <1>2, <2>1, <2>2, <2>3, ClosingCalls DEF Plans
<1>5. CASE Scan
  <2> DEFINE w == Head(todo["controller"]).ws
             held == {c \in Clients : hiddenFrom[c] = w}
  <2>1. Doing("controller", "scan") /\ UNCHANGED <<window, queue, hiddenFrom>>
    BY <1>5 DEF Scan, NothingElse
  <2>2. Goes("controller", ForEach(held, "restore", w) \o <<OfflineCall>>)
    BY <1>5 DEF Scan, OfflineCall
  <2>3. w \in Maybe(Workspaces)
    BY <2>1, ClosingCalls
  <2> HIDE DEF w, held
  <2>4. ForEach(held, "restore", w) \in Seq(PlannedCalls)
    <3>1. held \in SUBSET Clients
      BY DEF held
    <3>2. \A c \in held : Call("restore", c, w) \in PlannedCalls
      BY <2>3, <3>1, CallTypes DEF PlannedCalls, Call
    <3> QED BY <3>1, <3>2, ForEachFacts
  <2>5. ForEach(held, "restore", w) \o <<OfflineCall>> \in Seq(PlannedCalls)
    BY <1>1, <2>4, ShortLists
  <2> QED BY <2>1, <2>2, <2>5, ClosingCalls DEF Plans
<1>6. CASE GoOffline
  <2>1. Doing("controller", "offline") /\ UNCHANGED <<window, queue, hiddenFrom>>
    BY <1>6 DEF GoOffline, NothingElse
  <2>2. Goes("controller", <<>>) /\ <<>> \in Seq(PlannedCalls)
    BY <1>6, ShortLists DEF GoOffline, Finishes
  <2> QED BY <2>1, <2>2, ClosingCalls DEF Plans
<1> QED BY <1>3, <1>4, <1>5, <1>6

\* A step is of one of four kinds.
LEMMA StepKinds ==
  ASSUME TInv, SessionNext
  PROVE  \/ /\ (EventThread /\ Plans("event", OrdinaryCalls)) \/ Plans("controller", OrdinaryCalls)
            /\ connected => connected'
         \/ HangUp \/ CleanUp \/ Scan \/ GoOffline
         \/ \E t \in Threads : ApplierStep(t) /\ Applies(t) /\ UNCHANGED vars
         \/ /\ UserStep /\ WindowsTyped({})
            /\ UNCHANGED <<hiddenFrom, todo>> /\ UNCHANGED vars
<1>1. ASSUME NEW t \in Threads, ApplierStep(t) PROVE Applies(t)
  BY <1>1, ApplierFacts DEF TInv
<1>2. CASE UserStep /\ UNCHANGED <<vars, applierVars, fd>>
  BY <1>2, UserFacts DEF TInv, applierVars
<1> QED BY <1>1, <1>2, OrdinaryStep DEF SessionNext, Connection

\* The same steps, for what they plan.
LEMMA StepPlans ==
  ASSUME TInv, SessionNext
  PROVE  \/ \E t \in Threads : Plans(t, PlannedCalls)
         \/ \E t \in Threads : ApplierStep(t) /\ Applies(t)
         \/ UserStep /\ WindowsTyped({}) /\ UNCHANGED <<hiddenFrom, todo>>
<1>1. \A calls \in Seq(OrdinaryCalls) : calls \in Seq(PlannedCalls)
  BY SeqMonotonic DEF OrdinaryCalls
<1>2. \A t \in Threads : Plans(t, OrdinaryCalls) => Plans(t, PlannedCalls)
  BY <1>1 DEF Plans, OrdinaryCalls
<1> QED BY <1>2, StepKinds, ClosingStep DEF Threads

\* The thread's list after a step.
LEMMA ListAfter ==
  ASSUME SessionTypes, NEW t \in Threads, ~Idle(t)
  PROVE  /\ Finishes(t) =>
              /\ todo'[t] = Tail(todo[t])
              /\ \A u \in Threads \ {t} : todo'[u] = todo[u]
         /\ \A x \in Calls : Goes(t, <<x>>) =>
              /\ todo'[t] # <<>>
              /\ Head(todo'[t]) = x
              /\ Tail(todo'[t]) = Tail(todo[t])
              /\ \A u \in Threads \ {t} : todo'[u] = todo[u]
         /\ \A C \in SUBSET Calls : \A calls \in Seq(C) :
              Goes(t, calls) =>
                /\ Range(Tail(todo[t])) \subseteq C => Range(todo'[t]) \subseteq C
                /\ \A u \in Threads \ {t} : todo'[u] = todo[u]
<1>1. todo \in [Threads -> Seq(Calls)]
  BY DEF SessionTypes
<1>2. Tail(todo[t]) \in Seq(Calls)
  BY <1>1, GoesFacts
<1>3. ASSUME NEW x \in Calls, Goes(t, <<x>>)
      PROVE  /\ todo'[t] # <<>> /\ Head(todo'[t]) = x
             /\ Tail(todo'[t]) = Tail(todo[t])
             /\ \A u \in Threads \ {t} : todo'[u] = todo[u]
  <2>1. <<x>> \in Seq(Calls) /\ <<x>> # <<>> /\ Head(<<x>>) = x /\ Tail(<<x>>) = <<>>
    BY ShortLists
  <2>2. /\ todo'[t] = <<x>> \o Tail(todo[t])
        /\ \A u \in Threads \ {t} : todo'[u] = todo[u]
    BY <1>1, <1>3, <2>1, GoesFacts
  <2>3. Tail(<<x>>) \o Tail(todo[t]) = Tail(todo[t])
    BY <1>2, <2>1, ConcatEmptySeq
  <2> QED BY <1>2, <2>1, <2>2, <2>3, PutInFront
<1>4. ASSUME NEW C \in SUBSET Calls, NEW calls \in Seq(C), Goes(t, calls)
      PROVE  /\ Range(Tail(todo[t])) \subseteq C => Range(todo'[t]) \subseteq C
             /\ \A u \in Threads \ {t} : todo'[u] = todo[u]
  <2>1. calls \in Seq(Calls)
    BY SeqMonotonic
  <2>2. /\ todo'[t] = calls \o Tail(todo[t])
        /\ \A u \in Threads \ {t} : todo'[u] = todo[u]
    BY <1>1, <1>4, <2>1, GoesFacts
  <2>3. Range(calls) \subseteq C
    BY RangeOfSeq
  <2>4. Range(calls \o Tail(todo[t])) = Range(calls) \cup Range(Tail(todo[t]))
    BY <1>2, <2>1, RangeConcatenation, Zenon
  <2> QED BY <1>4, <2>2, <2>3, <2>4
<1> QED BY <1>1, <1>3, <1>4, GoesFacts

\* A list of planned calls has no second half in it.
LEMMA PlannedList ==
  ASSUME NEW s \in Seq(Calls), Range(s) \subseteq PlannedCalls, s # <<>>
  PROVE  /\ Head(s).op \notin {"record", "forget"}
         /\ Range(Tail(s)) \subseteq PlannedCalls
<1>1. Range(s) = {Head(s)} \cup Range(Tail(s))
  BY HeadInRange
<1> QED BY <1>1 DEF PlannedCalls

-----------------------------------------------------------------------------
(* What is hidden is recorded, unless it was overtaken.                    *)

\* A thread's list has no second half in it but that of the call it is at.
TailsPlanned == \A t \in Threads : ~Idle(t) => Range(Tail(todo[t])) \subseteq PlannedCalls

\* After a step that plans, no second half is due in that thread, and the other
\* thread's list is as it was.
LEMMA PlansFacts ==
  ASSUME SessionTypes, TailsPlanned, NEW t \in Threads, Plans(t, PlannedCalls)
  PROVE  /\ \A op \in {"record", "forget"} : ~Doing(t, op) /\ ~Doing(t, op)'
         /\ \A u \in Threads \ {t} : todo'[u] = todo[u]
         /\ ~Idle(t)' => Range(Tail(todo'[t])) \subseteq PlannedCalls
<1>1. todo \in [Threads -> Seq(Calls)] /\ PlannedCalls \in SUBSET Calls
  BY DEF SessionTypes, PlannedCalls
<1>2. ASSUME todo'[t] \in Seq(Calls), Range(todo'[t]) \subseteq PlannedCalls
      PROVE  /\ \A op \in {"record", "forget"} : ~Doing(t, op)'
             /\ ~Idle(t)' => Range(Tail(todo'[t])) \subseteq PlannedCalls
  BY <1>2, PlannedList DEF Idle, Doing
<1>3. ASSUME Idle(t), NEW calls \in Seq(PlannedCalls), todo' = [todo EXCEPT ![t] = calls]
      PROVE  /\ \A op \in {"record", "forget"} : ~Doing(t, op)
             /\ \A u \in Threads \ {t} : todo'[u] = todo[u]
             /\ todo'[t] \in Seq(Calls) /\ Range(todo'[t]) \subseteq PlannedCalls
  <2>1. todo'[t] = calls /\ \A u \in Threads \ {t} : todo'[u] = todo[u]
    BY <1>1, <1>3
  <2>2. calls \in Seq(Calls) /\ Range(calls) \subseteq PlannedCalls
    BY <1>1, SeqMonotonic, RangeOfSeq
  <2> QED BY <1>3, <2>1, <2>2 DEF Doing
<1>4. ASSUME ~Idle(t), Head(todo[t]) \in PlannedCalls,
             NEW calls \in Seq(PlannedCalls), Goes(t, calls)
      PROVE  /\ \A op \in {"record", "forget"} : ~Doing(t, op)
             /\ \A u \in Threads \ {t} : todo'[u] = todo[u]
             /\ todo'[t] \in Seq(Calls) /\ Range(todo'[t]) \subseteq PlannedCalls
  <2>1. calls \in Seq(Calls)
    BY <1>1, SeqMonotonic
  <2>2. todo'[t] \in Seq(Calls) /\ \A u \in Threads \ {t} : todo'[u] = todo[u]
    BY <1>1, <1>4, <2>1, GoesFacts
  <2>3. Range(Tail(todo[t])) \subseteq PlannedCalls
    BY <1>4 DEF TailsPlanned
  <2>4. Range(todo'[t]) \subseteq PlannedCalls
    BY <1>1, <1>4, <2>3, ListAfter
  <2> QED BY <1>4, <2>2, <2>4 DEF Doing, PlannedCalls
<1>5. \/ Idle(t) /\ \E calls \in Seq(PlannedCalls) : todo' = [todo EXCEPT ![t] = calls]
      \/ /\ ~Idle(t) /\ Head(todo[t]) \in PlannedCalls
         /\ \E calls \in Seq(PlannedCalls) : Goes(t, calls)
  BY DEF Plans
<1> QED BY <1>2, <1>3, <1>4, <1>5

\* After a step of the applier, the list is shorter by its call, or has the other
\* half of it in front; the other thread's list is as it was.
LEMMA AppliesFacts ==
  ASSUME SessionTypes, TailsPlanned, NEW t \in Threads, Applies(t)
  PROVE  /\ \A u \in Threads \ {t} : todo'[u] = todo[u]
         /\ ~Idle(t)' => Range(Tail(todo'[t])) \subseteq PlannedCalls
         /\ Finishes(t) => \A op \in {"record", "forget"} : ~Doing(t, op)'
         /\ \A x \in Calls : Goes(t, <<x>>) => ~Idle(t)' /\ Head(todo'[t]) = x
<1>1. ~Idle(t) /\ todo \in [Threads -> Seq(Calls)]
  BY DEF Applies, SessionTypes
<1>2. Range(Tail(todo[t])) \subseteq PlannedCalls
  BY <1>1 DEF TailsPlanned
<1>3. ASSUME Finishes(t)
      PROVE  /\ \A u \in Threads \ {t} : todo'[u] = todo[u]
             /\ ~Idle(t)' => Range(Tail(todo'[t])) \subseteq PlannedCalls
             /\ \A op \in {"record", "forget"} : ~Doing(t, op)'
  <2>1. /\ todo'[t] = Tail(todo[t]) /\ Tail(todo[t]) \in Seq(Calls)
        /\ \A u \in Threads \ {t} : todo'[u] = todo[u]
    BY <1>1, <1>3, GoesFacts
  <2> QED BY <1>2, <2>1, PlannedList DEF Idle, Doing
<1>4. ASSUME NEW x \in Calls, Goes(t, <<x>>)
      PROVE  /\ \A u \in Threads \ {t} : todo'[u] = todo[u]
             /\ Range(Tail(todo'[t])) \subseteq PlannedCalls
             /\ ~Idle(t)' /\ Head(todo'[t]) = x
  BY <1>1, <1>2, <1>4, ListAfter DEF Idle
<1>5. Finishes(t) \/ \E x \in Calls : Goes(t, <<x>>)
  BY DEF Applies, Halves
<1> QED BY <1>3, <1>4, <1>5

\* Whatever thread t does, no second half but that of its own call is added.
LEMMA TailsPlannedNext ==
  ASSUME TInv, TailsPlanned, [SessionNext]_sessionVars
  PROVE  TailsPlanned'
<1>1. SessionTypes
  BY DEF TInv
<1>2. CASE UNCHANGED todo
  BY <1>2 DEF TailsPlanned, Idle
<1>3. ASSUME NEW t \in Threads, \A u \in Threads \ {t} : todo'[u] = todo[u],
             ~Idle(t)' => Range(Tail(todo'[t])) \subseteq PlannedCalls
      PROVE  TailsPlanned'
  BY <1>3 DEF TailsPlanned, Idle
<1>4. ASSUME NEW t \in Threads, Plans(t, PlannedCalls) PROVE TailsPlanned'
  BY <1>1, <1>3, <1>4, PlansFacts
<1>5. ASSUME NEW t \in Threads, Applies(t) PROVE TailsPlanned'
  BY <1>1, <1>3, <1>5, AppliesFacts
<1> QED BY <1>2, <1>4, <1>5, StepPlans DEF sessionVars, applierVars

\* A record of c is what some thread does next.
Recording(c) == \E t \in Threads : Doing(t, "record") /\ Head(todo[t]).client = c

\* The invariant: a hidden window is recorded, about to be, or overtaken, and a hidden
\* window whose record is about to be dropped has been overtaken.
HInv ==
  /\ TailsPlanned
  /\ \A c \in HiddenWindows :
       /\ hiddenFrom[c] # None \/ Recording(c) \/ c \in overtaken
       /\ Forgetting(c) => c \in overtaken

\* What makes a window overtaken, in this step or before.
Excused(c) == HidesBetween(c) \/ GivesUp(c) \/ c \in overtaken

\* An overtaken window stays so until it is recorded for good.
LEMMA OvertakenKept ==
  ASSUME NotesOvertaken, NEW c \in HiddenWindows', Excused(c)
  PROVE  c \in overtaken' \/ (hiddenFrom'[c] # None /\ ~Forgetting(c)')
BY DEF NotesOvertaken, Excused

\* At first nothing is hidden and nobody works.
LEMMA HInvInit == HistoryInit => HInv
<1> SUFFICES ASSUME HistoryInit PROVE HInv
  OBVIOUS
<1>1. HiddenWindows = {}
  BY HiddenAssumption DEF HistoryInit, SessionInit, CompositorInit, Maybe, HiddenWindows, Exists
<1>2. \A t \in Threads : Idle(t)
  BY DEF HistoryInit, SessionInit, ApplierInit, Idle
<1> QED BY <1>1, <1>2 DEF HInv, TailsPlanned

\* Thread t calls the applier.  What the step leaves hidden is still recorded or about
\* to be, unless the step drops the record, overtakes the other thread or gives up.
LEMMA AppliesHidden ==
  ASSUME TInv, HInv, NEW t \in Threads, ApplierStep(t), Applies(t), NEW d \in HiddenWindows'
  PROVE  /\ hiddenFrom'[d] # None \/ Recording(d)' \/ Excused(d)
         /\ Forgetting(d)' => Excused(d)
<1> DEFINE call == Head(todo[t])
           c == call.client
<1>0. /\ SessionTypes /\ TailsPlanned
      /\ hiddenFrom \in [Clients -> Maybe(Workspaces)]
      /\ window \in [Clients -> Maybe(Window)]
  BY DEF TInv, SessionTypes, HInv
<1>1. /\ ~Idle(t) /\ call \in Calls /\ c \in Clients
      /\ WindowsTyped(IF call.op = "force" THEN {c} ELSE {})
  BY DEF Applies
<1>2. /\ \A u \in Threads \ {t} : todo'[u] = todo[u]
      /\ Finishes(t) => \A op \in {"record", "forget"} : ~Doing(t, op)'
      /\ \A x \in Calls : Goes(t, <<x>>) => ~Idle(t)' /\ Head(todo'[t]) = x
  BY <1>0, AppliesFacts
<1>3. d \in HiddenWindows \/ (call.op = "force" /\ d = c)
  BY <1>1 DEF WindowsTyped
\* What the other thread has next is as it was.
<1>4. ASSUME NEW u \in Threads \ {t}, NEW op
      PROVE  (Doing(u, op)' <=> Doing(u, op)) /\ Head(todo'[u]) = Head(todo[u])
  BY <1>2 DEF Doing, Idle
<1>5. d \in HiddenWindows => /\ hiddenFrom[d] # None \/ Recording(d) \/ Excused(d)
                             /\ Forgetting(d) => Excused(d)
  BY DEF HInv, Excused
<1>6. (Recording(d) /\ ~(call.op = "record" /\ d = c)) => Recording(d)'
  <2> SUFFICES ASSUME Recording(d), ~(call.op = "record" /\ d = c) PROVE Recording(d)'
    OBVIOUS
  <2>1. PICK u \in Threads : Doing(u, "record") /\ Head(todo[u]).client = d
    BY DEF Recording
  <2>2. u # t
    BY <2>1 DEF Doing
  <2> QED BY <1>4, <2>1, <2>2 DEF Recording
<1>7. Forgetting(d)' => Forgetting(d) \/ (Doing(t, "forget")' /\ Head(todo'[t]).client = d)
  <2> SUFFICES ASSUME Forgetting(d)', ~(Doing(t, "forget")' /\ Head(todo'[t]).client = d)
               PROVE  Forgetting(d)
    OBVIOUS
  <2>1. PICK u \in Threads : Doing(u, "forget")' /\ Head(todo'[u]).client = d
    BY DEF Forgetting
  <2> QED BY <1>4, <2>1 DEF Forgetting
<1> HIDE DEF call
\* The map is kept, and no record was due in this thread.
<1>8. ASSUME UNCHANGED hiddenFrom, call.op # "record", d \in HiddenWindows,
             ~Doing(t, "forget")' \/ Head(todo'[t]).client # d
      PROVE  /\ hiddenFrom'[d] # None \/ Recording(d)' \/ Excused(d)
             /\ Forgetting(d)' => Excused(d)
  BY <1>5, <1>6, <1>7, <1>8
<1>9. CASE HideClient(t)
  <2>1. Doing(t, "hide") /\ UNCHANGED hiddenFrom
    BY <1>9 DEF HideClient
  <2>2. call.op = "hide"
    BY <2>1 DEF Doing, call
  <2>3. CASE Goes(t, <<Call("force", c, call.ws)>>)
    <3>1. Call("force", c, call.ws) \in Calls
      BY <1>1, <2>2, CallArguments, CallTypes
    <3>2. ~Doing(t, "forget")'
      BY <1>2, <2>3, <3>1 DEF Doing, Call
    <3> QED BY <1>3, <1>8, <2>1, <2>2, <3>2
  <2>4. CASE Finishes(t)
    BY <1>2, <1>3, <1>8, <2>1, <2>2, <2>4
  <2> QED BY <1>9, <2>3, <2>4 DEF HideClient, call
<1>10. CASE HideClientForce(t)
  <2>1. Doing(t, "force") /\ UNCHANGED hiddenFrom
    BY <1>10 DEF HideClientForce
  <2>2. call.op = "force"
    BY <2>1 DEF Doing, call
  <2>3. CASE Goes(t, <<Call("record", c, call.ws)>>)
    <3>1. Call("record", c, call.ws) \in Calls
      BY <1>1, <2>2, CallArguments, CallTypes
    <3>2. ~Doing(t, "forget")' /\ Doing(t, "record")' /\ Head(todo'[t]).client = c
      BY <1>2, <2>3, <3>1 DEF Doing, Call
    <3>3. CASE d = c
      <4>1. Recording(d)'
        BY <3>2, <3>3 DEF Recording
      <4>2. Forgetting(d)' => HidesBetween(d)
        BY <1>7, <1>10, <3>2, <3>3 DEF HidesBetween, call
      <4> QED BY <4>1, <4>2 DEF Excused
    <3>4. CASE d # c
      BY <1>3, <1>8, <2>1, <2>2, <3>2, <3>4
    <3> QED BY <3>3, <3>4
  <2>4. CASE Finishes(t) /\ UNCHANGED window
    <3>1. d \in HiddenWindows
      BY <2>4 DEF HiddenWindows, Exists
    <3> QED BY <1>2, <1>8, <2>1, <2>2, <2>4, <3>1
  <2> QED BY <1>10, <2>3, <2>4 DEF HideClientForce, call
<1>11. CASE Record(t)
  <2>1. /\ Doing(t, "record") /\ Finishes(t)
        /\ hiddenFrom' = [hiddenFrom EXCEPT ![c] = call.ws]
    BY <1>11 DEF Record, call
  <2>2. call.op = "record"
    BY <2>1 DEF Doing, call
  <2>3. call.ws \in Workspaces
    BY <1>1, <2>2, CallArguments
  <2>4. d \in HiddenWindows /\ d \in Clients /\ ~Doing(t, "forget")'
    BY <1>2, <1>3, <2>1, <2>2 DEF HiddenWindows
  <2>5. hiddenFrom'[d] = IF d = c THEN call.ws ELSE hiddenFrom[d]
    BY <1>0, <2>1, <2>4
  <2> QED BY <1>5, <1>6, <1>7, <2>3, <2>4, <2>5, NoneAssumption
<1>12. CASE ShowClient(t)
  <2>1. Doing(t, "show") \/ Doing(t, "restore")
    BY <1>12 DEF ShowClient
  <2>2. call.op \in {"show", "restore"} /\ UNCHANGED hiddenFrom
    BY <1>12, <2>1 DEF ShowClient, Doing, call
  <2>3. CASE Finishes(t)
    BY <1>2, <1>3, <1>8, <2>2, <2>3
  <2>4. CASE Goes(t, <<Call("forget", c, None)>>)
    <3>1. Call("forget", c, None) \in Calls
      BY <1>1, CallTypes DEF Maybe
    <3>2. Head(todo'[t]).client = c
      BY <1>2, <2>4, <3>1 DEF Call
    <3>3. d # c => /\ hiddenFrom'[d] # None \/ Recording(d)' \/ Excused(d)
                   /\ Forgetting(d)' => Excused(d)
      BY <1>3, <1>8, <2>2, <3>2
    <3>4. c \notin HiddenWindows' \/ Finishes(t) \/ GivesUp(c)
      <4>1. CASE hiddenFrom[c] # None /\ Exists(c) /\ MovesTo(c, hiddenFrom[c])
        <5>1. hiddenFrom[c] \in Places /\ hiddenFrom[c] # HiddenWorkspace
          BY <1>0, <1>1, <4>1, HiddenAssumption DEF Maybe, Places
        <5> QED BY <1>0, <1>1, <4>1, <5>1, MovesFacts
      <4>2. CASE hiddenFrom[c] # None /\ Fails(c) /\ call.op = "restore"
        <5>1. Doing(t, "restore")
          BY <1>1, <4>2 DEF Doing, call
        <5> QED BY <1>12, <4>2, <5>1 DEF GivesUp, call
      <4> QED BY <1>12, <4>1, <4>2 DEF ShowClient, call
    <3>5. GivesUp(c) => Excused(c)
      BY DEF Excused
    <3> QED BY <2>3, <3>3, <3>4, <3>5
  <2> QED BY <1>12, <2>3, <2>4 DEF ShowClient, call
<1>13. CASE Forget(t)
  <2>1. /\ Doing(t, "forget") /\ Finishes(t)
        /\ hiddenFrom' = [hiddenFrom EXCEPT ![c] = None]
    BY <1>13 DEF Forget, call
  <2>2. call.op = "forget"
    BY <2>1 DEF Doing, call
  <2>3. d \in HiddenWindows /\ d \in Clients /\ ~Doing(t, "forget")'
    BY <1>2, <1>3, <2>1, <2>2 DEF HiddenWindows
  <2>4. d = c => Forgetting(d)
    BY <2>1 DEF Forgetting, call
  <2>5. d # c => hiddenFrom'[d] = hiddenFrom[d]
    BY <1>0, <2>1, <2>3
  <2> QED BY <1>5, <1>6, <1>7, <2>2, <2>3, <2>4, <2>5
<1>14. CASE EnsureClientFloating(t)
  <2>1. Doing(t, "setfloating") /\ Finishes(t) /\ UNCHANGED hiddenFrom
    BY <1>14 DEF EnsureClientFloating
  <2>2. call.op = "setfloating"
    BY <2>1 DEF Doing, call
  <2> QED BY <1>2, <1>3, <1>8, <2>1, <2>2
<1> QED BY <1>9, <1>10, <1>11, <1>12, <1>13, <1>14 DEF ApplierStep

\* Every step keeps HInv: a record is made where a window was hidden, and dropped
\* where it was shown.
LEMMA HInvNext ==
  ASSUME TInv, HInv, [HistoryNext]_historyVars
  PROVE  HInv'
<1>0. SessionTypes /\ TailsPlanned /\ [SessionNext]_sessionVars
  BY DEF TInv, HInv, HistoryNext, historyVars
<1>1. TailsPlanned'
  BY <1>0, TailsPlannedNext
<1>2. CASE UNCHANGED historyVars
  <2>1. UNCHANGED <<window, hiddenFrom, todo, overtaken>>
    BY <1>2 DEF historyVars, sessionVars, applierVars
  <2> QED BY <1>1, <2>1 DEF HInv, HiddenWindows, Exists, Recording, Forgetting, Doing, Idle
<1>3. ASSUME NotesOvertaken,
             \A d \in HiddenWindows' : /\ hiddenFrom'[d] # None \/ Recording(d)' \/ Excused(d)
                                       /\ Forgetting(d)' => Excused(d)
      PROVE  HInv'
  BY <1>1, <1>3, OvertakenKept DEF HInv
<1>4. ASSUME UNCHANGED hiddenFrom, HiddenWindows' \subseteq HiddenWindows,
             \A d \in HiddenWindows : /\ Recording(d) => Recording(d)'
                                      /\ Forgetting(d)' => Forgetting(d),
             NotesOvertaken
      PROVE  HInv'
  BY <1>3, <1>4 DEF HInv, Excused
<1>5. ASSUME NEW t \in Threads, Plans(t, PlannedCalls), NotesOvertaken PROVE HInv'
  <2>1. UNCHANGED hiddenFrom /\ HiddenWindows' = HiddenWindows
    BY <1>5 DEF Plans, HiddenWindows, Exists
  <2>2. /\ \A op \in {"record", "forget"} : ~Doing(t, op) /\ ~Doing(t, op)'
        /\ \A u \in Threads \ {t} : todo'[u] = todo[u]
    BY <1>0, <1>5, PlansFacts
  <2>3. \A d : (Recording(d) => Recording(d)') /\ (Forgetting(d)' => Forgetting(d))
    BY <2>2 DEF Recording, Forgetting, Doing, Idle
  <2> QED BY <1>4, <1>5, <2>1, <2>3
<1>6. CASE UserStep /\ WindowsTyped({}) /\ UNCHANGED <<hiddenFrom, todo>> /\ NotesOvertaken
  <2>1. HiddenWindows' \subseteq HiddenWindows
    BY <1>6 DEF WindowsTyped
  <2>2. \A d : (Recording(d) => Recording(d)') /\ (Forgetting(d)' => Forgetting(d))
    BY <1>6 DEF Recording, Forgetting, Doing, Idle
  <2> QED BY <1>4, <1>6, <2>1, <2>2
<1>7. ASSUME NEW t \in Threads, ApplierStep(t), Applies(t), NotesOvertaken PROVE HInv'
  BY <1>3, <1>7, AppliesHidden
<1> QED BY <1>2, <1>5, <1>6, <1>7, StepPlans DEF HistoryNext

\* The session without its history is a session.
LEMMA HistoryIsSession == HistorySpec => SessionSpec
<1>1. HistoryInit => SessionInit
  BY DEF HistoryInit
<1>2. [HistoryNext]_historyVars => [SessionNext]_sessionVars
  BY DEF HistoryNext, historyVars
<1> QED BY <1>1, <1>2, PTL DEF HistorySpec, SessionSpec

\* No window gets lost but one that was overtaken, whatever the threads do at once and
\* whatever fails.
THEOREM HiddenWindowsRecorded == HistorySpec => []RecordedUnlessOvertaken
<1>1. TInv /\ HInv /\ [HistoryNext]_historyVars => HInv'
  BY HInvNext
<1>2. HInv => RecordedUnlessOvertaken
  BY DEF HInv, RecordedUnlessOvertaken, Recording
<1> QED BY <1>1, <1>2, HInvInit, HistoryIsSession, TInvAlways, PTL DEF HistorySpec

-----------------------------------------------------------------------------
(* The end of a connection.                                                *)

RestoreCalls == {x \in Calls : x.op \in {"restore", "forget"}}

OtherCalls == {x \in Calls : x.op \notin {"clean-up", "scan", "offline"}}

\* The calls that come before the manager is told of the end: one for every window
\* with a record of the managed workspace that was not recorded late.
Restores(calls) ==
  /\ todo["controller"] = calls \o <<OfflineCall>>
  /\ \A c \in Clients :
       managedWs # None /\ hiddenFrom[c] = managedWs =>
         c \in late \/ \E x \in Range(calls) : x.client = c

\* What the controller thread has to do with the end of a connection: nothing, or it
\* has heard of it, has read the managed workspace, or restores before it tells.
Closing ==
  \/ Range(todo["controller"]) \subseteq OtherCalls
  \/ todo["controller"] = <<HangUpCall>>
  \/ todo["controller"] = <<ScanCall>> /\ managedWs # None
  \/ \E calls \in Seq(RestoreCalls) : Restores(calls)

\* The invariant.
RInv == Closing /\ Range(todo["event"]) \subseteq OtherCalls

\* What the controller thread does next, when a connection ends.
LEMMA ClosingList ==
  ASSUME SessionTypes, ~Idle("controller")
  PROVE  LET call == Head(todo["controller"])
         IN  /\ call.op \in {"clean-up", "scan", "offline"} =>
                  ~(Range(todo["controller"]) \subseteq OtherCalls)
             /\ todo["controller"] = <<HangUpCall>> =>
                  call.op = "clean-up" /\ Tail(todo["controller"]) = <<>>
             /\ todo["controller"] = <<ScanCall>> =>
                  call.op = "scan" /\ call.ws = managedWs /\ Tail(todo["controller"]) = <<>>
             /\ \A calls \in Seq(RestoreCalls) : Restores(calls) =>
                  /\ calls = <<>> => call.op = "offline" /\ Tail(todo["controller"]) = <<>>
                  /\ calls # <<>> => /\ call = Head(calls) /\ call \in RestoreCalls
                                     /\ Tail(calls) \in Seq(RestoreCalls)
                                     /\ Range(calls) = {call} \cup Range(Tail(calls))
                                     /\ Tail(todo["controller"]) = Tail(calls) \o <<OfflineCall>>
<1> DEFINE call == Head(todo["controller"])
<1>1. todo["controller"] \in Seq(Calls) /\ todo["controller"] # <<>>
  BY DEF SessionTypes, Threads, Idle
<1>2. call \in Range(todo["controller"])
  BY <1>1, HeadInRange
<1>3. OfflineCall \in Calls /\ <<OfflineCall>> \in Seq(Calls)
  BY CallTypes, ShortLists DEF OfflineCall
<1>4. /\ HangUpCall.op = "clean-up" /\ OfflineCall.op = "offline"
      /\ ScanCall.op = "scan" /\ ScanCall.ws = managedWs
  BY DEF HangUpCall, OfflineCall, ScanCall, Call
<1>5. ASSUME NEW calls \in Seq(RestoreCalls), Restores(calls)
      PROVE  /\ calls = <<>> => call.op = "offline" /\ Tail(todo["controller"]) = <<>>
             /\ calls # <<>> => /\ call = Head(calls) /\ call \in RestoreCalls
                                /\ Tail(calls) \in Seq(RestoreCalls)
                                /\ Range(calls) = {call} \cup Range(Tail(calls))
                                /\ Tail(todo["controller"]) = Tail(calls) \o <<OfflineCall>>
  <2>1. todo["controller"] = calls \o <<OfflineCall>>
    BY <1>5 DEF Restores
  <2>2. calls \in Seq(Calls)
    BY SeqMonotonic DEF RestoreCalls
  <2>3. CASE calls = <<>>
    <3>1. <<>> \o <<OfflineCall>> = <<OfflineCall>>
      BY <1>3, ConcatEmptySeq
    <3>2. todo["controller"] = <<OfflineCall>>
      BY <2>1, <2>3, <3>1
    <3> QED BY <1>4, <2>3, <3>2
  <2>4. CASE calls # <<>>
    <3>1. Head(calls \o <<OfflineCall>>) = Head(calls)
      BY <1>3, <2>2, <2>4, PutInFront, Zenon
    <3>2. Tail(calls \o <<OfflineCall>>) = Tail(calls) \o <<OfflineCall>>
      BY <1>3, <2>2, <2>4, PutInFront
    <3>3. /\ Head(calls) \in RestoreCalls /\ Tail(calls) \in Seq(RestoreCalls)
          /\ Range(calls) = {Head(calls)} \cup Range(Tail(calls))
      BY <2>4, HeadInRange
    <3> QED BY <2>1, <2>4, <3>1, <3>2, <3>3
  <2> QED BY <2>3, <2>4
<1>6. todo["controller"] = <<HangUpCall>> =>
        call.op = "clean-up" /\ Tail(todo["controller"]) = <<>>
  BY <1>4
<1>7. todo["controller"] = <<ScanCall>> =>
        call.op = "scan" /\ call.ws = managedWs /\ Tail(todo["controller"]) = <<>>
  BY <1>4
<1>8. call.op \in {"clean-up", "scan", "offline"} => ~(Range(todo["controller"]) \subseteq OtherCalls)
  BY <1>2 DEF OtherCalls
<1> QED BY <1>5, <1>6, <1>7, <1>8

\* In which phase the controller thread is, by what it does next.
LEMMA ClosingPhase ==
  ASSUME SessionTypes, Closing, ~Idle("controller")
  PROVE  LET call == Head(todo["controller"])
         IN  /\ call.op = "clean-up" => todo["controller"] = <<HangUpCall>>
             /\ call.op = "scan" => todo["controller"] = <<ScanCall>> /\ managedWs # None
             /\ call.op = "offline" => \E calls \in Seq(RestoreCalls) : calls = <<>> /\ Restores(calls)
             /\ call.op \notin {"clean-up", "scan", "restore", "forget", "offline"} =>
                  Range(todo["controller"]) \subseteq OtherCalls
  BY ClosingList, Zenon DEF Closing, RestoreCalls

\* Late windows stay late until the controller thread lists what it restores.
LEMMA LateKept ==
  ASSUME NotesLate
  PROVE  ~Doing("controller", "scan") => \A c \in Clients : c \in late => c \in late'
  BY DEF NotesLate, Scan

\* The phase lasts while the controller thread does nothing: the other one only adds
\* records that are late.
LEMMA ClosingKept ==
  ASSUME SessionTypes, Closing, NotesLate,
         todo'["controller"] = todo["controller"], managedWs' = managedWs,
         \A c \in Clients : \/ hiddenFrom'[c] = hiddenFrom[c]
                            \/ hiddenFrom'[c] = None \/ c \in late'
  PROVE  Closing'
<1>1. ScanCall' = ScanCall /\ HangUpCall' = HangUpCall /\ OfflineCall' = OfflineCall
  BY DEF ScanCall, HangUpCall, OfflineCall, Call
<1>2. ASSUME NEW calls \in Seq(RestoreCalls), Restores(calls) PROVE Restores(calls)'
  <2>1. ~Doing("controller", "scan")
    <3>1. ~Idle("controller") => Head(todo["controller"]).op # "scan"
      BY <1>2, ClosingList DEF RestoreCalls
    <3> QED BY <3>1 DEF Doing
  <2>2. \A c \in Clients : c \in late => c \in late'
    BY <2>1, LateKept
  <2> QED BY <1>1, <1>2, <2>2 DEF Restores
<1> QED BY <1>1, <1>2 DEF Closing

\* The event thread leaves the connection and the controller thread's list alone.
LEMMA EventLeaves ==
  ASSUME TInv, EventThread
  PROVE  /\ UNCHANGED <<window, hiddenFrom, managedWs, connected, fd>>
         /\ todo'["controller"] = todo["controller"]
         /\ ~HandleEvent => UNCHANGED queue
<1>1. "controller" \in Threads /\ todo \in [Threads -> Seq(Calls)]
  BY DEF TInv, SessionTypes, Threads
<1>2. CASE HandleEvent
  <2>1. Reads
    BY <1>2, HandleEventFacts
  <2>2. UNCHANGED <<managedWs, connected>>
    BY <2>1, EventNotice DEF Reads
  <2> QED BY <1>1, <1>2, <2>1, <2>2 DEF Reads
<1>3. CASE Answer \/ Enforce
  <2>1. Serves
    BY <1>3, ServesEvent
  <2>2. todo'["controller"] = todo["controller"]
    BY <1>1, <2>1 DEF Serves, Goes
  <2>3. UNCHANGED managedWs
    BY <1>3 DEF Answer, Enforce, AnswerNotice, RefreshFloating, DropNotice, vars
  <2> QED BY <2>1, <2>2, <2>3 DEF Serves, NothingElse
<1> QED BY <1>2, <1>3 DEF EventThread

\* At first nobody works.
LEMMA RInvInit == HistoryInit => RInv
<1> SUFFICES ASSUME HistoryInit PROVE RInv
  OBVIOUS
<1>1. \A t \in Threads : Range(todo[t]) = {}
  BY RangeOfShort DEF HistoryInit, SessionInit, ApplierInit
<1> QED BY <1>1 DEF RInv, Closing, Threads

\* A list of other calls stays one.
LEMMA OthersFollow ==
  ASSUME SessionTypes, NEW t \in Threads, ~Idle(t), Range(todo[t]) \subseteq OtherCalls,
         NEW calls \in Seq(OtherCalls), Goes(t, calls)
  PROVE  Range(todo'[t]) \subseteq OtherCalls /\ \A u \in Threads \ {t} : todo'[u] = todo[u]
<1>1. todo[t] \in Seq(Calls) /\ OtherCalls \in SUBSET Calls
  BY DEF SessionTypes, OtherCalls
<1>2. Range(Tail(todo[t])) \subseteq OtherCalls
  BY <1>1, HeadInRange DEF Idle
<1> QED BY <1>1, <1>2, ListAfter

\* A thread that plans ordinary calls has nothing to do with the end of a connection.
LEMMA OthersPlanned ==
  ASSUME SessionTypes, RInv, NEW t \in Threads, Plans(t, OrdinaryCalls)
  PROVE  Range(todo'[t]) \subseteq OtherCalls /\ \A u \in Threads \ {t} : todo'[u] = todo[u]
<1>1. \A calls \in Seq(OrdinaryCalls) : calls \in Seq(OtherCalls) /\ Range(calls) \subseteq OtherCalls
  <2>1. OrdinaryCalls \subseteq OtherCalls
    BY DEF OrdinaryCalls, PlannedCalls, OtherCalls
  <2> QED BY <2>1, SeqMonotonic, RangeOfSeq
<1>2. todo \in [Threads -> Seq(Calls)]
  BY DEF SessionTypes
<1>3. ASSUME NEW calls \in Seq(OrdinaryCalls), todo' = [todo EXCEPT ![t] = calls]
      PROVE  Range(todo'[t]) \subseteq OtherCalls /\ \A u \in Threads \ {t} : todo'[u] = todo[u]
  BY <1>1, <1>2, <1>3
<1>4. ASSUME ~Idle(t), Head(todo[t]) \in OrdinaryCalls, NEW calls \in Seq(OrdinaryCalls),
             Goes(t, calls)
      PROVE  Range(todo'[t]) \subseteq OtherCalls /\ \A u \in Threads \ {t} : todo'[u] = todo[u]
  <2>1. Head(todo[t]).op \notin {"clean-up", "scan", "restore", "forget", "offline"}
    BY <1>4 DEF OrdinaryCalls, PlannedCalls
  <2>2. Range(todo[t]) \subseteq OtherCalls
    BY <1>4, <2>1, ClosingPhase DEF RInv, Threads
  <2> QED BY <1>1, <1>4, <2>2, OthersFollow
<1> QED BY <1>3, <1>4 DEF Plans

\* The end of a connection goes from one phase to the next.
LEMMA ClosingNext ==
  ASSUME TInv, Closing, NotesLate, HangUp \/ CleanUp \/ Scan \/ GoOffline
  PROVE  Closing' /\ todo'["event"] = todo["event"]
<1>0. /\ SessionTypes /\ todo \in [Threads -> Seq(Calls)]
      /\ "event" \in Threads /\ "controller" \in Threads
      /\ OfflineCall \in Calls /\ <<OfflineCall>> \in Seq(Calls)
  BY CallTypes, ShortLists DEF TInv, SessionTypes, Threads, OfflineCall
<1>1. OfflineCall' = OfflineCall /\ HangUpCall' = HangUpCall
  BY DEF HangUpCall, OfflineCall, Call
\* Nothing is left on the list behind the call that ends a phase.
<1>2. ASSUME ~Idle("controller"), Tail(todo["controller"]) = <<>>,
             NEW calls \in Seq(Calls), Goes("controller", calls)
      PROVE  todo'["controller"] = calls /\ todo'["event"] = todo["event"]
  BY <1>0, <1>2, GoesFacts, ConcatEmptySeq
<1>3. ASSUME NEW B \in Seq(RestoreCalls), todo'["controller"] = B \o <<OfflineCall>>,
             \A c \in Clients : managedWs' # None /\ hiddenFrom'[c] = managedWs' =>
               c \in late' \/ \E x \in Range(B) : x.client = c
      PROVE  Closing'
  BY <1>1, <1>3 DEF Closing, Restores
<1>4. CASE HangUp
  BY <1>0, <1>1, <1>4 DEF HangUp, HangUpCall, Closing
<1>5. CASE CleanUp
  <2>1. /\ ~Idle("controller") /\ Head(todo["controller"]).op = "clean-up"
        /\ UNCHANGED <<hiddenFrom, managedWs>>
    BY <1>5 DEF CleanUp, Doing, NothingElse, vars
  <2>2. Tail(todo["controller"]) = <<>>
    BY <1>0, <2>1, ClosingPhase, ClosingList
  <2>3. CASE managedWs # None /\ Goes("controller", <<ScanCall>>)
    <3>1. <<ScanCall>> \in Seq(Calls)
      BY <2>3, CallTypes, ShortLists DEF TInv, IInv, TypeOK, Maybe, WorkspaceOps, ScanCall
    <3>2. ScanCall' = ScanCall
      BY <2>1 DEF ScanCall, Call
    <3> QED BY <1>2, <2>1, <2>2, <2>3, <3>1, <3>2 DEF Closing
  <2>4. CASE Goes("controller", <<OfflineCall>>)
    <3>1. <<>> \in Seq(RestoreCalls) /\ <<>> \o <<OfflineCall>> = <<OfflineCall>>
      BY <1>0, EmptySeq, ConcatEmptySeq
    <3>2. ~Scan
      BY <2>1 DEF Scan, Doing
    <3>3. \A c \in Clients : c \in late'
      BY <1>5, <3>2 DEF NotesLate
    <3>4. todo'["controller"] = <<OfflineCall>> /\ todo'["event"] = todo["event"]
      BY <1>0, <1>2, <2>1, <2>2, <2>4
    <3> QED BY <1>3, <3>1, <3>3, <3>4
  <2> QED BY <1>5, <2>3, <2>4 DEF CleanUp, ScanCall, OfflineCall
<1>6. CASE Scan
  <2> DEFINE w == Head(todo["controller"]).ws
             held == {c \in Clients : hiddenFrom[c] = w}
             list == ForEach(held, "restore", w)
  <2>1. /\ ~Idle("controller") /\ Head(todo["controller"]).op = "scan"
        /\ UNCHANGED <<hiddenFrom, managedWs>>
    BY <1>6 DEF Scan, Doing, NothingElse, vars
  <2>2. w = managedWs /\ managedWs # None /\ Tail(todo["controller"]) = <<>>
    BY <1>0, <2>1, ClosingPhase, ClosingList
  <2>3. Goes("controller", list \o <<OfflineCall>>)
    BY <1>6 DEF Scan, OfflineCall
  <2>4. w \in Maybe(Workspaces)
    BY <2>2 DEF TInv, IInv, TypeOK
  <2>5. list \in Seq(RestoreCalls) /\ \A c \in held : \E x \in Range(list) : x.client = c
    BY <2>4, RestoreList DEF RestoreCalls
  <2>6. list \in Seq(Calls)
    BY <2>5, SeqMonotonic DEF RestoreCalls
  <2>7. list \o <<OfflineCall>> \in Seq(Calls)
    BY <1>0, <2>6, ShortLists
  <2>8. \A c \in Clients : hiddenFrom[c] = managedWs => \E x \in Range(list) : x.client = c
    BY <2>2, <2>5
  <2> HIDE DEF list, w
  <2>9. todo'["controller"] = list \o <<OfflineCall>> /\ todo'["event"] = todo["event"]
    BY <1>2, <2>1, <2>2, <2>3, <2>7
  <2> QED BY <1>3, <2>1, <2>5, <2>8, <2>9
<1>7. CASE GoOffline
  <2>1. ~Idle("controller") /\ Head(todo["controller"]).op = "offline" /\ Finishes("controller")
    BY <1>7 DEF GoOffline, Doing
  <2>2. Tail(todo["controller"]) = <<>>
    BY <1>0, <2>1, ClosingPhase, ClosingList
  <2>3. todo'["controller"] = <<>> /\ todo'["event"] = todo["event"]
    BY <1>0, <2>1, <2>2, GoesFacts
  <2> QED BY <2>3, RangeOfShort DEF Closing
<1> QED BY <1>4, <1>5, <1>6, <1>7

\* The controller thread restores: it drops the record of a window before it is done
\* with it.
LEMMA Restoring ==
  ASSUME TInv, NotesLate, ApplierStep("controller"), Applies("controller"), UNCHANGED vars,
         NEW A \in Seq(RestoreCalls), Restores(A)
  PROVE  Closing' /\ todo'["event"] = todo["event"]
<1> DEFINE call == Head(todo["controller"])
           c == call.client
           t == "controller"
<1>0. /\ SessionTypes /\ todo \in [Threads -> Seq(Calls)]
      /\ "event" \in Threads /\ "controller" \in Threads
      /\ hiddenFrom \in [Clients -> Maybe(Workspaces)]
      /\ <<OfflineCall>> \in Seq(Calls) /\ OfflineCall' = OfflineCall
  BY CallTypes, ShortLists DEF TInv, SessionTypes, Threads, OfflineCall, Call
<1>1. /\ ~Idle(t) /\ call \in Calls /\ c \in Clients /\ call.op \in ApplierOps
  BY DEF Applies
<1>2. /\ A # <<>> /\ call \in RestoreCalls /\ Tail(A) \in Seq(RestoreCalls)
      /\ Range(A) = {call} \cup Range(Tail(A))
      /\ Tail(todo["controller"]) = Tail(A) \o <<OfflineCall>>
  BY <1>0, <1>1, ClosingList DEF ApplierOps
<1>3. /\ managedWs' = managedWs
      /\ \A d \in Clients : hiddenFrom'[d] = hiddenFrom[d] \/ (hiddenFrom'[d] = None /\ d = c)
  <2>1. managedWs' = managedWs
    BY DEF vars
  <2>2. call.op # "record"
    BY <1>2 DEF RestoreCalls
  <2> HIDE DEF call
  <2> QED BY <1>0, <2>1, <2>2 DEF Applies, call
<1>4. \A d \in Clients : d \in late => d \in late'
  <2>1. ~Doing("controller", "scan")
    BY <1>2 DEF Doing, RestoreCalls
  <2> QED BY <2>1, LateKept
\* What the records of the managed workspace still have, before the list is shortened.
<1>5. \A d \in Clients : managedWs' # None /\ hiddenFrom'[d] = managedWs' =>
        d \in late' \/ \E x \in Range(A) : x.client = d
  BY <1>3, <1>4 DEF Restores
<1>6. todo'["event"] = todo["event"]
  BY <1>0, <1>1, ListAfter, GoesFacts DEF Applies, Halves, Finishes
<1>7. \/ Finishes(t) /\ hiddenFrom'[c] = None
      \/ Goes(t, <<Call("forget", c, None)>>)
  <2>1. call.op \in {"restore", "forget"}
    BY <1>2 DEF RestoreCalls
  <2>2. ShowClient(t) \/ Forget(t)
    BY <2>1 DEF ApplierStep, HideClient, HideClientForce, Record, EnsureClientFloating, Doing
  <2>3. CASE Forget(t)
    BY <1>0, <1>1, <2>3 DEF Forget
  <2>4. CASE ShowClient(t)
    <3>1. call.op = "restore"
      BY <2>1, <2>4 DEF ShowClient, Doing
    <3> QED BY <2>4, <3>1 DEF ShowClient
  <2> QED BY <2>2, <2>3, <2>4
<1>8. ASSUME NEW B \in Seq(RestoreCalls), todo'["controller"] = B \o <<OfflineCall>>,
             \A d \in Clients : managedWs' # None /\ hiddenFrom'[d] = managedWs' =>
               d \in late' \/ \E x \in Range(B) : x.client = d
      PROVE  Closing'
  BY <1>0, <1>8 DEF Closing, Restores
<1> HIDE DEF call
<1>9. CASE Finishes(t) /\ hiddenFrom'[c] = None
  <2>1. todo'["controller"] = Tail(A) \o <<OfflineCall>>
    BY <1>0, <1>1, <1>2, <1>9, GoesFacts
  <2>2. \A d \in Clients : managedWs' # None /\ hiddenFrom'[d] = managedWs' =>
          d \in late' \/ \E x \in Range(Tail(A)) : x.client = d
    BY <1>2, <1>5, <1>9
  <2> QED BY <1>2, <1>6, <1>8, <2>1, <2>2
<1>10. CASE Goes(t, <<Call("forget", c, None)>>)
  <2> DEFINE x == Call("forget", c, None)
  <2>1. x \in Calls /\ x \in RestoreCalls /\ x.client = c
    BY <1>1, CallTypes DEF Maybe, RestoreCalls, Call
  <2> HIDE DEF x
  <2>2. <<x>> \in Seq(Calls) /\ <<x>> \in Seq(RestoreCalls)
    BY <2>1, ShortLists
  <2>3. Tail(A) \in Seq(Calls)
    BY <1>2, SeqMonotonic DEF RestoreCalls
  <2>4. todo'["controller"] = <<x>> \o (Tail(A) \o <<OfflineCall>>)
    BY <1>0, <1>1, <1>2, <1>10, <2>2, GoesFacts DEF x
  <2>5. /\ <<x>> \o (Tail(A) \o <<OfflineCall>>) = (<<x>> \o Tail(A)) \o <<OfflineCall>>
        /\ <<x>> \o Tail(A) \in Seq(RestoreCalls)
    BY <1>0, <1>2, <2>2, <2>3, ConcatAssociative, ShortLists
  <2>6. Range(<<x>> \o Tail(A)) = {x} \cup Range(Tail(A))
    <3>1. Range(<<x>> \o Tail(A)) = Range(<<x>>) \cup Range(Tail(A))
      BY <2>2, <2>3, RangeConcatenation, Zenon
    <3> QED BY <3>1, RangeOfShort
  <2>7. PICK B \in Seq(RestoreCalls) : B = <<x>> \o Tail(A)
    BY <2>5
  <2>8. \A d \in Clients : managedWs' # None /\ hiddenFrom'[d] = managedWs' =>
          d \in late' \/ \E y \in Range(B) : y.client = d
    BY <1>2, <1>5, <2>1, <2>6, <2>7
  <2>9. todo'["controller"] = B \o <<OfflineCall>>
    BY <2>4, <2>5, <2>7
  <2> QED BY <1>6, <1>8, <2>8, <2>9
<1> QED BY <1>7, <1>9, <1>10

\* What the event thread does with the applier's map: whatever it records is late.
LEMMA RecordsLate ==
  ASSUME SessionTypes, NotesLate, ApplierStep("event"), Applies("event")
  PROVE  /\ todo'["controller"] = todo["controller"]
         /\ \A c \in Clients : \/ hiddenFrom'[c] = hiddenFrom[c]
                               \/ hiddenFrom'[c] = None \/ c \in late'
<1>1. /\ hiddenFrom \in [Clients -> Maybe(Workspaces)] /\ todo \in [Threads -> Seq(Calls)]
      /\ "event" \in Threads /\ "controller" \in Threads
  BY DEF SessionTypes, Threads
<1>2. todo'["controller"] = todo["controller"]
  BY <1>1 DEF Applies, Finishes, Goes
<1>3. CASE Head(todo["event"]).op = "record"
  <2>1. Record("event")
    BY <1>3 DEF ApplierStep, HideClient, HideClientForce, ShowClient, Forget,
                EnsureClientFloating, Doing
  <2>2. ~Scan
    <3>1. todo'["event"] = Tail(todo["event"]) /\ ~Idle("event")
      BY <1>1, <2>1, GoesFacts DEF Record, Doing
    <3>2. \A s \in Seq(Calls) : s # <<>> => Len(Tail(s)) # Len(s)
      OBVIOUS
    <3>3. todo'["event"] # todo["event"]
      BY <1>1, <3>1, <3>2 DEF Idle
    <3>4. Scan => todo'["event"] = todo["event"]
      BY <1>1 DEF Scan, Goes
    <3> QED BY <3>3, <3>4
  <2>3. Head(todo["event"]).client \in Clients =>  Head(todo["event"]).client \in late'
    BY <2>1, <2>2 DEF NotesLate
  <2> QED BY <1>1, <1>2, <2>1, <2>3 DEF Record
<1>4. CASE Head(todo["event"]).op # "record"
  BY <1>1, <1>2, <1>4 DEF Applies
<1> QED BY <1>3, <1>4

\* A step of the applier goes on with the other half of its call, or with nothing.
LEMMA HalvesOther ==
  ASSUME NEW t \in Threads, Applies(t)
  PROVE  \E calls \in Seq(OtherCalls) : Goes(t, calls)
<1>1. Finishes(t) => \E calls \in Seq(OtherCalls) : Goes(t, calls)
  BY EmptySeq DEF Finishes
<1>2. ASSUME NEW x \in Halves(Head(todo[t]).client), Goes(t, <<x>>)
      PROVE  \E calls \in Seq(OtherCalls) : Goes(t, calls)
  <2>1. x \in OtherCalls
    BY DEF Halves, OtherCalls
  <2> QED BY <1>2, <2>1, ShortLists
<1> QED BY <1>1, <1>2 DEF Applies

\* Every step keeps RInv.
LEMMA RInvNext ==
  ASSUME TInv, RInv, [HistoryNext]_historyVars
  PROVE  RInv'
<1>0. SessionTypes /\ "event" \in Threads /\ "controller" \in Threads
  BY DEF TInv, Threads
<1>1. CASE UNCHANGED historyVars
  <2>1. UNCHANGED <<hiddenFrom, todo, managedWs, late>>
    BY <1>1 DEF historyVars, sessionVars, applierVars, vars
  <2> QED BY <2>1 DEF RInv, Closing, Restores, ScanCall, HangUpCall, OfflineCall, Call
<1>2. CASE SessionNext /\ NotesLate
  <2>1. CASE EventThread /\ Plans("event", OrdinaryCalls)
    <3>1. Range(todo'["event"]) \subseteq OtherCalls
      BY <1>0, <2>1, OthersPlanned
    <3>2. Closing'
      BY <1>0, <1>2, <2>1, EventLeaves, ClosingKept DEF RInv
    <3> QED BY <3>1, <3>2 DEF RInv
  <2>2. CASE Plans("controller", OrdinaryCalls)
    <3>1. Range(todo'["controller"]) \subseteq OtherCalls /\ todo'["event"] = todo["event"]
      BY <1>0, <2>2, OthersPlanned
    <3> QED BY <3>1 DEF RInv, Closing
  <2>3. CASE HangUp \/ CleanUp \/ Scan \/ GoOffline
    BY <1>2, <2>3, ClosingNext DEF RInv
  <2>4. CASE ApplierStep("event") /\ Applies("event") /\ UNCHANGED vars
    <3>1. Closing'
      <4>1. managedWs' = managedWs
        BY <2>4 DEF vars
      <4> QED BY <1>0, <1>2, <2>4, <4>1, RecordsLate, ClosingKept DEF RInv
    <3>2. \E calls \in Seq(OtherCalls) : Goes("event", calls)
      BY <1>0, <2>4, HalvesOther
    <3>3. ~Idle("event") /\ Range(todo["event"]) \subseteq OtherCalls
      BY <2>4 DEF Applies, RInv
    <3>4. Range(todo'["event"]) \subseteq OtherCalls
      BY <1>0, <3>2, <3>3, OthersFollow
    <3> QED BY <3>1, <3>4 DEF RInv
  <2>5. CASE ApplierStep("controller") /\ Applies("controller") /\ UNCHANGED vars
    <3>1. ~Idle("controller") /\ Head(todo["controller"]).op \in ApplierOps
      BY <2>5 DEF Applies
    <3>2. CASE Range(todo["controller"]) \subseteq OtherCalls
      <4>1. \E calls \in Seq(OtherCalls) : Goes("controller", calls)
        BY <1>0, <2>5, HalvesOther
      <4>2. Range(todo'["controller"]) \subseteq OtherCalls /\ todo'["event"] = todo["event"]
        BY <1>0, <3>1, <3>2, <4>1, OthersFollow
      <4> QED BY <4>2 DEF RInv, Closing
    <3>3. ASSUME NEW A \in Seq(RestoreCalls), Restores(A) PROVE RInv'
      BY <1>2, <2>5, <3>3, Restoring DEF RInv
    <3>4. todo["controller"] # <<HangUpCall>> /\ todo["controller"] # <<ScanCall>>
      BY <1>0, <3>1, ClosingList DEF ApplierOps
    <3> QED BY <3>2, <3>3, <3>4 DEF RInv, Closing
  <2>6. CASE UNCHANGED <<hiddenFrom, todo>> /\ UNCHANGED vars
    <3>1. managedWs' = managedWs
      BY <2>6 DEF vars
    <3>2. Closing'
      BY <1>0, <1>2, <2>6, <3>1, ClosingKept DEF RInv
    <3> QED BY <2>6, <3>2 DEF RInv
  <2> QED BY <1>2, <2>1, <2>2, <2>3, <2>4, <2>5, <2>6, StepKinds DEF Threads
<1> QED BY <1>1, <1>2 DEF HistoryNext

\* When the manager is told of the end of a connection, a window that is hidden from
\* the managed workspace was hidden late, whatever the threads do at once and whatever
\* fails: a restore drops the record of a window that it cannot show.
THEOREM DisconnectRestores == HistorySpec => RestoredUnlessLate
<1>1. TInv /\ RInv /\ [HistoryNext]_historyVars => RInv'
  BY RInvNext
<1>2. ASSUME TInv, RInv, [HistoryNext]_historyVars
      PROVE  [connected /\ ~connected' /\ managedWs # None
                => \A c \in HiddenWindows' : hiddenFrom'[c] = managedWs => c \in late]_historyVars
  <2> SUFFICES ASSUME SessionNext, connected, ~connected', managedWs # None,
                      NEW c \in HiddenWindows', hiddenFrom'[c] = managedWs
               PROVE  c \in late
    BY <1>2 DEF HistoryNext
  <2>1. SessionTypes
    BY <1>2 DEF TInv
  <2>2. GoOffline
    <3>1. ASSUME UNCHANGED vars PROVE FALSE
      BY <3>1 DEF vars
    <3>2. HangUp \/ CleanUp \/ Scan => UNCHANGED vars
      BY DEF HangUp, CleanUp, Scan
    <3> QED BY <1>2, <3>1, <3>2, StepKinds
  <2>3. /\ ~Idle("controller") /\ Head(todo["controller"]).op = "offline"
        /\ UNCHANGED hiddenFrom
    BY <2>2 DEF GoOffline, Doing, NothingElse
  <2>4. Restores(<<>>)
    BY <1>2, <2>1, <2>3, ClosingPhase DEF RInv
  <2>5. Range(<<>>) = {} /\ c \in Clients
    BY RangeOfShort DEF HiddenWindows
  <2> QED BY <2>3, <2>4, <2>5 DEF Restores
<1> QED BY <1>1, <1>2, RInvInit, HistoryIsSession, TInvAlways, PTL
    DEF HistorySpec, RestoredUnlessLate

-----------------------------------------------------------------------------
(* What the event thread leaves behind.                                    *)

\* The calls that a notice leads to before it is answered, and the last ones.
NoticeCalls == {x \in Calls : x.op \in ApplierOps}
ForceCalls == {x \in Calls : x.op \in {"force", "record"}}

\* A notice about the managed workspace waits for its answer, after some calls.
Answering(calls) ==
  /\ todo["event"] = calls \o <<Call("answer", None, managedWs)>>
  /\ notice # None /\ notice.ws = managedWs

Enforcing == todo["event"] = <<Call("enforce", None, managedWs)>>

Gone(c) == window[c] = None \/ c \in HiddenWindows

\* Each window that the layout hides is hidden, gone, about to be forced, or the
\* event of what happened to it is still to be read; or it was disturbed.
Dealt(c) ==
  \/ Gone(c) \/ queue # <<>> \/ c \in disturbed
  \/ \E x \in Range(todo["event"]) : x.op = "force" /\ x.client = c

Forcing ==
  /\ Range(todo["event"]) \subseteq ForceCalls
  /\ layout # None /\ layout.inputMode = "emacs-control" => \A c \in layout.hidden : Dealt(c)

\* The invariant: the phases of the event thread, unless a command came in between.
EInv ==
  \/ Idle("event")
  \/ Clients \subseteq disturbed
  \/ \E calls \in Seq(NoticeCalls) : Answering(calls)
  \/ Enforcing
  \/ Forcing

\* What the event thread does next, in each of the phases.
LEMMA EventPhases ==
  ASSUME TInv, ~Idle("event")
  PROVE  LET call == Head(todo["event"])
         IN  /\ Enforcing => call.op = "enforce" /\ Tail(todo["event"]) = <<>>
             /\ Forcing => call.op \in {"force", "record"}
             /\ \A calls \in Seq(NoticeCalls) : Answering(calls) =>
                  /\ calls = <<>> => call.op = "answer" /\ Tail(todo["event"]) = <<>>
                  /\ calls # <<>> => call.op \in ApplierOps
<1> DEFINE call == Head(todo["event"])
<1>1. todo["event"] \in Seq(Calls) /\ todo["event"] # <<>>
  BY DEF TInv, SessionTypes, Threads, Idle
<1>2. call \in Range(todo["event"])
  BY <1>1, HeadInRange
<1>3. Enforcing => call.op = "enforce" /\ Tail(todo["event"]) = <<>>
  BY DEF Enforcing, Call
<1>4. Forcing => call.op \in {"force", "record"}
  BY <1>2 DEF Forcing, ForceCalls
<1>5. ASSUME NEW calls \in Seq(NoticeCalls), Answering(calls)
      PROVE  /\ calls = <<>> => call.op = "answer" /\ Tail(todo["event"]) = <<>>
             /\ calls # <<>> => call.op \in ApplierOps
  <2> DEFINE z == Call("answer", None, managedWs)
  <2>1. todo["event"] = calls \o <<z>> /\ managedWs \in Workspaces
    BY <1>5 DEF Answering, TInv, IInv, TypeOK, Maybe, Notice
  <2>2. z \in Calls /\ calls \in Seq(Calls)
    BY <2>1, CallTypes, SeqMonotonic DEF NoticeCalls, WorkspaceOps
  <2>3. z.op = "answer"
    BY DEF Call
  <2> HIDE DEF z
  <2>4. CASE calls = <<>>
    <3>1. todo["event"] = <<z>>
      BY <2>1, <2>2, <2>4, LastCall
    <3>2. Head(todo["event"]) = z /\ Tail(todo["event"]) = <<>>
      BY <3>1, ShortListParts
    <3>3. call.op = "answer" /\ Tail(todo["event"]) = <<>>
      BY <2>3, <3>2
    <3> HIDE DEF call
    <3> QED BY <2>4, <3>3
  <2>5. CASE calls # <<>>
    <3>1. Head(calls \o <<z>>) = Head(calls)
      BY <2>2, <2>5, LastCall
    <3>2. Head(calls) \in NoticeCalls
      BY <2>5, HeadInRange
    <3> QED BY <2>1, <2>5, <3>1, <3>2 DEF NoticeCalls
  <2> QED BY <2>4, <2>5
<1> QED BY <1>3, <1>4, <1>5

\* An event begins with its duties.
LEMMA EventBegins ==
  ASSUME TInv, HandleEvent
  PROVE  EInv'
<1>1. Reads /\ Next
  BY HandleEventFacts
<1>2. IInv'
  BY <1>1, IInvNext DEF TInv
<1>3. todo'["event"] = Duties(notice')
  BY <1>1 DEF Reads, TInv, SessionTypes, Threads
<1>4. CASE notice' = None
  BY <1>3, <1>4 DEF Duties, EInv, Idle
<1>5. CASE notice' # None
  <2>1. managedWs' = managedWs /\ notice'.ws = managedWs
    BY <1>1, <1>5, EventNotice, NoticeFacts DEF Reads
  <2>2. notice' \in Notice
    BY <1>2, <1>5 DEF IInv, TypeOK, Maybe
  <2>3. managedWs \in Workspaces
    BY <2>1, <2>2 DEF Notice
  <2> DEFINE z == Call("answer", None, managedWs)
  <2>4. z \in Calls
    BY <2>3, CallTypes DEF WorkspaceOps
  <2>5. ASSUME NEW x \in NoticeCalls, todo'["event"] = <<x, z>> PROVE EInv'
    <3>1. <<x>> \in Seq(NoticeCalls) /\ <<x>> \o <<z>> = <<x, z>>
      BY ShortLists, ShortListParts
    <3>2. Answering(<<x>>)'
      BY <1>5, <2>1, <2>5, <3>1 DEF Answering
    <3> QED BY <3>1, <3>2 DEF EInv
  <2>6. CASE notice'.type = "became-floating"
    <3>1. Call("show", notice'.client, notice'.ws) \in NoticeCalls
      BY <2>2, <2>6, CallTypes DEF Notice, NoticeCalls, ApplierOps, Call
    <3> QED BY <1>3, <1>5, <2>1, <2>5, <2>6, <3>1 DEF Duties
  <2>7. CASE notice'.type = "became-tiled"
    <3> DEFINE x == Call("hide", notice'.client, notice'.ws)
    <3>1. Duties(notice') = <<x, z>>
      BY <1>5, <2>1, <2>7 DEF Duties
    <3>2. x.op = "hide"
      BY DEF Call
    <3> HIDE DEF x
    <3>3. x \in Range(<<x, z>>)
      BY RangeOfShort
    <3>4. Range(<<x, z>>) \subseteq EventCalls
      BY <1>1, <3>1, RangeOfSeq DEF Reads
    <3>5. x \in NoticeCalls
      BY <3>2, <3>3, <3>4 DEF EventCalls, NoticeCalls, ApplierOps
    <3> QED BY <1>3, <2>5, <3>1, <3>5
  <2>8. CASE notice'.type = "state-changed"
    <3>1. todo'["event"] = <<z>>
      BY <1>3, <1>5, <2>1, <2>8 DEF Duties
    <3>2. <<>> \in Seq(NoticeCalls) /\ <<>> \o <<z>> = <<z>>
      BY <2>4, ShortLists, LastCall
    <3>3. Answering(<<>>)'
      BY <1>5, <2>1, <3>1, <3>2 DEF Answering
    <3> QED BY <3>2, <3>3 DEF EInv
  <2> QED BY <2>2, <2>6, <2>7, <2>8 DEF Notice
<1> QED BY <1>4, <1>5

\* A notice is answered, and then the layout is enforced.
LEMMA EventAnswers ==
  ASSUME TInv, Answer, NEW A \in Seq(NoticeCalls), Answering(A)
  PROVE  EInv' /\ (todo'["event"] = <<>> => ~fd)
<1>1. ~Idle("event") /\ Head(todo["event"]).op = "answer"
  BY DEF Answer, Doing
<1>2. A = <<>>
  BY <1>1, EventPhases DEF ApplierOps
<1>3. Tail(todo["event"]) = <<>> /\ notice # None /\ notice.ws = managedWs
  BY <1>1, <1>2, EventPhases DEF Answering
<1>4. managedWs \in Workspaces /\ "event" \in Threads /\ todo \in [Threads -> Seq(Calls)]
  BY <1>3 DEF TInv, SessionTypes, Threads, IInv, TypeOK, Maybe, Notice
<1>5. ASSUME NEW answers, AnswerNotice(answers), Goes("event", <<Call("enforce", None, notice.ws)>>)
      PROVE  EInv' /\ (todo'["event"] = <<>> => ~fd)
  <2> DEFINE z == Call("enforce", None, managedWs)
  <2>1. z \in Calls
    BY <1>4, CallTypes DEF WorkspaceOps
  <2>2. Goes("event", <<z>>)
    BY <1>3, <1>5
  <2> HIDE DEF z
  <2>3. <<z>> \in Seq(Calls) /\ <<z>> \o <<>> = <<z>>
    BY <2>1, ShortLists, ConcatEmptySeq
  <2>4. todo'["event"] = <<z>>
    BY <1>1, <1>3, <1>4, <2>2, <2>3, GoesFacts
  <2>5. managedWs' = managedWs
    BY <1>5 DEF AnswerNotice, RefreshFloating
  <2>6. Enforcing'
    BY <2>4, <2>5 DEF Enforcing, z
  <2> QED BY <2>4, <2>6 DEF EInv
<1>6. CASE ~fd /\ DropNotice /\ Finishes("event")
  <2>1. todo'["event"] = <<>>
    BY <1>1, <1>3, <1>4, <1>6, GoesFacts
  <2> QED BY <1>6, <2>1 DEF DropNotice, EInv, Idle
<1> QED BY <1>5, <1>6 DEF Answer

\* The layout is enforced: each window that it hides is about to be forced.
LEMMA EventEnforces ==
  ASSUME TInv, Enforce, Enforcing
  PROVE  /\ EInv'
         /\ todo'["event"] = <<>> /\ layout' # None /\ layout'.inputMode = "emacs-control" =>
              layout'.hidden = {}
<1>1. /\ ~Idle("event") /\ Head(todo["event"]).op = "enforce"
      /\ UNCHANGED <<window, queue, layout, managedWs>>
  BY DEF Enforce, Doing, NothingElse, vars
<1>2. Enforcing
  OBVIOUS
<1>3. /\ Tail(todo["event"]) = <<>> /\ Head(todo["event"]).ws = managedWs
      /\ managedWs \in Workspaces
      /\ "event" \in Threads /\ todo \in [Threads -> Seq(Calls)]
  <2>1. Head(todo["event"]) = Call("enforce", None, managedWs)
    BY <1>2, ShortListParts DEF Enforcing
  <2>2. Head(todo["event"]) \in Calls /\ "event" \in Threads /\ todo \in [Threads -> Seq(Calls)]
    BY <1>1, GoesFacts DEF TInv, SessionTypes, Threads
  <2>3. Head(todo["event"]).ws \in Workspaces
    BY <1>1, <2>2, CallArguments DEF WorkspaceOps
  <2>4. Head(todo["event"]).ws = managedWs
    BY <2>1 DEF Call
  <2> QED BY <1>1, <1>2, <2>2, <2>3, <2>4, EventPhases
<1>4. Committed(managedWs) <=> layout # None
  BY <1>3, NoneAssumption DEF Committed, TInv, IInv, Agrees
<1>5. CASE layout # None /\ layout.inputMode = "emacs-control"
  <2> DEFINE calls == ForEach(layout.hidden, "force", managedWs)
  <2>1. layout.hidden \in SUBSET Clients /\ layout.hidden \subseteq Plain
    BY <1>5, ManagedOnFacts
  <2>2. \A c \in layout.hidden : Call("force", c, managedWs) \in ForceCalls
    BY <1>3, <2>1, CallTypes DEF ForceCalls, Call
  <2>3. calls \in Seq(ForceCalls) /\ ForceCalls \in SUBSET Calls
    BY <2>1, <2>2, ForEachFacts DEF ForceCalls
  <2>4. calls \in Seq(Calls) /\ Range(calls) \subseteq ForceCalls
    BY <2>3, SeqMonotonic, RangeOfSeq
  <2>5. \A c \in layout.hidden : Call("force", c, managedWs) \in Range(calls)
    BY <2>1, ForEachFacts
  <2>6. \A c : Call("force", c, managedWs).op = "force" /\ Call("force", c, managedWs).client = c
    BY DEF Call
  <2>7. Goes("event", calls)
    BY <1>3, <1>4, <1>5 DEF Enforce
  <2> HIDE DEF calls
  <2>8. todo'["event"] = calls
    <3>1. calls \o <<>> = calls
      BY <2>4, ConcatEmptySeq
    <3> QED BY <1>1, <1>3, <2>4, <2>7, <3>1, GoesFacts
  <2>9. Forcing'
    <3>1. \A c \in layout'.hidden : \E x \in Range(todo'["event"]) : x.op = "force" /\ x.client = c
      BY <1>1, <2>5, <2>6, <2>8
    <3> QED BY <2>4, <2>8, <3>1 DEF Forcing, Dealt
  <2>10. todo'["event"] = <<>> => layout.hidden = {}
    BY <2>5, <2>8, RangeOfShort
  <2> QED BY <1>1, <2>9, <2>10 DEF EInv
<1>6. CASE ~(layout # None /\ layout.inputMode = "emacs-control")
  <2>1. Finishes("event")
    BY <1>3, <1>4, <1>6 DEF Enforce
  <2>2. todo'["event"] = <<>>
    BY <1>1, <1>3, <2>1, GoesFacts
  <2> QED BY <1>1, <1>6, <2>2 DEF EInv, Idle
<1> QED BY <1>5, <1>6

\* What happens to a window while the layout is enforced is still to be read, and no
\* event is lost.
Told == /\ queue' # <<>> \/ \A c \in Clients : Gone(c) => Gone(c)'
        /\ queue # <<>> => queue' # <<>>

\* The user's doing.
LEMMA UserNoticed ==
  ASSUME SessionTypes, UserStep
  PROVE  Told
<1>1. queue \in Seq(GoodEvents) /\ window \in [Clients -> Maybe(Window)]
  BY DEF SessionTypes
<1>2. \A e : Append(queue, e) # <<>>
  BY <1>1
<1>3. \A name, c, detail : Sends(name, c, detail) => queue' # <<>>
  BY <1>2 DEF Sends
<1>4. ASSUME NEW c \in Clients, Float(c), UNCHANGED queue
      PROVE  \A d \in Clients : Gone(d) => Gone(d)'
  <2> DEFINE r == [window[c] EXCEPT !.floating = ~@]
  <2>1. Exists(c) /\ window' = [window EXCEPT ![c] = r]
    BY <1>4 DEF Float
  <2>2. window[c] \in Window
    BY <1>1, <2>1 DEF Exists, Maybe
  <2>3. r.ws = window[c].ws
    BY <2>2 DEF Window
  <2> HIDE DEF r
  <2> QED BY <1>1, <2>1, <2>3 DEF Gone, HiddenWindows, Exists
<1>5. queue # <<>> => queue' # <<>>
  BY <1>3 DEF UserStep, Focus, Close, Float, Move, Retitle, Open
<1> QED BY <1>3, <1>4, <1>5 DEF Told, UserStep, Focus, Close, Float, Move, Retitle, Open

\* The doing of either thread's applier.
LEMMA ApplierNoticed ==
  ASSUME SessionTypes, NEW t \in Threads, ApplierStep(t), Applies(t)
  PROVE  Told
<1> DEFINE call == Head(todo[t])
           c == call.client
<1>1. /\ queue \in Seq(GoodEvents) /\ window \in [Clients -> Maybe(Window)]
      /\ hiddenFrom \in [Clients -> Maybe(Workspaces)] /\ c \in Clients
  BY DEF SessionTypes, Applies
<1>2. \A e : Append(queue, e) # <<>>
  BY <1>1
<1>3. \A name, d, detail : Sends(name, d, detail) => queue' # <<>>
  BY <1>2 DEF Sends
<1>4. UNCHANGED <<window, queue>> => Told
  BY DEF Told, Gone, HiddenWindows, Exists
<1> HIDE DEF call
\* A window that stays on its workspace is as hidden as it was.
<1>5. ASSUME Exists(c), NEW r \in Window, window' = [window EXCEPT ![c] = r],
             r.ws = window[c].ws \/ r.ws = HiddenWorkspace
      PROVE  \A d \in Clients : Gone(d) => Gone(d)'
  BY <1>1, <1>5 DEF Gone, HiddenWindows, Exists, Maybe
<1>6. ASSUME Exists(c), NEW p \in Places, MovesTo(c, p)
      PROVE  Told
  <2> DEFINE r == [window[c] EXCEPT !.ws = p]
  <2>1. window[c] \in Window /\ window' = [window EXCEPT ![c] = r]
    BY <1>1, <1>6 DEF Exists, Maybe, MovesTo
  <2>2. r \in Window /\ r.ws = p
    BY <2>1 DEF Window
  <2> HIDE DEF r
  <2>3. \/ UNCHANGED queue /\ (p = HiddenWorkspace \/ window[c].ws = p)
        \/ Sends("move", c, [NoDetail EXCEPT !.ws = p])
    BY <1>6 DEF MovesTo
  <2> QED BY <1>3, <1>5, <1>6, <2>1, <2>2, <2>3 DEF Told
<1>7. ASSUME Exists(c), MakesFloat(c)
      PROVE  Told
  <2> DEFINE r == [window[c] EXCEPT !.floating = TRUE]
  <2>1. window[c] \in Window /\ window' = [window EXCEPT ![c] = r]
    BY <1>1, <1>7 DEF Exists, Maybe, MakesFloat
  <2>2. r \in Window /\ r.ws = window[c].ws
    BY <2>1 DEF Window
  <2> HIDE DEF r
  <2>3. UNCHANGED queue \/ Sends("float", c, [NoDetail EXCEPT !.floating = TRUE])
    BY <1>7 DEF MakesFloat
  <2> QED BY <1>3, <1>5, <1>7, <2>1, <2>2, <2>3 DEF Told
<1>8. HiddenWorkspace \in Places /\ \A d \in Clients : hiddenFrom[d] # None => hiddenFrom[d] \in Places
  BY <1>1 DEF Places, Maybe
<1> QED BY <1>1, <1>4, <1>6, <1>7, <1>8
    DEF ApplierStep, HideClient, HideClientForce, Record, ShowClient, Forget,
        EnsureClientFloating, call

\* A call of the applier while a notice waits for its answer.
LEMMA AnswerWaits ==
  ASSUME TInv, ApplierStep("event"), Applies("event"), UNCHANGED vars,
         NEW A \in Seq(NoticeCalls), Answering(A)
  PROVE  EInv' /\ todo'["event"] # <<>>
<1> DEFINE z == Call("answer", None, managedWs)
           c == Head(todo["event"]).client
<1>1. /\ ~Idle("event") /\ Head(todo["event"]).op \in ApplierOps
      /\ \/ Finishes("event")
         \/ \E x \in Halves(c) : Goes("event", <<x>>)
  BY DEF Applies
<1>2. A # <<>>
  BY <1>1, EventPhases DEF ApplierOps
<1>3. /\ managedWs \in Workspaces /\ "event" \in Threads /\ todo \in [Threads -> Seq(Calls)]
      /\ UNCHANGED <<notice, managedWs>> /\ notice # None /\ notice.ws = managedWs
      /\ todo["event"] = A \o <<z>>
  BY DEF Answering, TInv, SessionTypes, Threads, IInv, TypeOK, Maybe, Notice, vars
<1>4. z \in Calls /\ A \in Seq(Calls)
  BY <1>3, CallTypes, SeqMonotonic DEF NoticeCalls, WorkspaceOps
<1> HIDE DEF z, c
<1>5. /\ Tail(A) \in Seq(NoticeCalls) /\ Tail(A) \in Seq(Calls)
      /\ Tail(todo["event"]) = Tail(A) \o <<z>>
  <2>1. Tail(A) \in Seq(NoticeCalls) /\ Tail(A) \in Seq(Calls)
    <3>1. \A S : A \in Seq(S) => Tail(A) \in Seq(S)
      BY <1>2, HeadInRange
    <3>2. Tail(A) \in Seq(NoticeCalls)
      BY <3>1
    <3> QED BY <3>2, SeqMonotonic DEF NoticeCalls
  <2>2. Tail(A \o <<z>>) = Tail(A) \o <<z>>
    <3>1. <<z>> \in Seq(Calls)
      BY <1>4, ShortLists
    <3> QED BY <1>2, <1>4, <3>1, PutInFront
  <2> QED BY <1>3, <2>1, <2>2
<1>6. ASSUME NEW B \in Seq(NoticeCalls), todo'["event"] = B \o <<z>>
      PROVE  EInv' /\ todo'["event"] # <<>>
  <2>1. B \in Seq(Calls)
    BY SeqMonotonic DEF NoticeCalls
  <2>2. B \o <<z>> # <<>>
    BY <1>4, <2>1, LastCall
  <2>3. Answering(B)'
    BY <1>3, <1>6 DEF Answering, z
  <2> QED BY <1>6, <2>2, <2>3 DEF EInv
<1>7. CASE Finishes("event")
  <2>1. todo'["event"] = Tail(A) \o <<z>>
    BY <1>1, <1>3, <1>5, <1>7, GoesFacts
  <2> QED BY <1>5, <1>6, <2>1
<1>8. ASSUME NEW x \in Halves(c), Goes("event", <<x>>)
      PROVE  EInv' /\ todo'["event"] # <<>>
  <2>1. x \in NoticeCalls /\ x \in Calls
    BY DEF Halves, NoticeCalls, ApplierOps
  <2>2. <<x>> \in Seq(NoticeCalls) /\ <<x>> \in Seq(Calls)
    BY <2>1, ShortLists
  <2>3. todo'["event"] = <<x>> \o (Tail(A) \o <<z>>)
    BY <1>1, <1>3, <1>5, <1>8, <2>2, GoesFacts
  <2>4. <<x>> \o (Tail(A) \o <<z>>) = (<<x>> \o Tail(A)) \o <<z>>
    <3>1. <<z>> \in Seq(Calls)
      BY <1>4, ShortLists
    <3> QED BY <1>5, <2>2, <3>1, ConcatAssociative
  <2>5. <<x>> \o Tail(A) \in Seq(NoticeCalls)
    BY <1>5, <2>2, ShortLists
  <2> QED BY <1>6, <2>3, <2>4, <2>5
<1> QED BY <1>1, <1>7, <1>8

\* While the event thread works on, what was disturbed stays so.
LEMMA DisturbedKept ==
  ASSUME NotesDisturbed, ~Idle("event")
  PROVE  \A c \in Clients : c \in disturbed => c \in disturbed'
  BY DEF NotesDisturbed, HandleEvent, MayStart

\* A call of the applier while the layout is enforced: a window that has been forced
\* is hidden, unless it is gone or the dispatch failed.
LEMMA ForceDeals ==
  ASSUME TInv, Forcing, ~Idle("event"), NotesDisturbed,
         ApplierStep("event"), Applies("event"), UNCHANGED vars
  PROVE  Forcing'
<1> DEFINE call == Head(todo["event"])
           c == call.client
<1>1. /\ call.op \in {"force", "record"} /\ call \in Calls /\ c \in Clients
      /\ Tail(todo["event"]) \in Seq(Calls)
      /\ Range(todo["event"]) = {call} \cup Range(Tail(todo["event"]))
      /\ "event" \in Threads /\ todo \in [Threads -> Seq(Calls)]
      /\ window \in [Clients -> Maybe(Window)]
  <2>1. "event" \in Threads /\ todo \in [Threads -> Seq(Calls)]
        /\ window \in [Clients -> Maybe(Window)]
    BY DEF TInv, SessionTypes, Threads
  <2>2. call \in Range(todo["event"]) /\ c \in Clients
    BY <2>1, GoesFacts DEF Applies
  <2>3. call.op \in {"force", "record"}
    BY <2>2 DEF Forcing, ForceCalls
  <2> QED BY <2>1, <2>2, <2>3, GoesFacts
<1>2. UNCHANGED layout
  BY DEF vars
<1>3. layout # None => layout.hidden \subseteq Clients
  BY ManagedOnFacts
<1>6. /\ \A d \in Clients : d \in disturbed => d \in disturbed'
      /\ Missed(c) => c \in disturbed'
  BY <1>1, DisturbedKept DEF NotesDisturbed, HandleEvent, MayStart
<1>4. CASE call.op = "record"
  <2>1. Record("event")
    BY <1>4 DEF ApplierStep, HideClient, HideClientForce, ShowClient, Forget,
                EnsureClientFloating, Doing
  <2>2. Finishes("event") /\ UNCHANGED <<window, queue>>
    BY <2>1 DEF Record
  <2>3. todo'["event"] = Tail(todo["event"]) /\ HiddenWindows' = HiddenWindows
    BY <1>1, <2>2, GoesFacts DEF HiddenWindows, Exists
  <2> HIDE DEF call
  <2>4. \A d \in Clients : Dealt(d) => Dealt(d)'
    BY <1>1, <1>4, <1>6, <2>2, <2>3 DEF Dealt, Gone
  <2> QED BY <1>1, <1>2, <1>3, <2>3, <2>4 DEF Forcing
<1>5. CASE call.op = "force"
  <2>1. HideClientForce("event")
    BY <1>5 DEF ApplierStep, HideClient, Record, ShowClient, Forget,
                EnsureClientFloating, Doing
  <2>2. CASE /\ Exists(c) /\ MovesTo(c, HiddenWorkspace)
             /\ Goes("event", <<Call("record", c, call.ws)>>)
    <3> DEFINE x == Call("record", c, call.ws)
    <3>1. x \in Calls /\ x \in ForceCalls
      <4>1. c \in Plain /\ call.ws \in Workspaces
        <5> HIDE DEF call
        <5> QED BY <1>1, <1>5, CallArguments
      <4> QED BY <4>1, CallTypes DEF ForceCalls, Call
    <3> HIDE DEF x
    <3>2. Range(todo'["event"]) = {x} \cup Range(Tail(todo["event"]))
      <4>1. <<x>> \in Seq(Calls)
        BY <3>1, ShortLists
      <4>2. todo'["event"] = <<x>> \o Tail(todo["event"])
        BY <1>1, <2>2, <4>1, GoesFacts DEF x
      <4>3. Tail(todo["event"]) \in Seq(Calls)
        BY <1>1
      <4>4. Range(<<x>> \o Tail(todo["event"])) = {x} \cup Range(Tail(todo["event"]))
        BY <3>1, <4>3, RangeInFront, Zenon
      <4> QED BY <4>2, <4>4
    <3>3. /\ UNCHANGED queue
          /\ window' = [window EXCEPT ![c].ws = HiddenWorkspace]
      BY <2>2 DEF MovesTo
    <3>4. /\ \A d \in Clients \ {c} : window'[d] = window[d]
          /\ window'[c] = None \/ c \in HiddenWindows'
      <4>1. window[c] \in Window
        BY <1>1, <2>2 DEF Exists, Maybe
      <4>2. window'[c].ws = HiddenWorkspace /\ \A d \in Clients \ {c} : window'[d] = window[d]
        BY <1>1, <3>3, <4>1 DEF Window
      <4> QED BY <1>1, <4>2 DEF HiddenWindows, Exists
    <3> HIDE DEF call
    <3>5. \A d \in Clients : Dealt(d) => Dealt(d)'
      BY <1>1, <1>6, <3>2, <3>3, <3>4 DEF Dealt, Gone, HiddenWindows, Exists
    <3>6. Range(todo'["event"]) \subseteq ForceCalls
      BY <1>1, <3>1, <3>2 DEF Forcing
    <3> QED BY <1>2, <1>3, <3>5, <3>6 DEF Forcing
  <2>3. CASE Fails(c) /\ Finishes("event") /\ UNCHANGED <<window, queue>>
    <3>1. todo'["event"] = Tail(todo["event"]) /\ HiddenWindows' = HiddenWindows
      BY <1>1, <2>3, GoesFacts DEF HiddenWindows, Exists
    <3>2. \A d : d = c => Gone(d)' \/ Missed(d)
      BY <1>1, <2>1, <2>3 DEF Missed, Gone, Exists
    <3> HIDE DEF call
    <3>3. \A d \in Clients : Dealt(d) => Dealt(d)'
      BY <1>1, <1>6, <2>3, <3>1, <3>2 DEF Dealt, Gone
    <3> QED BY <1>1, <1>2, <1>3, <3>1, <3>3 DEF Forcing
  <2> QED BY <2>1, <2>2, <2>3 DEF HideClientForce
<1> QED BY <1>1, <1>4, <1>5

\* At first the event thread is idle.
LEMMA EInvInit == HistoryInit => EInv
<1> SUFFICES ASSUME HistoryInit PROVE EInv
  OBVIOUS
<1>1. Idle("event")
  BY DEF HistoryInit, SessionInit, ApplierInit, Threads, Idle
<1> QED BY <1>1 DEF EInv

\* A step of anything but the event thread: its list stays, and either a command
\* disturbs all windows, or the manager stays and whatever happens to a window is told.
LEMMA OthersStep ==
  ASSUME TInv, SessionNext, NotesDisturbed, ~EventThread,
         ~(ApplierStep("event") /\ Applies("event") /\ UNCHANGED vars)
  PROVE  /\ todo'["event"] = todo["event"]
         /\ Clients \subseteq disturbed' \/ (UNCHANGED vars /\ Told)
<1>1. /\ SessionTypes /\ "controller" \in Threads /\ "event" \in Threads
      /\ todo \in [Threads -> Seq(Calls)]
  BY DEF TInv, SessionTypes, Threads
<1>2. ~HandleEvent /\ (Clients \subseteq disturbed' \/ UNCHANGED vars)
  BY DEF NotesDisturbed, Commanded, EventThread
<1>3. CASE \E C : Plans("controller", C)
  <2>1. UNCHANGED <<window, queue>> /\ todo'["event"] = todo["event"]
    BY <1>1, <1>3 DEF Plans, Goes
  <2>2. Told
    BY <2>1 DEF Told, Gone, HiddenWindows, Exists
  <2> QED BY <1>2, <2>1, <2>2
<1>4. CASE ApplierStep("controller") /\ Applies("controller") /\ UNCHANGED vars
  <2>1. todo'["event"] = todo["event"]
    BY <1>1, <1>4 DEF Applies, Finishes, Goes
  <2> QED BY <1>1, <1>4, <2>1, ApplierNoticed
<1>5. CASE UserStep /\ UNCHANGED todo /\ UNCHANGED vars
  BY <1>1, <1>5, UserNoticed
<1> QED BY <1>3, <1>4, <1>5, StepKinds, ClosingStep DEF Threads

\* Whatever is told of keeps the phase of the event thread.
LEMMA PhaseKept ==
  ASSUME TInv, EInv, NotesDisturbed, ~Idle("event"),
         todo'["event"] = todo["event"], UNCHANGED vars, Told
  PROVE  EInv'
<1>1. \A c \in Clients : c \in disturbed => c \in disturbed'
  BY DisturbedKept
<1>2. layout # None => layout.hidden \subseteq Clients
  BY ManagedOnFacts
<1>3. \A c \in Clients : Dealt(c) => Dealt(c)'
  BY <1>1 DEF Told, Dealt
<1>4. UNCHANGED <<notice, managedWs, layout>>
  BY DEF vars
<1> QED BY <1>1, <1>2, <1>3, <1>4 DEF EInv, Idle, Answering, Enforcing, Forcing

\* A step of the event thread in the middle of its work: it keeps its phase or goes
\* to the next, and when it comes to rest the layout has been dealt with.
LEMMA EventStep ==
  ASSUME TInv, EInv, NotesDisturbed, ~Idle("event"),
         \/ EventThread
         \/ ApplierStep("event") /\ Applies("event") /\ UNCHANGED vars
  PROVE  /\ EInv'
         /\ todo'["event"] = <<>> /\ fd /\ queue' = <<>> /\ layout' # None
              /\ layout'.inputMode = "emacs-control"
              => \A c \in layout'.hidden : Gone(c)' \/ c \in disturbed'
<1> DEFINE Dealing == todo'["event"] = <<>> /\ fd /\ queue' = <<>> /\ layout' # None
                        /\ layout'.inputMode = "emacs-control"
                        => \A c \in layout'.hidden : Gone(c)' \/ c \in disturbed'
<1>1. CASE Clients \subseteq disturbed
  <2>1. Clients \subseteq disturbed'
    BY <1>1, DisturbedKept
  <2>2. layout' # None => layout'.hidden \subseteq Clients
    <3>1. Next \/ UNCHANGED vars
      BY HandleEventFacts, ServesEvent DEF EventThread
    <3>2. IInv'
      BY <3>1, IInvNext DEF TInv
    <3>3. layout' \in Maybe(Layout)
      BY <3>2 DEF IInv, TypeOK
    <3> QED BY <3>3 DEF Maybe, Layout
  <2> QED BY <2>1, <2>2 DEF EInv
<1>2. CASE EventThread /\ ~(Clients \subseteq disturbed)
  <2>1. ~HandleEvent
    BY DEF HandleEvent, MayStart
  <2>2. CASE Answer
    <3>1. Head(todo["event"]).op = "answer"
      BY <2>2 DEF Answer, Doing
    <3>2. \E A \in Seq(NoticeCalls) : Answering(A)
      BY <1>2, <3>1, EventPhases DEF EInv
    <3> QED BY <2>2, <3>2, EventAnswers
  <2>3. CASE Enforce
    <3>1. Head(todo["event"]).op = "enforce"
      BY <2>3 DEF Enforce, Doing
    <3>2. Enforcing
      BY <1>2, <3>1, EventPhases DEF EInv, ApplierOps
    <3> QED BY <2>3, <3>2, EventEnforces
  <2> QED BY <1>2, <2>1, <2>2, <2>3 DEF EventThread
<1>3. CASE /\ ApplierStep("event") /\ Applies("event") /\ UNCHANGED vars
           /\ ~(Clients \subseteq disturbed)
  <2>1. Head(todo["event"]).op \in ApplierOps
    BY <1>3 DEF Applies
  <2>2. CASE Forcing
    <3>1. Forcing'
      BY <1>3, <2>2, ForceDeals
    <3>2. Range(<<>>) = {}
      BY RangeOfShort
    <3> QED BY <3>1, <3>2 DEF EInv, Forcing, Dealt
  <2>3. ASSUME NEW A \in Seq(NoticeCalls), Answering(A)
        PROVE  EInv' /\ todo'["event"] # <<>>
    BY <1>3, <2>3, AnswerWaits
  <2>4. ~Enforcing
    BY <2>1, EventPhases DEF ApplierOps
  <2> QED BY <1>3, <2>2, <2>3, <2>4 DEF EInv
<1> QED BY <1>1, <1>2, <1>3

\* Every step keeps EInv.
LEMMA EInvNext ==
  ASSUME TInv, EInv, [HistoryNext]_historyVars
  PROVE  EInv'
<1>1. CASE UNCHANGED historyVars
  <2>1. UNCHANGED <<window, queue, todo, layout, managedWs, notice, disturbed>>
    BY <1>1 DEF historyVars, sessionVars, vars, applierVars
  <2> QED BY <2>1 DEF EInv, Idle, Answering, Enforcing, Forcing, Dealt, Gone, HiddenWindows, Exists
<1>2. CASE SessionNext /\ NotesDisturbed
  <2>1. CASE HandleEvent
    BY <2>1, EventBegins
  <2>2. CASE Idle("event") /\ ~HandleEvent
    <3>1. todo'["event"] = todo["event"]
      BY <1>2, <2>2, OthersStep, ServesEvent DEF EventThread, Serves, Applies
    <3> QED BY <2>2, <3>1 DEF EInv, Idle
  <2>3. CASE ~Idle("event") /\ (EventThread \/ (ApplierStep("event") /\ Applies("event") /\ UNCHANGED vars))
    BY <1>2, <2>3, EventStep
  <2>4. CASE /\ ~Idle("event") /\ ~EventThread
             /\ ~(ApplierStep("event") /\ Applies("event") /\ UNCHANGED vars)
    BY <1>2, <2>4, OthersStep, PhaseKept DEF EInv
  <2> QED BY <2>1, <2>2, <2>3, <2>4
<1> QED BY <1>1, <1>2 DEF HistoryNext

\* When the event thread comes to rest with every event read, whatever the layout
\* hides in Emacs control is hidden or gone, the user's moves included, but for what
\* failed or was changed by a command in the meantime.
THEOREM LayoutEnforced == HistorySpec => EnforcedUnlessDisturbed
<1>1. TInv /\ EInv /\ [HistoryNext]_historyVars => EInv'
  BY EInvNext
<1>2. ASSUME TInv, EInv, [HistoryNext]_historyVars
      PROVE  [/\ ~Idle("event") /\ todo'["event"] = <<>> /\ queue' = <<>> /\ fd
              /\ layout' # None /\ layout'.inputMode = "emacs-control"
              => \A c \in layout'.hidden :
                   window'[c] = None \/ c \in HiddenWindows' \/ c \in disturbed']_historyVars
  <2> SUFFICES ASSUME SessionNext, NotesDisturbed,
                      ~Idle("event"), todo'["event"] = <<>>, queue' = <<>>, fd,
                      layout' # None, layout'.inputMode = "emacs-control",
                      NEW c \in layout'.hidden
               PROVE  window'[c] = None \/ c \in HiddenWindows' \/ c \in disturbed'
    BY <1>2 DEF HistoryNext
  <2>1. EventThread \/ (ApplierStep("event") /\ Applies("event") /\ UNCHANGED vars)
    BY <1>2, OthersStep DEF Idle
  <2>2. Gone(c)' \/ c \in disturbed'
    BY <1>2, <2>1, EventStep
  <2> QED BY <2>2 DEF Gone
<1> QED BY <1>1, <1>2, EInvInit, HistoryIsSession, TInvAlways, PTL
    DEF HistorySpec, EnforcedUnlessDisturbed
=============================================================================
