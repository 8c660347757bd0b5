-------------------------- MODULE StateNotifyProofs --------------------------
(***************************************************************************)
(* Invariants of StateNotify, for any workspaces, debounce times and       *)
(* connections, and the safety part of what it promises in StateReporting. *)
(***************************************************************************)
EXTENDS StateNotify, WellFoundedInduction, TLAPS

\* Where a thread may be.
Labels ==
  {"idle", "publish", "insert", "wake", "read", "build", "send",
   "check", "parking", "blocked", "woken", "arming", "timed", "done",
   "accepting", "clear", "tell", "resolve", "online", "serving", "leave", "forget",
   "tell-last", "offline",
   "up", "listening", "controller", "join-accept", "notify", "join-notifier", "stopped"}

\* Who is about to enqueue knows what.
Named ==
  \A t \in Enqueuers : pc[t] \in {"publish", "insert"} => job[t].ws \in Workspaces

\* NotifyTypeOK with the program counters.
NType == NotifyTypeOK /\ pc \in [Threads -> Labels] /\ Named

Ticks == 0 .. MaxDebounce
Entries == [ws : Workspaces, gen : Nat, left : Ticks]
Jobs == [ws : Workspaces \cup {None}, gen : Nat, left : Ticks, covers : BOOLEAN]

-----------------------------------------------------------------------------
(* The operators.                                                          *)

\* The threads have different names.
LEMMA ThreadFacts ==
  /\ Enqueuers \subseteq Threads \ {"notifier", "accept", "stop"}
  /\ "notifier" \in Threads /\ "accept" \in Threads /\ "stop" \in Threads
  /\ Senders \subseteq Threads \ {"accept", "stop"}
  /\ "notifier" \in Senders /\ Enqueuers \subseteq Senders
  BY NotifyAssumption DEF NotifyAssumption, Threads, Senders

\* A set of tick counts that is not empty has a least member.
LEMMA MinIsMember == ASSUME NEW S \in SUBSET Nat, S # {} PROVE Min(S) \in S
<1> DEFINE Less == OpToRel(<, Nat)
<1>1. PICK x \in S : \A y \in S : ~ (<<y, x>> \in Less)
  BY NatLessThanWellFounded, WFMin
<1>2. \A y \in S : x =< y
  <2> TAKE y \in S
  <2>1. ~ (y < x)
    BY <1>1 DEF OpToRel
  <2> QED BY <2>1
<1> QED BY <1>2 DEF Min

\* Whatever the option says, the debounce time is within its bounds.
LEMMA NormalizeType == \A v \in Int \cup {None} : Normalize(v) \in Ticks
  BY NotifyAssumption DEF NotifyAssumption, Normalize, Ticks

\* Time takes a count of ticks no further than to zero.
LEMMA OneLessType == \A n \in Ticks : OneLess(n) \in Ticks
  BY NotifyAssumption DEF NotifyAssumption, OneLess, Ticks

\* A wake-up only moves the notifier, and only out of a sleep.
LEMMA WokenFacts ==
  ASSUME NEW p \in [Threads -> Labels]
  PROVE  /\ Woken(p) \in [Threads -> Labels]
         /\ \A u \in Threads \ {"notifier"} : Woken(p)[u] = p[u]
         /\ p["notifier"] = "blocked" => Woken(p)["notifier"] = "check"
         /\ p["notifier"] = "timed" => Woken(p)["notifier"] = "woken"
         /\ p["notifier"] \notin {"blocked", "timed"} => Woken(p)["notifier"] = p["notifier"]
<1> DEFINE v == CASE p["notifier"] = "blocked" -> "check"
                  [] p["notifier"] = "timed" -> "woken"
                  [] OTHER -> p["notifier"]
<1>1. /\ p["notifier"] = "blocked" => v = "check"
      /\ p["notifier"] = "timed" => v = "woken"
      /\ p["notifier"] \notin {"blocked", "timed"} => v = p["notifier"]
  OBVIOUS
<1>2. Woken(p) = [p EXCEPT !["notifier"] = v]
  BY DEF Woken
<1> HIDE DEF v
<1>3. v \in Labels
  <2>1. p["notifier"] \in Labels /\ "check" \in Labels /\ "woken" \in Labels
    BY ThreadFacts DEF Labels
  <2>2. v \in {"check", "woken", p["notifier"]}
    BY <1>1
  <2> QED BY <2>1, <2>2
<1> QED BY <1>1, <1>2, <1>3, ThreadFacts

\* A thread moves on, and no other.
LEMMA GotoFacts ==
  ASSUME pc \in [Threads -> Labels], NEW t \in Threads, NEW l \in Labels, Goto(t, l)
  PROVE  /\ pc' \in [Threads -> Labels] /\ pc'[t] = l
         /\ \A u \in Threads \ {t} : pc'[u] = pc[u]
  BY DEF Goto

\* Jobs that are put together of values of the right types.
LEMMA JobType ==
  ASSUME NEW w \in Workspaces \cup {None}, NEW g \in Nat, NEW n \in Ticks, NEW b \in BOOLEAN
  PROVE  Job(w, g, n, b) \in Jobs
  BY DEF Job, Jobs

\* A deadline may have passed.
LEMMA ZeroIsTick == 0 \in Nat /\ 0 \in Ticks
  BY NotifyAssumption DEF NotifyAssumption, Ticks

\* A thread that has nothing to do has an empty job.
LEMMA NoJobType == NoJob \in Jobs
  BY ZeroIsTick, JobType DEF NoJob

\* The updates of a job's fields.
LEMMA JobUpdates ==
  ASSUME NEW j \in Jobs
  PROVE  /\ \A b \in BOOLEAN : [j EXCEPT !.covers = b] \in Jobs
         /\ \A n \in Ticks : [j EXCEPT !.left = n] \in Jobs
         /\ \A g \in Nat : [j EXCEPT !.gen = g] \in Jobs
         /\ j.ws \in Workspaces \cup {None} /\ j.gen \in Nat
         /\ j.left \in Ticks /\ j.covers \in BOOLEAN
  BY DEF Jobs

\* NotifyTypeOK, in terms of these sets.
LEMMA NTypeMeans ==
  NType <=> /\ {running, fd, connected} \subseteq BOOLEAN
            /\ generation \in Nat /\ debounce \in Ticks /\ until \in Ticks
            /\ pending \subseteq Entries /\ due \subseteq Entries
            /\ \A e, f \in pending : e.ws = f.ws => e = f
            /\ job \in [Senders -> Jobs]
            /\ owed \subseteq Workspaces /\ lost \subseteq Workspaces
            /\ pc \in [Threads -> Labels] /\ Named
  BY DEF NType, NotifyTypeOK, Ticks, Entries, Jobs

\* The same of the next state.
LEMMA NTypeMeansNext ==
  NType' <=> /\ {running', fd', connected'} \subseteq BOOLEAN
             /\ generation' \in Nat /\ debounce' \in Ticks /\ until' \in Ticks
             /\ pending' \subseteq Entries /\ due' \subseteq Entries
             /\ \A e, f \in pending' : e.ws = f.ws => e = f
             /\ job' \in [Senders -> Jobs]
             /\ owed' \subseteq Workspaces /\ lost' \subseteq Workspaces
             /\ pc' \in [Threads -> Labels] /\ Named'
  BY DEF NType, NotifyTypeOK, Ticks, Entries, Jobs

-----------------------------------------------------------------------------
(* Types.                                                                  *)

\* In the beginning the compositor's thread is up and nobody is connected.
LEMMA NTypeInit == NotifyInit => NType
<1> SUFFICES ASSUME NotifyInit PROVE NType
  OBVIOUS
<1>1. debounce \in Ticks /\ until \in Ticks /\ generation \in Nat
  BY NotifyAssumption DEF NotifyAssumption, NotifyInit, Ticks
<1>2. job \in [Senders -> Jobs]
  BY NoJobType DEF NotifyInit
<1>3. pc \in [Threads -> Labels]
  <2> DEFINE v(t) == CASE t \in Enqueuers -> "idle" [] t = "notifier" -> "check"
                       [] t = "accept" -> "accepting" [] t = "stop" -> "up"
  <2>1. ASSUME NEW t \in Threads PROVE v(t) \in Labels
    <3>1. t \in Enqueuers \/ t \in {"notifier", "accept", "stop"}
      BY DEF Threads, Senders
    <3>2. v(t) \in {"idle", "check", "accepting", "up"}
      BY <3>1
    <3> QED BY <3>2 DEF Labels
  <2>2. pc = [t \in Threads |-> v(t)]
    BY DEF NotifyInit
  <2> QED BY <2>1, <2>2
<1>4. Named
  BY ThreadFacts DEF NotifyInit, Named
<1> QED BY <1>1, <1>2, <1>3, <1>4, NTypeMeans DEF NotifyInit

\* A change makes a job, and what others built no longer covers it.
LEMMA NTypeChange ==
  ASSUME NType, NEW t \in Enqueuers, NEW w \in Workspaces, Change(t, w)
  PROVE  NType'
<1>1. job' \in [Senders -> Jobs]
  <2>1. Job(w, 0, 0, FALSE) \in Jobs
    BY ZeroIsTick, JobType
  <2>2. \A u \in Senders : job[u] \in Jobs /\ [job[u] EXCEPT !.covers = FALSE] \in Jobs
    BY JobUpdates, NTypeMeans
  <2> QED BY <2>1, <2>2 DEF Change
<1>2. owed' \subseteq Workspaces
  BY NTypeMeans DEF Change
<1>3. Goto(t, "publish")
  BY DEF Change
<1>4. pc' \in [Threads -> Labels]
  BY <1>3, NTypeMeans, ThreadFacts, GotoFacts DEF Labels
<1>5. Named'
  <2> SUFFICES ASSUME NEW u \in Enqueuers, pc'[u] \in {"publish", "insert"}
               PROVE  job'[u].ws \in Workspaces
    BY DEF Named
  <2>1. CASE u = t
    BY <2>1, ThreadFacts DEF Change, Job
  <2>2. CASE u # t
    BY <2>2, <1>3, NTypeMeans, ThreadFacts, GotoFacts, JobUpdates DEF Change, Named, Labels, Jobs
  <2> QED BY <2>1, <2>2
<1> QED BY <1>1, <1>2, <1>4, <1>5, NTypeMeans, NTypeMeansNext DEF Change

\* Threads move on, flags and counters change, entries and debts only go.
LEMMA NTypeMove ==
  ASSUME NType, {running', fd', connected'} \subseteq BOOLEAN,
         generation' \in Nat, debounce' \in Ticks, until' \in Ticks,
         pc' \in [Threads -> Labels], owed' \subseteq owed, lost' \subseteq lost,
         pending' \subseteq pending, due' \subseteq pending \cup due, job' = job,
         \A t \in Enqueuers : pc'[t] \in {"publish", "insert"} => pc'[t] = pc[t]
  PROVE  NType'
<1>1. Named'
  BY NTypeMeans DEF Named
<1> QED BY <1>1, NTypeMeans, NTypeMeansNext

\* An insertion loses one change at most, and only by supplanting its entry.
LEMMA NotesLostFacts ==
  ASSUME NEW t \in Enqueuers, NotesLost(t)
  PROVE  /\ \/ UNCHANGED <<owed, lost>>
            \/ \E w \in owed : owed' = owed \ {w} /\ lost' = lost \cup {w}
         /\ owed' \subseteq owed
         /\ \A w \in owed' : w = job[t].ws /\ Supplants(t) => Carried(w)'
<1>1. PICK missed : /\ missed = {w \in owed : w = job[t].ws /\ Supplants(t) /\ ~Carried(w)'}
                    /\ owed' = owed \ missed /\ lost' = lost \cup missed
  BY DEF NotesLost
<1>2. \A w \in owed : w \in missed <=> w = job[t].ws /\ Supplants(t) /\ ~Carried(w)'
  BY <1>1
<1>3. CASE missed = {}
  BY <1>1, <1>2, <1>3
<1>4. CASE missed # {}
  <2>1. missed = {job[t].ws} /\ job[t].ws \in owed
    BY <1>1, <1>4
  <2> QED BY <1>1, <1>2, <2>1
<1> QED BY <1>3, <1>4

\* An entry replaces the one of its workspace.
LEMMA NTypeEnqueue ==
  ASSUME NType, NEW t \in Enqueuers, EnqueueDebouncedStateDump(t) \/ Insert(t) \/ Wake(t)
  PROVE  NType'
<1> USE ThreadFacts
<1>1. job[t] \in Jobs /\ t \in Senders /\ t \in Threads /\ job \in [Senders -> Jobs]
      /\ pc \in [Threads -> Labels] /\ Named
  BY NTypeMeans
<1>2. CASE EnqueueDebouncedStateDump(t)
  <2>1. /\ Job(job[t].ws, generation, debounce, FALSE) \in Jobs
        /\ At(t, "publish") => job[t].ws \in Workspaces
    BY <1>1, NTypeMeans, JobUpdates, JobType DEF Named, At
  <2>2. /\ job' \in [Senders -> Jobs]
        /\ \A u \in Enqueuers \ {t} : job'[u] = job[u]
        /\ At(t, "publish")
        /\ \/ Goto(t, "idle") \/ Goto(t, "read")
           \/ Goto(t, "insert") /\ job'[t].ws = job[t].ws
    <3>1. CASE Drop(t) /\ Goto(t, "idle")
      BY <1>1, <1>2, <3>1, NoJobType DEF EnqueueDebouncedStateDump, Drop
    <3>2. CASE job' = job /\ Goto(t, "read")
      BY <1>1, <1>2, <3>2 DEF EnqueueDebouncedStateDump
    <3>3. CASE /\ job' = [job EXCEPT ![t] = Job(@.ws, generation, debounce, FALSE)]
               /\ Goto(t, "insert")
      BY <1>1, <1>2, <2>1, <3>3 DEF EnqueueDebouncedStateDump, Job
    <3> QED BY <1>2, <3>1, <3>2, <3>3 DEF EnqueueDebouncedStateDump
  <2>3. /\ pc' \in [Threads -> Labels]
        /\ \A u \in Enqueuers \ {t} : pc'[u] = pc[u]
        /\ pc'[t] \in {"publish", "insert"} => job'[t].ws = job[t].ws
    BY <1>1, <2>2 DEF Goto, Labels
  <2>4. Named'
    BY <1>1, <2>1, <2>2, <2>3 DEF Named
  <2> QED BY <1>2, <2>2, <2>3, <2>4, NTypeMeans, NTypeMeansNext DEF EnqueueDebouncedStateDump
<1>3. CASE Insert(t)
  <2>1. Entry(job[t].ws, job[t].gen, job[t].left) \in Entries
    BY <1>1, <1>3, JobUpdates DEF Named, Insert, At, Entry, Entries, Jobs
  <2>2. /\ job' \in [Senders -> Jobs] /\ pc' \in [Threads -> Labels]
        /\ \A u \in Enqueuers \ {t} : pc'[u] = pc[u] /\ job'[u] = job[u]
        /\ pc'[t] \notin {"publish", "insert"}
    BY <1>1, <1>3, NoJobType, GotoFacts DEF Insert, Drop, Labels, Goto
  <2>3. Named'
    BY <1>1, <2>2 DEF Named
  <2>4. pending' \subseteq Entries /\ \A e, f \in pending' : e.ws = f.ws => e = f
    BY <1>3, <2>1, NTypeMeans DEF Insert, Entry
  <2>5. owed' \subseteq Workspaces /\ lost' \subseteq Workspaces
    <3>1. NotesLost(t)
      BY <1>3 DEF Insert
    <3> QED BY <3>1, NotesLostFacts, NTypeMeans
  <2> QED BY <1>3, <2>2, <2>3, <2>4, <2>5, NTypeMeans, NTypeMeansNext DEF Insert
<1>4. CASE Wake(t)
  <2>1. [pc EXCEPT ![t] = "idle"] \in [Threads -> Labels]
    BY <1>1 DEF Labels
  <2>2. pc' \in [Threads -> Labels] /\ \A u \in Enqueuers : pc'[u] \in {pc[u], "idle"}
    BY <1>1, <1>4, <2>1, WokenFacts DEF Wake
  <2> QED BY <1>4, <2>2, NTypeMove, NTypeMeans DEF Wake
<1> QED BY <1>2, <1>3, <1>4

\* A dump, in whichever thread.
LEMMA NTypePublish ==
  ASSUME NType, NEW t \in Senders, ReadConnection(t) \/ BuildDump(t) \/ SendDump(t)
  PROVE  NType'
<1> USE ThreadFacts
<1>1. job[t] \in Jobs /\ t \in Threads /\ job \in [Senders -> Jobs]
      /\ pc \in [Threads -> Labels] /\ Named /\ generation \in Nat
  BY NTypeMeans
<1>2. /\ job' \in [Senders -> Jobs]
      /\ \A u \in Senders \ {t} : job'[u] = job[u]
  <2>1. CASE Drop(t)
    BY <1>1, <2>1, NoJobType DEF Drop
  <2>2. CASE ReadConnection(t) /\ job' = [job EXCEPT ![t].gen = generation]
    <3>1. [job[t] EXCEPT !.gen = generation] \in Jobs
      BY <1>1, JobUpdates
    <3> QED BY <1>1, <2>2, <3>1
  <2>3. CASE BuildDump(t)
    <3> DEFINE c == job[t].covers \/ job[t].ws \in owed
    <3>1. c \in BOOLEAN
      OBVIOUS
    <3>2. job' = [job EXCEPT ![t] = [job[t] EXCEPT !.covers = c]]
      BY <1>1, <2>3 DEF BuildDump
    <3> HIDE DEF c
    <3>3. [job[t] EXCEPT !.covers = c] \in Jobs
      BY <1>1, <3>1, JobUpdates
    <3> QED BY <1>1, <3>2, <3>3
  <2> QED BY <2>1, <2>2, <2>3 DEF ReadConnection, SendDump
<1>3. /\ pc' \in [Threads -> Labels]
      /\ \A u \in Enqueuers \ {t} : pc'[u] = pc[u]
      /\ t \in Enqueuers => pc'[t] \notin {"publish", "insert"}
  BY <1>1 DEF ReadConnection, BuildDump, SendDump, Goto, Labels
<1>4. Named'
  BY <1>1, <1>2, <1>3 DEF Named
<1>5. owed' \subseteq Workspaces
  BY NTypeMeans DEF ReadConnection, BuildDump, SendDump
<1> QED BY <1>2, <1>3, <1>4, <1>5, NTypeMeans, NTypeMeansNext
        DEF ReadConnection, BuildDump, SendDump

\* The notifier sleeps, wakes, and takes what is due.
LEMMA NTypeNotifier ==
  ASSUME NType, CheckPending \/ Park \/ CheckDeadline \/ Arm \/ TimeOut \/ PublishDue
  PROVE  NType'
<1> USE ThreadFacts
<1>1. /\ {running, fd, connected} \subseteq BOOLEAN
      /\ generation \in Nat /\ debounce \in Ticks /\ until \in Ticks
      /\ pending \subseteq Entries /\ due \subseteq Entries
      /\ job \in [Senders -> Jobs] /\ pc \in [Threads -> Labels]
  BY NTypeMeans
<1>2. ASSUME NEW l \in Labels, Goto("notifier", l)
      PROVE  /\ pc' \in [Threads -> Labels]
             /\ \A t \in Enqueuers : pc'[t] = pc[t]
  BY <1>1, <1>2, GotoFacts
<1>3. ASSUME NEW left \in Ticks, WaitOrTake(left) \/ (Finish /\ UNCHANGED <<pending, due>>)
      PROVE  /\ pc' \in [Threads -> Labels]
             /\ \A t \in Enqueuers : pc'[t] = pc[t]
             /\ until' \in Ticks
             /\ pending' \subseteq pending /\ due' \subseteq pending \cup due
  <2>1. CASE WaitOrTake(left)
    BY <1>2, <1>3, <2>1, ZeroIsTick DEF WaitOrTake, Labels
  <2>2. CASE Finish /\ UNCHANGED <<pending, due>>
    BY <1>2, <2>2, ZeroIsTick DEF Finish, Labels
  <2> QED BY <1>3, <2>1, <2>2
<1>4. CASE CheckPending
  <2>1. CASE running /\ pending # {}
    <3> DEFINE S == {e.left : e \in pending}
    <3>1. S \subseteq Ticks /\ S # {}
      BY <1>1, <2>1 DEF Entries
    <3>2. Min(S) \in Ticks
      BY <3>1, MinIsMember DEF Ticks
    <3>3. WaitOrTake(Min(S))
      BY <1>4, <2>1 DEF CheckPending
    <3> QED BY <1>1, <1>3, <1>4, <3>2, <3>3, NTypeMove DEF CheckPending
  <2>2. CASE ~running
    BY <1>1, <1>3, <1>4, <2>2, ZeroIsTick, NTypeMove DEF CheckPending
  <2>3. CASE running /\ pending = {}
    BY <1>1, <1>2, <1>4, <2>3, NTypeMove DEF CheckPending, Labels
  <2> QED BY <1>1, <2>1, <2>2, <2>3
<1>5. CASE CheckDeadline
  BY <1>1, <1>3, <1>5, NTypeMove DEF CheckDeadline
<1>6. CASE Park \/ Arm \/ TimeOut
  BY <1>1, <1>2, <1>6, NTypeMove DEF Park, Arm, TimeOut, Labels
<1>7. CASE PublishDue
  <2>1. CASE due = {} /\ Goto("notifier", "check") /\ UNCHANGED <<due, job>>
    BY <1>1, <1>2, <1>7, <2>1, NTypeMove DEF PublishDue, Labels
  <2>2. ASSUME NEW e \in due, due' = due \ {e}, UNCHANGED <<job, pc>>
        PROVE  NType'
    BY <1>1, <1>7, <2>2, NTypeMove DEF PublishDue
  <2>3. ASSUME NEW e \in due, due' = due \ {e}, Goto("notifier", "build"),
               job' = [job EXCEPT !["notifier"] = Job(e.ws, e.gen, 0, FALSE)]
        PROVE  NType'
    <3>1. Job(e.ws, e.gen, 0, FALSE) \in Jobs
      BY <1>1, ZeroIsTick, JobType DEF Entries
    <3>2. job' \in [Senders -> Jobs] /\ \A t \in Enqueuers : job'[t] = job[t]
      BY <1>1, <2>3, <3>1
    <3>3. Named'
      BY <1>2, <2>3, <3>2, NTypeMeans DEF Named, Labels
    <3> QED BY <1>1, <1>2, <1>7, <2>3, <3>2, <3>3, NTypeMeans, NTypeMeansNext
            DEF PublishDue, Labels
  <2> QED BY <1>7, <2>1, <2>2, <2>3 DEF PublishDue
<1> QED BY <1>4, <1>5, <1>6, <1>7

\* The notifier is woken, and one thread moves on.
LEMMA WokenGoto ==
  ASSUME pc \in [Threads -> Labels], NEW t \in Threads \ {"notifier"}, NEW l \in Labels,
         pc' = Woken([pc EXCEPT ![t] = l])
  PROVE  /\ pc' \in [Threads -> Labels] /\ pc'[t] = l
         /\ \A u \in Threads \ {t, "notifier"} : pc'[u] = pc[u]
         /\ pc'["notifier"] \in {pc["notifier"], "check", "woken"}
         /\ pc'["notifier"] # "blocked"
<1> DEFINE p == [pc EXCEPT ![t] = l]
<1>1. /\ p \in [Threads -> Labels] /\ p[t] = l
      /\ \A u \in Threads \ {t} : p[u] = pc[u]
  OBVIOUS
<1>2. pc' = Woken(p)
  OBVIOUS
<1> HIDE DEF p
<1>3. /\ pc' \in [Threads -> Labels]
      /\ \A u \in Threads \ {"notifier"} : pc'[u] = p[u]
  <2>1. /\ Woken(p) \in [Threads -> Labels]
        /\ \A u \in Threads \ {"notifier"} : Woken(p)[u] = p[u]
    BY <1>1, WokenFacts
  <2> QED BY <1>2, <2>1, Zenon
<1>4. pc'["notifier"] \in {p["notifier"], "check", "woken"} /\ pc'["notifier"] # "blocked"
  BY <1>1, <1>2, WokenFacts
<1> QED BY <1>1, <1>3, <1>4, ThreadFacts

\* A notifier that does not sleep stays where it is.
LEMMA WokenGotoKeeps ==
  ASSUME pc \in [Threads -> Labels], NEW t \in Threads \ {"notifier"}, NEW l \in Labels,
         pc' = Woken([pc EXCEPT ![t] = l])
  PROVE  pc["notifier"] \in {"blocked", "timed"} \/ pc'["notifier"] = pc["notifier"]
<1> DEFINE p == [pc EXCEPT ![t] = l]
<1>1. p \in [Threads -> Labels] /\ p["notifier"] = pc["notifier"]
  BY ThreadFacts
<1>2. pc' = Woken(p)
  OBVIOUS
<1> HIDE DEF p
<1>3. p["notifier"] \notin {"blocked", "timed"} => Woken(p)["notifier"] = p["notifier"]
  BY <1>1, WokenFacts
<1> QED BY <1>1, <1>2, <1>3

\* A connection that is closed owes nothing any more.
LEMMA CloseFacts ==
  ASSUME generation \in Nat, CloseConnection
  PROVE  /\ fd' \in BOOLEAN /\ generation' \in Nat
         /\ owed' \subseteq owed /\ lost' \subseteq lost
<1>1. generation + 1 \in Nat
  OBVIOUS
<1>2. generation' \in {generation, generation + 1}
  BY DEF CloseConnection
<1> QED BY <1>1, <1>2 DEF CloseConnection

\* The connections come and go.
LEMMA NTypeAccept ==
  ASSUME NType, AcceptController \/ ControllerGone \/ AcceptStep
  PROVE  NType'
<1> USE ThreadFacts
<1>1. /\ {running, fd, connected} \subseteq BOOLEAN
      /\ generation \in Nat /\ debounce \in Ticks /\ until \in Ticks
      /\ pending \subseteq Entries /\ due \subseteq Entries
      /\ job \in [Senders -> Jobs] /\ pc \in [Threads -> Labels]
  BY NTypeMeans
<1>2. ASSUME NEW l \in Labels, Goto("accept", l)
      PROVE  /\ pc' \in [Threads -> Labels]
             /\ \A t \in Enqueuers : pc'[t] = pc[t]
  BY <1>1, <1>2, GotoFacts
<1>3. CASE AcceptController \/ AcceptFails
  <2>1. CASE AcceptController
    <3>1. generation' \in Nat /\ fd' \in BOOLEAN /\ Goto("accept", "clear")
      BY <1>1, <2>1 DEF AcceptController
    <3>2. /\ pc' \in [Threads -> Labels]
          /\ \A t \in Enqueuers : pc'[t] = pc[t]
      BY <1>2, <3>1 DEF Labels
    <3> QED BY <1>1, <2>1, <3>1, <3>2, NTypeMove DEF AcceptController
  <2>2. CASE AcceptFails
    BY <1>1, <1>2, <2>2, NTypeMove DEF AcceptFails, Labels
  <2> QED BY <1>3, <2>1, <2>2
<1>4. CASE ClearPending("clear", "tell") \/ ClearPending("forget", "tell-last")
  BY <1>1, <1>2, <1>4, NTypeMove DEF ClearPending, Labels
<1>5. CASE NotifyCleared("tell", "resolve") \/ NotifyCleared("tell-last", "offline")
  <2>1. /\ pc' \in [Threads -> Labels]
        /\ \A t \in Enqueuers : pc'[t] = pc[t]
    <3>1. PICK l \in Labels : pc' = Woken([pc EXCEPT !["accept"] = l])
      BY <1>5 DEF NotifyCleared, Labels
    <3> QED BY <1>1, <3>1, WokenGoto
  <2> QED BY <1>1, <1>5, <2>1, NTypeMove DEF NotifyCleared
<1>6. CASE ResolveDebounce
  BY <1>1, <1>2, <1>6, NormalizeType, NotifyAssumption, NTypeMove
  DEF ResolveDebounce, NotifyAssumption, Labels
<1>7. CASE GoOnline \/ GoOffline
  BY <1>1, <1>2, <1>7, NTypeMove DEF GoOnline, GoOffline, Labels
<1>8. CASE ControllerGone \/ ShutOut
  <2>1. LeaveController /\ "forget" \in Labels
    BY <1>8 DEF ControllerGone, ShutOut, Labels
  <2>2. /\ pc' \in [Threads -> Labels]
        /\ \A t \in Enqueuers : pc'[t] = pc[t]
    BY <1>2, <2>1 DEF LeaveController
  <2>3. /\ fd' \in BOOLEAN /\ generation' \in Nat
        /\ owed' \subseteq owed /\ lost' \subseteq lost
    BY <1>1, <2>1, CloseFacts DEF LeaveController
  <2> QED BY <1>1, <2>1, <2>2, <2>3, NTypeMove DEF LeaveController
<1> QED BY <1>3, <1>4, <1>5, <1>6, <1>7, <1>8 DEF AcceptStep

\* stop() ends them all.
LEMMA NTypeStop == ASSUME NType, StopRunning \/ StopStep PROVE NType'
<1> USE ThreadFacts
<1>1. /\ {running, fd, connected} \subseteq BOOLEAN
      /\ generation \in Nat /\ debounce \in Ticks /\ until \in Ticks
      /\ pc \in [Threads -> Labels]
  BY NTypeMeans
<1>2. ASSUME NEW l \in Labels, Goto("stop", l)
      PROVE  /\ pc' \in [Threads -> Labels]
             /\ \A t \in Enqueuers : pc'[t] = pc[t]
  BY <1>1, <1>2, GotoFacts
<1>3. CASE StopRunning \/ CloseListener \/ JoinAccept
  BY <1>1, <1>2, <1>3, NTypeMove DEF StopRunning, CloseListener, JoinAccept, Labels
<1>4. CASE ShutController
  <2>1. CloseConnection /\ Goto("stop", "join-accept") /\ "join-accept" \in Labels
    BY <1>4 DEF ShutController, Labels
  <2>2. /\ pc' \in [Threads -> Labels]
        /\ \A t \in Enqueuers : pc'[t] = pc[t]
    BY <1>2, <2>1
  <2>3. /\ fd' \in BOOLEAN /\ generation' \in Nat
        /\ owed' \subseteq owed /\ lost' \subseteq lost
    BY <1>1, <2>1, CloseFacts
  <2> QED BY <1>1, <1>4, <2>2, <2>3, NTypeMove DEF ShutController
<1>5. CASE NotifyStop
  <2>1. /\ pc' \in [Threads -> Labels]
        /\ \A t \in Enqueuers : pc'[t] = pc[t]
    <3>1. PICK l \in Labels : pc' = Woken([pc EXCEPT !["stop"] = l])
      BY <1>5 DEF NotifyStop, Labels
    <3> QED BY <1>1, <3>1, WokenGoto
  <2> QED BY <1>1, <1>5, <2>1, NTypeMove DEF NotifyStop
<1>6. CASE JoinNotifier
  BY <1>1, <1>2, <1>6, NTypeMove DEF JoinNotifier, Labels
<1> QED BY <1>3, <1>4, <1>5, <1>6 DEF StopStep

\* Time passes for the entries and the jobs alike.
LEMMA NTypeTick == ASSUME NType, Tick PROVE NType'
<1>1. pending' \subseteq Entries /\ \A e, f \in pending' : e.ws = f.ws => e = f
  <2>1. ASSUME NEW e \in pending
        PROVE  [e EXCEPT !.left = OneLess(@)] \in Entries
    BY NTypeMeans, OneLessType DEF Entries
  <2>2. ASSUME NEW e \in pending
        PROVE  [e EXCEPT !.left = OneLess(@)].ws = e.ws
    BY NTypeMeans DEF Entries
  <2> DEFINE Aged(e) == [e EXCEPT !.left = OneLess(@)]
  <2>3. pending' = {Aged(e) : e \in pending}
    BY DEF Tick
  <2>4. \A e, f \in pending : e.ws = f.ws => e = f
    BY NTypeMeans
  <2>5. \A e \in pending : Aged(e) \in Entries /\ Aged(e).ws = e.ws
    BY <2>1, <2>2
  <2> HIDE DEF Aged
  <2> QED BY <2>3, <2>4, <2>5
<1>2. /\ job' \in [Senders -> Jobs]
      /\ \A t \in Senders : job'[t].ws = job[t].ws
  <2>1. ASSUME NEW t \in Senders
        PROVE  /\ [job[t] EXCEPT !.left = OneLess(@)] \in Jobs
               /\ [job[t] EXCEPT !.left = OneLess(@)].ws = job[t].ws
    BY NTypeMeans, OneLessType DEF Jobs
  <2> QED BY <2>1 DEF Tick
<1>3. Named'
  BY <1>2, ThreadFacts, NTypeMeans DEF Named, Tick
<1>4. until' \in Ticks
  BY OneLessType, NTypeMeans DEF Tick
<1> QED BY <1>1, <1>2, <1>3, <1>4, NTypeMeans, NTypeMeansNext DEF Tick

\* Every step of every thread preserves the types.
LEMMA NTypeStep == NType /\ [NotifyNext]_notifyVars => NType'
<1> SUFFICES ASSUME NType, [NotifyNext]_notifyVars PROVE NType'
  OBVIOUS
<1>1. CASE \E t \in Enqueuers, w \in Workspaces : Change(t, w)
  BY <1>1, NTypeChange
<1>2. CASE \E t \in Enqueuers : EnqueuerStep(t)
  BY <1>2, NTypeEnqueue, NTypePublish, ThreadFacts DEF EnqueuerStep
<1>3. CASE NotifierStep
  BY <1>3, NTypeNotifier, NTypePublish, ThreadFacts DEF NotifierStep
<1>4. CASE AcceptController \/ ControllerGone \/ AcceptStep
  BY <1>4, NTypeAccept
<1>5. CASE StopRunning \/ StopStep
  BY <1>5, NTypeStop
<1>6. CASE Tick
  BY <1>6, NTypeTick
<1>7. CASE UNCHANGED notifyVars
  BY <1>7, NTypeMeans, NTypeMeansNext DEF notifyVars, Named
<1> QED BY <1>1, <1>2, <1>3, <1>4, <1>5, <1>6, <1>7 DEF NotifyNext

\* The types, the program counters and the names of the jobs hold throughout.
THEOREM NTypeHolds == NotifySpec => []NType
  BY NTypeInit, NTypeStep, PTL DEF NotifySpec

\* The debounce time and all deadlines stay within the bounds of the option,
\* whatever it is set to, and a workspace never has two pending deadlines.
THEOREM NotifyTypeCorrect == NotifySpec => []NotifyTypeOK
<1>1. NType => NotifyTypeOK
  BY DEF NType
<1> QED BY <1>1, NTypeHolds, PTL

-----------------------------------------------------------------------------
(* Who moves whom.                                                         *)

\* The steps of an enqueuer move nobody else, but for the notifier that it wakes.
LEMMA EnqueuerFrame ==
  ASSUME NType, NEW t \in Enqueuers,
         (\E w \in Workspaces : Change(t, w)) \/ EnqueuerStep(t)
  PROVE  /\ UNCHANGED <<running, fd, generation, connected, due>>
         /\ \A u \in Threads \ {t, "notifier"} : pc'[u] = pc[u]
         /\ pc'["notifier"] \in {pc["notifier"], "check", "woken"}
         /\ ~Wake(t) => pc'["notifier"] = pc["notifier"]
<1> USE ThreadFacts
<1>1. pc \in [Threads -> Labels]
  BY NTypeMeans
<1>2. CASE Wake(t)
  <2>1. "idle" \in Labels /\ t \in Threads \ {"notifier"}
    BY DEF Labels
  <2> QED BY <1>1, <1>2, <2>1, WokenGoto DEF Wake
<1>3. CASE (\E w \in Workspaces : Change(t, w)) \/ EnqueueDebouncedStateDump(t) \/ Insert(t)
  BY <1>1, <1>3 DEF Change, EnqueueDebouncedStateDump, Insert, Goto
<1>4. CASE ReadConnection(t) \/ BuildDump(t) \/ SendDump(t)
  BY <1>1, <1>4 DEF ReadConnection, BuildDump, SendDump, Goto
<1> QED BY <1>2, <1>3, <1>4 DEF EnqueuerStep

\* The notifier moves itself.
LEMMA NotifierFrame ==
  ASSUME NType, NotifierStep
  PROVE  /\ UNCHANGED <<running, fd, generation, connected>>
         /\ \A u \in Threads \ {"notifier"} : pc'[u] = pc[u]
<1>1. pc \in [Threads -> Labels]
  BY NTypeMeans
<1>2. CASE CheckPending \/ CheckDeadline
  BY <1>1, <1>2 DEF CheckPending, CheckDeadline, WaitOrTake, Finish, Goto
<1>3. CASE Park \/ Arm \/ TimeOut \/ PublishDue
  BY <1>1, <1>3 DEF Park, Arm, TimeOut, PublishDue, Goto
<1>4. CASE BuildDump("notifier") \/ SendDump("notifier")
  BY <1>1, <1>4 DEF BuildDump, SendDump, Goto
<1> QED BY <1>2, <1>3, <1>4 DEF NotifierStep

\* The accept thread moves itself, and wakes the notifier.
LEMMA AcceptFrame ==
  ASSUME NType, AcceptController \/ ControllerGone \/ AcceptStep
  PROVE  /\ UNCHANGED <<running, due, job>>
         /\ pending' \in {pending, {}}
         /\ \A u \in Threads \ {"accept", "notifier"} : pc'[u] = pc[u]
         /\ pc'["notifier"] \in {pc["notifier"], "check", "woken"}
<1> USE ThreadFacts
<1>1. pc \in [Threads -> Labels]
  BY NTypeMeans
<1>2. CASE NotifyCleared("tell", "resolve") \/ NotifyCleared("tell-last", "offline")
  <2>1. PICK l \in Labels : pc' = Woken([pc EXCEPT !["accept"] = l])
    BY <1>2 DEF NotifyCleared, Labels
  <2> QED BY <1>1, <1>2, <2>1, WokenGoto DEF NotifyCleared
<1>3. CASE AcceptController \/ AcceptFails \/ ResolveDebounce \/ GoOnline \/ GoOffline
  BY <1>1, <1>3 DEF AcceptController, AcceptFails, ResolveDebounce, GoOnline, GoOffline, Goto
<1>4. CASE ClearPending("clear", "tell") \/ ClearPending("forget", "tell-last")
  BY <1>1, <1>4 DEF ClearPending, Goto
<1>5. CASE ControllerGone \/ ShutOut
  BY <1>1, <1>5 DEF ControllerGone, ShutOut, LeaveController, Goto
<1> QED BY <1>2, <1>3, <1>4, <1>5 DEF AcceptStep

\* The compositor's thread moves itself, and wakes the notifier.
LEMMA StopFrame ==
  ASSUME NType, StopRunning \/ StopStep
  PROVE  /\ UNCHANGED <<due, job>> /\ (running' => running)
         /\ pending' \in {pending, {}}
         /\ \A u \in Threads \ {"stop", "notifier"} : pc'[u] = pc[u]
         /\ pc'["notifier"] \in {pc["notifier"], "check", "woken"}
<1> USE ThreadFacts
<1>1. pc \in [Threads -> Labels]
  BY NTypeMeans
<1>2. CASE NotifyStop
  <2>1. "join-notifier" \in Labels
    BY DEF Labels
  <2> QED BY <1>1, <1>2, <2>1, WokenGoto DEF NotifyStop
<1>3. CASE StopRunning \/ CloseListener \/ ShutController \/ JoinAccept \/ JoinNotifier
  BY <1>1, <1>3
  DEF StopRunning, CloseListener, ShutController, JoinAccept, JoinNotifier, Goto
<1> QED BY <1>2, <1>3 DEF StopStep

-----------------------------------------------------------------------------
(* The notifier does not sleep through a change.                           *)

\* While it is about to sleep it holds the mutex, and nothing has been inserted.
SInv ==
  /\ NType /\ SleepsOnlyWhenIdle
  /\ At("notifier", "parking") => pending = {}

\* A step that inserts nothing, moves the notifier nowhere near a sleep and takes
\* no thread away from its wake-up.
LEMMA StaysAwake ==
  ASSUME SInv, NType', running' => running, pending = {} => pending' = {},
         pc'["notifier"] \in {"parking", "blocked"} => pc'["notifier"] = pc["notifier"],
         \A t \in Enqueuers : pc[t] = "wake" => pc'[t] = "wake"
  PROVE  SInv'
  BY DEF SInv, SleepsOnlyWhenIdle, At

\* Nothing is pending in the beginning.
LEMMA SInvInit == NotifyInit => SInv
<1> SUFFICES ASSUME NotifyInit PROVE SInv
  OBVIOUS
<1>1. pending = {}
  BY DEF NotifyInit
<1> QED BY <1>1, NTypeInit DEF SInv, SleepsOnlyWhenIdle

\* An entry comes with a thread at its wake-up; the wake-up moves the sleeper.
LEMMA SInvStep == SInv /\ [NotifyNext]_notifyVars => SInv'
<1> SUFFICES ASSUME SInv, [NotifyNext]_notifyVars PROVE SInv'
  OBVIOUS
<1> USE ThreadFacts
<1>1. NType /\ NType' /\ pc \in [Threads -> Labels]
  BY NTypeStep, NTypeMeans DEF SInv
<1>2. ASSUME NEW t \in Enqueuers, (\E w \in Workspaces : Change(t, w)) \/ EnqueuerStep(t)
      PROVE  SInv'
  <2>1. CASE Wake(t)
    <3>1. pc'["notifier"] # "blocked" /\ pending' = pending
      <4>1. "idle" \in Labels /\ t \in Threads \ {"notifier"}
        BY DEF Labels
      <4> QED BY <1>1, <2>1, <4>1, WokenGoto DEF Wake
    <3>2. pc'["notifier"] = "parking" => pc["notifier"] = "parking"
      BY <1>1, <1>2, EnqueuerFrame
    <3> QED BY <1>1, <3>1, <3>2 DEF SInv, SleepsOnlyWhenIdle, At
  <2>2. CASE Insert(t)
    <3>1. pc["notifier"] # "parking" /\ pc'["notifier"] = pc["notifier"]
      BY <1>1, <2>2 DEF Insert, MutexFree, Goto
    <3>2. CASE pc'[t] = "wake"
      BY <1>1, <3>1, <3>2 DEF SInv, SleepsOnlyWhenIdle, At
    <3>3. CASE pending' = pending /\ Goto(t, "idle")
      <4>1. \A u \in Enqueuers : pc[u] = "wake" => pc'[u] = "wake"
        BY <1>1, <2>2, <3>3 DEF Insert, At, Goto
      <4> QED BY <1>1, <2>2, <3>1, <3>3, <4>1, StaysAwake DEF Insert
    <3> QED BY <1>1, <2>2, <3>2, <3>3 DEF Insert, Goto
  <2>3. CASE ~Wake(t) /\ ~Insert(t)
    <3>1. pending' = pending /\ pc[t] # "wake"
      BY <1>2, <2>3
      DEF EnqueuerStep, Change, EnqueueDebouncedStateDump, ReadConnection, BuildDump, SendDump, At
    <3> QED BY <1>1, <1>2, <2>3, <3>1, EnqueuerFrame, StaysAwake
  <2> QED BY <2>1, <2>2, <2>3
<1>3. CASE NotifierStep
  <2>1. /\ running' = running
        /\ \A u \in Threads \ {"notifier"} : pc'[u] = pc[u]
    BY <1>1, <1>3, NotifierFrame
  <2>2. CASE Park
    <3>1. pending' = {}
      BY <2>2 DEF SInv, Park
    <3> QED BY <1>1, <3>1 DEF SInv, SleepsOnlyWhenIdle
  <2>3. CASE CheckPending
    <3>1. \/ pc'["notifier"] \notin {"parking", "blocked"}
          \/ pc'["notifier"] = "parking" /\ pending' = {}
      BY <1>1, <2>3 DEF CheckPending, WaitOrTake, Finish, Goto
    <3> QED BY <1>1, <3>1 DEF SInv, SleepsOnlyWhenIdle, At
  <2>4. CASE CheckDeadline \/ Arm \/ TimeOut
    <3>1. pc'["notifier"] \notin {"parking", "blocked"}
      BY <1>1, <2>4 DEF CheckDeadline, Arm, TimeOut, WaitOrTake, Finish, Goto
    <3> QED BY <1>1, <3>1 DEF SInv, SleepsOnlyWhenIdle, At
  <2>5. CASE PublishDue \/ BuildDump("notifier") \/ SendDump("notifier")
    <3>1. pc'["notifier"] \notin {"parking", "blocked"}
      BY <1>1, <2>5 DEF PublishDue, BuildDump, SendDump, Goto, At
    <3> QED BY <1>1, <3>1 DEF SInv, SleepsOnlyWhenIdle, At
  <2> QED BY <1>3, <2>2, <2>3, <2>4, <2>5 DEF NotifierStep
<1>4. CASE AcceptController \/ ControllerGone \/ AcceptStep
  BY <1>1, <1>4, AcceptFrame, StaysAwake
<1>5. CASE StopRunning \/ StopStep
  BY <1>1, <1>5, StopFrame, StaysAwake
<1>6. CASE Tick
  <2>1. running' = running /\ pc' = pc /\ (pending = {} => pending' = {})
    BY <1>6 DEF Tick
  <2> QED BY <1>1, <2>1, StaysAwake
<1>7. CASE UNCHANGED notifyVars
  <2>1. running' = running /\ pc' = pc /\ pending' = pending
    BY <1>7 DEF notifyVars
  <2> QED BY <1>1, <2>1, StaysAwake
<1> QED BY <1>2, <1>3, <1>4, <1>5, <1>6, <1>7 DEF NotifyNext

\* With any number of workspaces, changes and connections, state_notify_cv_'s
\* sleep without a deadline is never entered past an entry that nobody announces.
THEOREM SleepsOnlyWhenIdleHolds == NotifySpec => []SleepsOnlyWhenIdle
<1>1. SInv => SleepsOnlyWhenIdle
  BY DEF SInv
<1> QED BY <1>1, SInvInit, SInvStep, PTL DEF NotifySpec

-----------------------------------------------------------------------------
(* The connection, as the manager and the descriptor see it.               *)

Gone == {"forget", "tell-last", "offline"}
ShutDown == {"join-accept", "notify", "join-notifier", "stopped"}

\* A change is owed, or lost, only to a connection that both know of; the manager knows of
\* one only from GoOnline to GoOffline; a connection that was closed is not open
\* before the next accept().
ConnInv ==
  /\ owed # {} \/ lost # {} => fd /\ connected
  /\ connected => pc["accept"] \in {"serving", "leave"} \cup Gone
  /\ pc["accept"] \in Gone => ~fd
  /\ pc["stop"] \in ShutDown => ~fd

CInv == NType /\ ConnInv

\* Nobody is connected in the beginning.
LEMMA CInvInit == NotifyInit => CInv
<1> SUFFICES ASSUME NotifyInit PROVE CInv
  OBVIOUS
<1>1. NType
  BY NTypeInit
<1>2. pc["accept"] = "accepting" /\ pc["stop"] = "up"
  BY ThreadFacts DEF NotifyInit
<1> QED BY <1>1, <1>2 DEF NotifyInit, CInv, ConnInv, Gone, ShutDown

\* A step of an enqueuer, of the notifier or of time: the connection is what it
\* was, and what is owed is owed to it.
LEMMA ConnKept ==
  ASSUME ConnInv, UNCHANGED <<fd, connected>>,
         owed' # {} \/ lost' # {} => owed # {} \/ lost # {} \/ (fd /\ connected),
         pc'["accept"] = pc["accept"], pc'["stop"] = pc["stop"]
  PROVE  ConnInv'
  BY DEF ConnInv

\* What changes the debts.
LEMMA OwedSteps ==
  ASSUME \/ \E t \in Enqueuers : (\E w \in Workspaces : Change(t, w)) \/ EnqueuerStep(t)
         \/ NotifierStep
  PROVE  \/ UNCHANGED <<owed, lost>>
         \/ \E w \in Workspaces : Established /\ owed' = owed \cup {w} /\ lost' = lost
         \/ \E w \in owed : owed' = owed \ {w} /\ lost' \in {lost, lost \cup {w}}
<1>1. ASSUME NEW t \in Enqueuers, NEW w \in Workspaces, Change(t, w)
      PROVE  lost' = lost /\ (owed' = owed \/ (Established /\ owed' = owed \cup {w}))
  BY <1>1 DEF Change
<1>2. ASSUME NEW t \in Senders, SendDump(t)
      PROVE  lost' = lost /\ (owed' = owed \/ \E w \in owed : owed' = owed \ {w})
  <2>1. lost' = lost /\ (owed' = owed \/ owed' = owed \ {job[t].ws})
    BY <1>2 DEF SendDump
  <2>2. CASE job[t].ws \in owed
    BY <2>1, <2>2
  <2>3. CASE job[t].ws \notin owed
    BY <2>1, <2>3
  <2> QED BY <2>2, <2>3
<1>3. ASSUME NEW t \in Enqueuers, Insert(t)
      PROVE  \/ UNCHANGED <<owed, lost>>
             \/ \E w \in owed : owed' = owed \ {w} /\ lost' = lost \cup {w}
  BY <1>3, NotesLostFacts DEF Insert
<1>4. ASSUME NEW t \in Enqueuers, EnqueuerStep(t), ~SendDump(t), ~Insert(t)
      PROVE  UNCHANGED <<owed, lost>>
  BY <1>4 DEF EnqueuerStep, EnqueueDebouncedStateDump, Wake, ReadConnection, BuildDump
<1>5. ASSUME NotifierStep, ~SendDump("notifier")
      PROVE  UNCHANGED <<owed, lost>>
  BY <1>5 DEF NotifierStep, CheckPending, Park, CheckDeadline, Arm, TimeOut, PublishDue, BuildDump
<1> QED BY <1>1, <1>2, <1>3, <1>4, <1>5, ThreadFacts

\* The end of a clean-up: the accept thread, and maybe the notifier, move.
LEMMA ClearedFacts ==
  ASSUME pc \in [Threads -> Labels], NEW label \in Labels, NEW next \in Labels,
         ClearPending(label, next) \/ NotifyCleared(label, next)
  PROVE  /\ pc["accept"] = label /\ pc'["accept"] = next
         /\ UNCHANGED <<fd, generation, owed, lost, connected>>
         /\ pc["notifier"] \in {"blocked", "timed"} \/ pc'["notifier"] = pc["notifier"]
<1>1. CASE ClearPending(label, next)
  BY <1>1, ThreadFacts DEF ClearPending, At, Goto
<1>2. CASE NotifyCleared(label, next)
  <2>1. pc' = Woken([pc EXCEPT !["accept"] = next]) /\ "accept" \in Threads \ {"notifier"}
    BY <1>2, ThreadFacts DEF NotifyCleared
  <2>2. pc'["accept"] = next
    BY <2>1, WokenGoto
  <2>3. pc["notifier"] \in {"blocked", "timed"} \/ pc'["notifier"] = pc["notifier"]
    BY <2>1, WokenGotoKeeps
  <2> QED BY <1>2, <2>2, <2>3 DEF NotifyCleared, At
<1> QED BY <1>1, <1>2

\* One step of one thread.
LEMMA CInvStep == CInv /\ [NotifyNext]_notifyVars => CInv'
<1> SUFFICES ASSUME CInv, [NotifyNext]_notifyVars PROVE CInv'
  OBVIOUS
<1> USE ThreadFacts
<1>1. NType /\ NType' /\ ConnInv /\ pc \in [Threads -> Labels]
  BY NTypeStep, NTypeMeans DEF CInv
<1> SUFFICES ConnInv'
  BY <1>1 DEF CInv
<1>2. ASSUME NEW t \in Enqueuers, (\E w \in Workspaces : Change(t, w)) \/ EnqueuerStep(t)
      PROVE  ConnInv'
  <2>1. UNCHANGED <<fd, connected>> /\ pc'["accept"] = pc["accept"] /\ pc'["stop"] = pc["stop"]
    BY <1>1, <1>2, EnqueuerFrame
  <2>2. owed' # {} \/ lost' # {} => owed # {} \/ lost # {} \/ (fd /\ connected)
    BY <1>2, OwedSteps DEF Established
  <2> QED BY <1>1, <2>1, <2>2, ConnKept
<1>3. CASE NotifierStep
  <2>1. UNCHANGED <<fd, connected>> /\ pc'["accept"] = pc["accept"] /\ pc'["stop"] = pc["stop"]
    BY <1>1, <1>3, NotifierFrame
  <2>2. owed' # {} \/ lost' # {} => owed # {} \/ lost # {} \/ (fd /\ connected)
    BY <1>3, OwedSteps DEF Established
  <2> QED BY <1>1, <2>1, <2>2, ConnKept
<1>4. CASE AcceptController \/ ControllerGone \/ AcceptStep
  <2>1. pc'["stop"] = pc["stop"]
    BY <1>1, <1>4, AcceptFrame
  <2>2. CASE AcceptController
    <3>1. pc["accept"] = "accepting" /\ pc'["accept"] = "clear" /\ pc["stop"] \notin ShutDown
      BY <1>1, <2>2 DEF AcceptController, At, Goto, ShutDown
    <3>2. ~connected /\ owed = {} /\ lost = {}
      BY <1>1, <3>1 DEF ConnInv, Gone
    <3> QED BY <2>1, <2>2, <3>1, <3>2 DEF AcceptController, ConnInv, Gone
  <2>3. CASE ControllerGone \/ ShutOut
    <3>1. fd' = FALSE /\ owed' = {} /\ lost' = {} /\ pc'["accept"] = "forget" /\ connected' = connected
      BY <1>1, <2>3
      DEF ControllerGone, ShutOut, LeaveController, CloseConnection, Goto
    <3> QED BY <3>1 DEF ConnInv, Gone
  <2>4. CASE GoOnline
    <3>1. /\ pc["accept"] = "online" /\ pc'["accept"] \in {"serving", "leave"}
          /\ UNCHANGED <<fd, owed, lost>>
      BY <1>1, <2>4 DEF GoOnline, At, Goto
    <3>2. owed = {} /\ lost = {}
      BY <1>1, <3>1 DEF ConnInv, Gone
    <3> QED BY <1>1, <2>1, <3>1, <3>2 DEF ConnInv, Gone
  <2>5. CASE GoOffline
    <3>1. /\ pc["accept"] = "offline" /\ pc'["accept"] \in {"accepting", "done"}
          /\ UNCHANGED <<fd, owed, lost>> /\ connected' = FALSE
      BY <1>1, <2>5 DEF GoOffline, At, Goto
    <3>2. ~fd /\ owed = {} /\ lost = {}
      BY <1>1, <3>1 DEF ConnInv, Gone
    <3> QED BY <3>1, <3>2 DEF ConnInv, Gone
  <2>6. CASE ClearPending("forget", "tell-last") \/ NotifyCleared("tell-last", "offline")
    <3>1. /\ pc["accept"] \in Gone /\ pc'["accept"] \in Gone
          /\ UNCHANGED <<fd, owed, lost, connected>>
      BY <1>1, <2>6, ClearedFacts DEF Gone, Labels
    <3> QED BY <1>1, <2>1, <3>1 DEF ConnInv
  <2>7. CASE ClearPending("clear", "tell") \/ NotifyCleared("tell", "resolve")
    <3>1. /\ pc["accept"] \notin Gone /\ pc'["accept"] \notin Gone
          /\ pc["accept"] \notin {"serving", "leave"}
          /\ UNCHANGED <<fd, owed, lost, connected>>
      BY <1>1, <2>7, ClearedFacts DEF Gone, Labels
    <3> QED BY <1>1, <2>1, <3>1 DEF ConnInv
  <2>8. CASE AcceptFails \/ ResolveDebounce
    <3>1. /\ pc["accept"] \in {"accepting", "resolve"}
          /\ pc'["accept"] \in {"done", "online"}
          /\ UNCHANGED <<fd, owed, lost, connected>>
      BY <1>1, <2>8 DEF AcceptFails, ResolveDebounce, At, Goto
    <3> QED BY <1>1, <2>1, <3>1 DEF ConnInv, Gone
  <2> QED BY <1>4, <2>2, <2>3, <2>4, <2>5, <2>6, <2>7, <2>8 DEF AcceptStep
<1>5. CASE StopRunning \/ StopStep
  <2>1. pc'["accept"] = pc["accept"]
    BY <1>1, <1>5, StopFrame
  <2>2. CASE ShutController
    BY <1>1, <2>1, <2>2 DEF ShutController, CloseConnection, ConnInv
  <2>3. CASE StopRunning \/ CloseListener
    <3>1. pc'["stop"] \in {"listening", "controller"} /\ UNCHANGED <<fd, owed, lost, connected>>
      BY <1>1, <2>3 DEF StopRunning, CloseListener, Goto
    <3> QED BY <1>1, <2>1, <3>1 DEF ConnInv, ShutDown
  <2>4. CASE JoinAccept \/ NotifyStop
    <3>1. pc["stop"] \in ShutDown /\ UNCHANGED <<fd, owed, lost, connected>>
      BY <1>1, <2>4 DEF JoinAccept, NotifyStop, At, ShutDown
    <3> QED BY <1>1, <2>1, <3>1 DEF ConnInv
  <2>5. CASE JoinNotifier
    <3>1. pc["stop"] \in ShutDown /\ UNCHANGED <<fd, owed, lost>> /\ connected' = FALSE
      BY <1>1, <2>5 DEF JoinNotifier, At, ShutDown
    <3> QED BY <1>1, <2>1, <3>1 DEF ConnInv
  <2> QED BY <1>5, <2>2, <2>3, <2>4, <2>5 DEF StopStep
<1>6. CASE Tick \/ UNCHANGED notifyVars
  <2>1. UNCHANGED <<fd, connected, owed, lost, pc>>
    BY <1>6 DEF Tick, notifyVars
  <2> QED BY <1>1, <2>1, ConnKept
<1> QED BY <1>2, <1>3, <1>4, <1>5, <1>6 DEF NotifyNext

\* The two views of the connection agree throughout.
THEOREM CInvHolds == NotifySpec => []CInv
  BY CInvInit, CInvStep, PTL DEF NotifySpec

-----------------------------------------------------------------------------
(* The safety part of ReportsEveryChange.                                  *)

\* The steps of StateReporting, written out.
LEMMA ReportingSteps ==
  ASSUME owed \subseteq Workspaces,
         \/ (Established' <=> Established) /\ UNCHANGED <<owed, lost>>
         \/ ~Established /\ Established' /\ UNCHANGED <<owed, lost>>
         \/ Established /\ ~Established' /\ owed' = {} /\ lost' = {}
         \/ /\ Established /\ Established'
            /\ \E w \in Workspaces : owed' = owed \cup {w} /\ lost' = lost
         \/ /\ Established /\ Established'
            /\ \E w \in owed : owed' = owed \ {w} /\ lost' \in {lost, lost \cup {w}}
  PROVE  [Reporting!Next]_(Reporting!vars)
<1> DEFINE o == Established
<1>1. o \in BOOLEAN /\ o' \in BOOLEAN
  BY DEF Established
<1> HIDE DEF o
<1>2. CASE (o' <=> o) /\ UNCHANGED <<owed, lost>>
  BY <1>1, <1>2 DEF Reporting!vars, o
<1>3. CASE ~o /\ o' /\ UNCHANGED <<owed, lost>>
  BY <1>1, <1>3 DEF Reporting!Next, Reporting!Open, o
<1>4. CASE o /\ ~o' /\ owed' = {} /\ lost' = {}
  BY <1>1, <1>4 DEF Reporting!Next, Reporting!Close, o
<1>5. CASE o /\ o' /\ \E w \in Workspaces : owed' = owed \cup {w} /\ lost' = lost
  BY <1>1, <1>5 DEF Reporting!Next, Reporting!Change, o
<1>6. CASE o /\ o' /\ \E w \in owed : owed' = owed \ {w} /\ lost' = lost
  BY <1>1, <1>6 DEF Reporting!Next, Reporting!Report, o
<1>7. CASE o /\ o' /\ \E w \in owed : owed' = owed \ {w} /\ lost' = lost \cup {w}
  BY <1>1, <1>7 DEF Reporting!Next, Reporting!Lose, o
<1> QED BY <1>2, <1>3, <1>4, <1>5, <1>6, <1>7 DEF o

\* Every step opens, closes, changes, reports, loses, or does nothing that a controller sees.
LEMMA ReportingStep ==
  CInv /\ [NotifyNext]_notifyVars => [Reporting!Next]_(Reporting!vars)
<1> SUFFICES ASSUME CInv, [NotifyNext]_notifyVars PROVE [Reporting!Next]_(Reporting!vars)
  OBVIOUS
<1> USE ThreadFacts
<1>1. NType /\ ConnInv /\ pc \in [Threads -> Labels] /\ owed \subseteq Workspaces
  BY NTypeMeans DEF CInv
<1>2. ASSUME NEW t \in Enqueuers, (\E w \in Workspaces : Change(t, w)) \/ EnqueuerStep(t)
      PROVE  [Reporting!Next]_(Reporting!vars)
  <2>1. Established' <=> Established
    BY <1>1, <1>2, EnqueuerFrame DEF Established
  <2>2. owed # {} \/ lost # {} => Established
    BY <1>1 DEF ConnInv, Established
  <2> QED BY <1>1, <1>2, <2>1, <2>2, OwedSteps, ReportingSteps
<1>3. CASE NotifierStep
  <2>1. Established' <=> Established
    BY <1>1, <1>3, NotifierFrame DEF Established
  <2>2. owed # {} \/ lost # {} => Established
    BY <1>1 DEF ConnInv, Established
  <2> QED BY <1>1, <1>3, <2>1, <2>2, OwedSteps, ReportingSteps
<1>4. CASE AcceptController
  <2>1. pc["accept"] = "accepting"
    BY <1>4 DEF AcceptController, At
  <2>2. ~Established /\ ~Established' /\ UNCHANGED <<owed, lost>>
    BY <1>1, <1>4, <2>1 DEF AcceptController, ConnInv, Gone, Established
  <2> QED BY <1>1, <2>2, ReportingSteps
<1>5. CASE ControllerGone \/ ShutOut \/ ShutController
  <2>1. CloseConnection
    BY <1>5 DEF ControllerGone, ShutOut, LeaveController, ShutController
  <2>2. ~Established' /\ owed' = {} /\ lost' = {}
    BY <2>1 DEF CloseConnection, Established
  <2>3. ~Established => owed = {} /\ lost = {}
    BY <1>1 DEF ConnInv, Established
  <2> QED BY <1>1, <2>2, <2>3, ReportingSteps
<1>6. CASE GoOnline
  <2>1. UNCHANGED <<owed, lost, fd>> /\ connected'
    BY <1>6 DEF GoOnline
  <2>2. Established => Established'
    BY <2>1 DEF Established
  <2> QED BY <1>1, <2>1, <2>2, ReportingSteps
<1>7. CASE GoOffline \/ JoinNotifier
  <2>1. UNCHANGED <<fd, owed, lost>>
    BY <1>7 DEF GoOffline, JoinNotifier
  <2>2. ~fd
    BY <1>1, <1>7 DEF GoOffline, JoinNotifier, ConnInv, Gone, ShutDown, At
  <2> QED BY <1>1, <2>1, <2>2, ReportingSteps DEF Established
<1>8. CASE \/ ClearPending("clear", "tell") \/ NotifyCleared("tell", "resolve")
           \/ ClearPending("forget", "tell-last") \/ NotifyCleared("tell-last", "offline")
           \/ AcceptFails \/ ResolveDebounce
           \/ StopRunning \/ CloseListener \/ JoinAccept \/ NotifyStop
           \/ Tick \/ UNCHANGED notifyVars
  <2>1. UNCHANGED <<fd, connected, owed, lost>>
    BY <1>8 DEF ClearPending, NotifyCleared, AcceptFails, ResolveDebounce, StopRunning,
                CloseListener, JoinAccept, NotifyStop, Tick, notifyVars
  <2> QED BY <1>1, <2>1, ReportingSteps DEF Established
<1> QED BY <1>2, <1>3, <1>4, <1>5, <1>6, <1>7, <1>8 DEF NotifyNext, AcceptStep, StopStep

\* Whatever the threads do, what a controller sees is a connection as StateReporting
\* describes it: nothing is owed to it before it is established, a dump or a loss
\* settles one change, and what was owed or lost ends with the connection.
THEOREM ImplementsReporting ==
  NotifySpec => Reporting!Init /\ [][Reporting!Next]_(Reporting!vars)
<1>1. NotifyInit => Reporting!Init
  BY DEF NotifyInit, Reporting!Init, Established
<1> QED BY <1>1, CInvInit, CInvStep, ReportingStep, PTL DEF NotifySpec

-----------------------------------------------------------------------------
(* Nothing is forgotten unnoticed.                                         *)

\* The notifier has nothing in hand when it looks for what is due.
GInv == due # {} => pc["notifier"] \in {"publish", "build", "send"}

LInv == CInv /\ GInv /\ NothingLost

\* Carried, in two parts: by a thread, and by an entry.
ByThread(u, w) ==
  /\ job[u].ws = w
  /\ \/ u \in Enqueuers /\ pc[u] \in {"publish", "read"}
     \/ /\ job[u].gen = generation
        /\ \/ u \in Enqueuers /\ pc[u] = "insert"
           \/ pc[u] = "build"
           \/ pc[u] = "send" /\ job[u].covers

ByEntry(w) == \E e \in pending \cup due : e.ws = w /\ e.gen = generation

\* A change is with a thread or in an entry.
LEMMA CarriedMeans ==
  ASSUME NEW w
  PROVE  /\ Carried(w) <=> ByEntry(w) \/ \E u \in Senders : ByThread(u, w)
         /\ Carried(w)' <=> ByEntry(w)' \/ \E u \in Senders : ByThread(u, w)'
  BY ThreadFacts DEF Carried, ByThread, ByEntry, At

\* What a thread carries stays with it in a step of another one.
LEMMA ThreadKept ==
  ASSUME NEW u \in Senders, NEW w, generation' = generation,
         job'[u] = job[u], pc'[u] = pc[u], ByThread(u, w)
  PROVE  ByThread(u, w)'
  BY DEF ByThread

\* A step of the same connection that takes no entry leaves what entries carry.
LEMMA EntryKept ==
  ASSUME NEW w, generation' = generation, pending \cup due \subseteq pending' \cup due',
         ByEntry(w)
  PROVE  ByEntry(w)'
  BY DEF ByEntry

\* What the steps of all threads start from.
LEMMA LInvFacts ==
  ASSUME LInv
  PROVE  /\ NType /\ ConnInv /\ GInv /\ pc \in [Threads -> Labels]
         /\ job \in [Senders -> Jobs] /\ generation \in Nat
         /\ pending \subseteq Entries /\ due \subseteq Entries
         /\ owed # {} => fd /\ connected
         /\ running => \A w \in owed : ByEntry(w) \/ \E u \in Senders : ByThread(u, w)
  BY CarriedMeans, NTypeMeans DEF LInv, CInv, ConnInv, NothingLost

\* A step after which nothing is owed, or the server is stopping.
LEMMA OwesNothing == ASSUME running' => owed' = {} PROVE NothingLost'
  BY DEF NothingLost

\* A step that adds no debt: what carried one still does, or hands it on.
LEMMA StillCarried ==
  ASSUME LInv, running' => running, owed' \subseteq owed,
         \A w \in owed' : ByEntry(w) => Carried(w)',
         \A w \in owed' : \A u \in Senders : ByThread(u, w) => Carried(w)'
  PROVE  NothingLost'
<1> SUFFICES ASSUME running', NEW w \in owed' PROVE Carried(w)'
  BY DEF NothingLost
<1> QED BY LInvFacts

\* The same for a step of one sender in the same connection; asleep, the notifier
\* carries nothing.
LEMMA OneSenderActs ==
  ASSUME LInv, NEW t \in Senders, running' => running, owed' \subseteq owed,
         generation' = generation,
         \A u \in Senders \ {t} :
           /\ job'[u] = job[u]
           /\ pc'[u] = pc[u] \/ pc[u] \in {"blocked", "timed"},
         \A w \in owed' : ByEntry(w) => Carried(w)',
         \A w \in owed' : ByThread(t, w) => Carried(w)'
  PROVE  NothingLost'
<1>1. ASSUME NEW w \in owed', NEW u \in Senders, ByThread(u, w)
      PROVE  Carried(w)'
  <2>1. CASE u = t
    BY <1>1, <2>1
  <2>2. CASE u # t
    <3>1. pc'[u] = pc[u] /\ job'[u] = job[u]
      BY <1>1, <2>2 DEF ByThread
    <3> QED BY <1>1, <3>1, ThreadKept, CarriedMeans
  <2> QED BY <2>1, <2>2
<1> QED BY <1>1, StillCarried

\* In the beginning nothing is owed.
LEMMA LInvInit == NotifyInit => LInv
<1> SUFFICES ASSUME NotifyInit PROVE LInv
  OBVIOUS
<1>1. CInv
  BY CInvInit
<1>2. due = {} /\ owed = {}
  BY DEF NotifyInit
<1> QED BY <1>1, <1>2 DEF LInv, GInv, NothingLost

\* The steps of an enqueuer leave the notifier its work.
LEMMA GInvEnqueuer ==
  ASSUME LInv, NEW t \in Enqueuers, (\E w \in Workspaces : Change(t, w)) \/ EnqueuerStep(t)
  PROVE  GInv'
<1>1. due' = due /\ (~Wake(t) => pc'["notifier"] = pc["notifier"])
  BY LInvFacts, EnqueuerFrame
<1>2. CASE ~Wake(t)
  BY <1>1, <1>2, LInvFacts DEF GInv
<1>3. CASE Wake(t)
  <2>1. /\ pc' = Woken([pc EXCEPT ![t] = "idle"]) /\ "idle" \in Labels
        /\ t \in Threads \ {"notifier"} /\ pc \in [Threads -> Labels]
    BY <1>3, LInvFacts, ThreadFacts DEF Wake, Labels
  <2>2. pc["notifier"] \in {"blocked", "timed"} \/ pc'["notifier"] = pc["notifier"]
    BY <2>1, WokenGotoKeeps
  <2> QED BY <1>1, <2>2, LInvFacts DEF GInv
<1> QED BY <1>2, <1>3

\* A change is in the hands of the thread that made it.
LEMMA LInvChange ==
  ASSUME LInv, NEW t \in Enqueuers, NEW w \in Workspaces, Change(t, w)
  PROVE  NothingLost'
<1> USE ThreadFacts
<1>1. /\ pc[t] = "idle" /\ pc'[t] = "publish" /\ t \in Senders
      /\ \A u \in Senders \ {t} : pc'[u] = pc[u]
      /\ job'[t].ws = w
      /\ UNCHANGED <<running, generation, pending, due>>
  BY LInvFacts DEF Change, At, Goto, Job
<1>2. \/ owed' = {w}
      \/ owed' = owed /\ \A u \in Senders \ {t} : job'[u] = job[u]
  BY DEF Change
<1>3. CASE owed' = {w}
  <2>1. ByThread(t, w)'
    BY <1>1 DEF ByThread
  <2> QED BY <1>1, <1>3, <2>1, CarriedMeans DEF NothingLost
<1>4. CASE owed' = owed /\ \A u \in Senders \ {t} : job'[u] = job[u]
  <2>1. \A v : ~ByThread(t, v)
    BY <1>1 DEF ByThread
  <2>2. \A v : ByEntry(v) => Carried(v)'
    BY <1>1, EntryKept, CarriedMeans
  <2> QED BY <1>1, <1>4, <2>1, <2>2, OneSenderActs
<1> QED BY <1>2, <1>3, <1>4

\* It enqueues the change, unless there is nobody to tell.
LEMMA LInvEnqueue ==
  ASSUME LInv, NEW t \in Enqueuers, EnqueueDebouncedStateDump(t)
  PROVE  NothingLost'
<1> USE ThreadFacts
<1>1. /\ UNCHANGED <<running, fd, generation, pending, due, owed>>
      /\ pc[t] = "publish" /\ t \in Senders
      /\ \A u \in Senders \ {t} : pc'[u] = pc[u] /\ job'[u] = job[u]
  BY LInvFacts DEF EnqueueDebouncedStateDump, Drop, Goto, At
<1>2. \/ ~running \/ ~fd
      \/ pc'[t] = "read" /\ job'[t].ws = job[t].ws
      \/ pc'[t] = "insert" /\ job'[t].ws = job[t].ws /\ job'[t].gen = generation
  BY LInvFacts DEF EnqueueDebouncedStateDump, Goto, Job
<1>3. CASE ~running \/ ~fd
  BY <1>1, <1>3, LInvFacts, OwesNothing
<1>4. CASE \/ pc'[t] = "read" /\ job'[t].ws = job[t].ws
           \/ pc'[t] = "insert" /\ job'[t].ws = job[t].ws /\ job'[t].gen = generation
  <2>1. \A v : ByThread(t, v) => ByThread(t, v)'
    BY <1>1, <1>4 DEF ByThread
  <2>2. \A v : ByThread(t, v) => Carried(v)'
    BY <1>1, <2>1, CarriedMeans
  <2>3. \A v : ByEntry(v) => Carried(v)'
    BY <1>1, EntryKept, CarriedMeans
  <2> QED BY <1>1, <2>2, <2>3, OneSenderActs
<1> QED BY <1>2, <1>3, <1>4

\* An entry of its workspace that it finds is for its own connection, or for
\* another one, which is over unless it is late itself: NotesLost's case.
LEMMA LInvInsert ==
  ASSUME LInv, NEW t \in Enqueuers, Insert(t)
  PROVE  NothingLost'
<1> USE ThreadFacts
<1> DEFINE j == job[t]
<1> DEFINE new == Entry(j.ws, j.gen, j.left)
<1>1. /\ UNCHANGED <<running, generation, due>>
      /\ pc[t] = "insert" /\ t \in Senders /\ NotesLost(t)
      /\ \A u \in Senders \ {t} : pc'[u] = pc[u] /\ job'[u] = job[u]
  BY LInvFacts DEF Insert, Drop, Goto, At
<1>2. /\ owed' \subseteq owed
      /\ \A v \in owed' : v = j.ws /\ Supplants(t) => Carried(v)'
  BY <1>1, NotesLostFacts
<1>3. \/ (\E e \in pending : e.ws = j.ws /\ e.gen = j.gen) /\ pending' = pending
      \/ pending' = {e \in pending : e.ws # j.ws} \cup {new}
  BY DEF Insert
<1>4. new.ws = j.ws /\ new.gen = j.gen
  BY DEF Entry
<1> HIDE DEF new
<1>5. ASSUME NEW v \in owed', ByThread(t, v) PROVE Carried(v)'
  <2>1. j.ws = v /\ j.gen = generation
    BY <1>1, <1>5 DEF ByThread
  <2>2. ByEntry(v)'
    BY <1>1, <1>3, <1>4, <2>1 DEF ByEntry
  <2> QED BY <2>2, CarriedMeans
<1>6. ASSUME NEW v \in owed', ByEntry(v) PROVE Carried(v)'
  <2>1. PICK e \in pending \cup due : e.ws = v /\ e.gen = generation
    BY <1>6 DEF ByEntry
  <2>2. CASE e \in due \/ e \in pending'
    <3>1. ByEntry(v)'
      BY <1>1, <2>1, <2>2 DEF ByEntry
    <3> QED BY <3>1, CarriedMeans
  <2>3. CASE e \in pending /\ e \notin pending' /\ j.gen = generation
    <3>1. e.ws = j.ws
      BY <1>3, <2>3
    <3>2. ByEntry(v)'
      BY <1>1, <1>3, <1>4, <2>1, <2>3, <3>1 DEF ByEntry
    <3> QED BY <3>2, CarriedMeans
  <2>4. CASE e \in pending /\ e \notin pending' /\ j.gen # generation
    <3>1. v = j.ws /\ Supplants(t)
      BY <1>3, <2>1, <2>4 DEF Supplants
    <3> QED BY <1>2, <3>1
  <2> QED BY <2>1, <2>2, <2>3, <2>4
<1> QED BY <1>1, <1>2, <1>5, <1>6, OneSenderActs

\* It wakes the notifier, and has nothing in hand.
LEMMA LInvWake == ASSUME LInv, NEW t \in Enqueuers, Wake(t) PROVE NothingLost'
<1> USE ThreadFacts
<1>1. /\ UNCHANGED <<running, generation, pending, due, job, owed>>
      /\ pc[t] = "wake" /\ t \in Senders
  BY DEF Wake, At
<1>2. /\ pc' = Woken([pc EXCEPT ![t] = "idle"]) /\ "idle" \in Labels
      /\ t \in Threads \ {"notifier"} /\ pc \in [Threads -> Labels]
  BY LInvFacts DEF Wake, Labels
<1>3. /\ \A u \in Threads \ {t, "notifier"} : pc'[u] = pc[u]
      /\ pc["notifier"] \in {"blocked", "timed"} \/ pc'["notifier"] = pc["notifier"]
  BY <1>2, WokenGoto, WokenGotoKeeps
<1>4. \A u \in Senders \ {t} :
        job'[u] = job[u] /\ (pc'[u] = pc[u] \/ pc[u] \in {"blocked", "timed"})
  BY <1>1, <1>3
<1>5. \A v : ~ByThread(t, v)
  BY <1>1 DEF ByThread
<1>6. \A v : ByEntry(v) => Carried(v)'
  BY <1>1, EntryKept, CarriedMeans
<1> QED BY <1>1, <1>4, <1>5, <1>6, OneSenderActs

\* Without a debounce time the thread that made the change sends the dump itself.
LEMMA LInvReadConnection ==
  ASSUME LInv, NEW t \in Enqueuers, ReadConnection(t)
  PROVE  NothingLost'
<1> USE ThreadFacts
<1>1. /\ UNCHANGED <<running, fd, generation, pending, due, owed>>
      /\ pc[t] = "read" /\ t \in Senders
      /\ \A u \in Senders \ {t} : pc'[u] = pc[u] /\ job'[u] = job[u]
  BY LInvFacts DEF ReadConnection, At, Goto, Drop
<1>2. CASE ~running \/ ~fd
  BY <1>1, <1>2, LInvFacts, OwesNothing
<1>3. CASE running /\ fd
  <2>1. pc'[t] = "build" /\ job'[t].ws = job[t].ws /\ job'[t].gen = generation
    BY <1>3, LInvFacts DEF ReadConnection, Goto, Jobs
  <2>2. \A v : ByThread(t, v) => ByThread(t, v)'
    BY <1>1, <2>1 DEF ByThread
  <2>3. \A v : ByThread(t, v) => Carried(v)'
    BY <1>1, <2>2, CarriedMeans
  <2>4. \A v : ByEntry(v) => Carried(v)'
    BY <1>1, EntryKept, CarriedMeans
  <2> QED BY <1>1, <2>3, <2>4, OneSenderActs
<1> QED BY <1>2, <1>3

\* The dump that is built shows what its thread carries.
LEMMA LInvBuild == ASSUME LInv, NEW t \in Senders, BuildDump(t) PROVE NothingLost'
<1> USE ThreadFacts
<1> DEFINE c == job[t].covers \/ job[t].ws \in owed
<1>1. /\ UNCHANGED <<running, generation, pending, due, owed>>
      /\ pc[t] = "build" /\ pc'[t] = "send"
      /\ \A u \in Senders \ {t} : pc'[u] = pc[u] /\ job'[u] = job[u]
  BY LInvFacts DEF BuildDump, At, Goto
<1>2. job'[t].ws = job[t].ws /\ job'[t].gen = job[t].gen /\ job'[t].covers = c
  BY LInvFacts DEF BuildDump, Jobs
<1>3. ASSUME NEW v \in owed', ByThread(t, v) PROVE Carried(v)'
  <2>1. job[t].ws = v /\ job[t].gen = generation /\ job'[t].covers
    BY <1>1, <1>2, <1>3 DEF ByThread
  <2>2. ByThread(t, v)'
    BY <1>1, <1>2, <2>1 DEF ByThread
  <2> QED BY <2>2, CarriedMeans
<1>4. \A v : ByEntry(v) => Carried(v)'
  BY <1>1, EntryKept, CarriedMeans
<1> QED BY <1>1, <1>3, <1>4, OneSenderActs

\* The dump that is sent settles what its thread carried; what another one carries
\* is not settled by it.
LEMMA LInvSend == ASSUME LInv, NEW t \in Senders, SendDump(t) PROVE NothingLost'
<1> USE ThreadFacts
<1>1. /\ UNCHANGED <<running, generation, pending, due>>
      /\ pc[t] = "send" /\ owed' \subseteq owed
      /\ \A u \in Senders \ {t} : pc'[u] = pc[u] /\ job'[u] = job[u]
      /\ fd /\ job[t].covers /\ job[t].gen = generation => owed' = owed \ {job[t].ws}
  BY LInvFacts DEF SendDump, At, Goto, Drop
<1>2. ASSUME NEW v \in owed' PROVE ~ByThread(t, v)
  <2>1. fd
    BY <1>1, <1>2, LInvFacts
  <2> QED BY <1>1, <1>2, <2>1 DEF ByThread
<1>3. \A v : ByEntry(v) => Carried(v)'
  BY <1>1, EntryKept, CarriedMeans
<1> QED BY <1>1, <1>2, <1>3, OneSenderActs

\* The notifier has more to do after a dump.
LEMMA GInvPublish ==
  ASSUME LInv, BuildDump("notifier") \/ SendDump("notifier")
  PROVE  GInv'
  BY LInvFacts, ThreadFacts DEF BuildDump, SendDump, Goto, GInv

\* The notifier takes over what is due, and drops only what is for another
\* connection.
LEMMA LInvNotifier ==
  ASSUME LInv, CheckPending \/ Park \/ CheckDeadline \/ Arm \/ TimeOut \/ PublishDue
  PROVE  GInv' /\ NothingLost'
<1> USE ThreadFacts
<1>1. /\ UNCHANGED <<running, fd, generation, owed>>
      /\ \A u \in Senders \ {"notifier"} : pc'[u] = pc[u]
  <2>1. NType /\ NotifierStep
    BY LInvFacts DEF NotifierStep
  <2>2. owed' = owed
    BY DEF CheckPending, Park, CheckDeadline, Arm, TimeOut, PublishDue
  <2> QED BY <2>1, <2>2, NotifierFrame
<1>2. ASSUME job' = job, pending' \cup due' = pending \cup due,
             due' # {} => pc'["notifier"] \in {"publish", "build", "send"},
             pc["notifier"] \notin {"build", "send"}
      PROVE  GInv' /\ NothingLost'
  <2>1. GInv'
    BY <1>2 DEF GInv
  <2>2. \A v : ~ByThread("notifier", v)
    BY <1>2 DEF ByThread
  <2>3. \A v : ByEntry(v) => Carried(v)'
    BY <1>1, <1>2, EntryKept, CarriedMeans
  <2>4. \A u \in Senders \ {"notifier"} : job'[u] = job[u]
    BY <1>2
  <2> QED BY <1>1, <2>1, <2>2, <2>3, <2>4, OneSenderActs
<1>3. ASSUME NEW left, WaitOrTake(left), job' = job, pc["notifier"] \in {"check", "woken"}
      PROVE  GInv' /\ NothingLost'
  <2>1. due = {}
    BY <1>3, LInvFacts DEF GInv
  <2>2. CASE UNCHANGED <<pending, due>>
    BY <1>2, <1>3, <2>1, <2>2
  <2>3. CASE /\ due' = {e \in pending : e.left = 0} /\ pending' = pending \ due'
             /\ Goto("notifier", "publish")
    <3>1. pc'["notifier"] = "publish"
      BY <2>3, LInvFacts DEF Goto
    <3>2. pending' \cup due' = pending \cup due
      BY <2>1, <2>3
    <3> QED BY <1>2, <1>3, <3>1, <3>2
  <2> QED BY <1>3, <2>2, <2>3 DEF WaitOrTake
<1>4. CASE CheckPending \/ CheckDeadline
  <2>1. pc["notifier"] \in {"check", "woken"} /\ job' = job
    BY <1>4 DEF CheckPending, CheckDeadline, At
  <2>2. (\E left : WaitOrTake(left)) \/ UNCHANGED <<pending, due>>
    BY <1>4 DEF CheckPending, CheckDeadline
  <2>3. due = {}
    BY <2>1, LInvFacts DEF GInv
  <2> QED BY <1>2, <1>3, <2>1, <2>2, <2>3
<1>5. CASE Park \/ Arm \/ TimeOut
  <2>1. pc["notifier"] \in {"parking", "arming", "timed"} /\ UNCHANGED <<pending, due, job>>
    BY <1>5 DEF Park, Arm, TimeOut, At
  <2>2. due = {}
    BY <2>1, LInvFacts DEF GInv
  <2> QED BY <1>2, <2>1, <2>2
<1>6. CASE PublishDue
  <2>1. pc["notifier"] = "publish" /\ pending' = pending
    BY <1>6 DEF PublishDue, At
  <2>2. \A v : ~ByThread("notifier", v)
    BY <2>1 DEF ByThread
  <2>3. CASE due = {} /\ UNCHANGED <<due, job>>
    BY <1>2, <2>1, <2>3
  <2>4. ASSUME NEW e \in due, due' = due \ {e}, UNCHANGED <<job, pc>>,
               ~(running /\ fd /\ e.gen = generation)
        PROVE  GInv' /\ NothingLost'
    <3>1. GInv'
      BY <2>1, <2>4 DEF GInv
    <3>2. CASE ~running \/ ~fd
      BY <1>1, <3>1, <3>2, LInvFacts, OwesNothing
    <3>3. CASE running /\ fd
      <4>1. e.gen # generation
        BY <2>4, <3>3
      <4>2. \A v : ByEntry(v) => ByEntry(v)'
        BY <1>1, <2>1, <2>4, <4>1 DEF ByEntry
      <4>3. \A v : ByEntry(v) => Carried(v)'
        BY <4>2, CarriedMeans
      <4> QED BY <1>1, <2>2, <2>4, <3>1, <4>3, OneSenderActs
    <3> QED BY <3>2, <3>3, LInvFacts DEF ConnInv, NType, NotifyTypeOK
  <2>5. ASSUME NEW e \in due, due' = due \ {e}, e.gen = generation, Goto("notifier", "build"),
               job' = [job EXCEPT !["notifier"] = Job(e.ws, e.gen, 0, FALSE)]
        PROVE  GInv' /\ NothingLost'
    <3>1. /\ pc'["notifier"] = "build"
          /\ \A u \in Senders \ {"notifier"} : job'[u] = job[u]
          /\ job'["notifier"].ws = e.ws /\ job'["notifier"].gen = generation
      BY <2>5, LInvFacts DEF Goto, Job
    <3>2. GInv'
      BY <3>1 DEF GInv
    <3>3. \A v : ByEntry(v) => ByEntry(v)' \/ ByThread("notifier", v)'
      BY <1>1, <2>1, <2>5, <3>1 DEF ByEntry, ByThread
    <3>4. \A v : ByEntry(v) => Carried(v)'
      BY <3>3, CarriedMeans
    <3> QED BY <1>1, <2>2, <3>1, <3>2, <3>4, OneSenderActs
  <2> QED BY <1>6, <2>3, <2>4, <2>5 DEF PublishDue
<1> QED BY <1>4, <1>5, <1>6

\* A step that takes no entry and moves no thread that carries anything.
LEMMA NothingMoved ==
  ASSUME LInv, running' => running,
         UNCHANGED <<generation, job, owed>>, pending \cup due \subseteq pending' \cup due',
         \A u \in Senders : pc'[u] = pc[u]
  PROVE  NothingLost'
<1>1. \A w : ByEntry(w) => Carried(w)'
  BY EntryKept, CarriedMeans
<1>2. \A u \in Senders : \A w : ByThread(u, w) => Carried(w)'
  BY ThreadKept, CarriedMeans
<1> QED BY <1>1, <1>2, StillCarried

\* While accept_loop is not serving, nothing is owed to anybody; when it leaves a
\* controller, nothing is owed to it any more.
LEMMA LInvAccept ==
  ASSUME LInv, AcceptController \/ ControllerGone \/ AcceptStep
  PROVE  GInv' /\ NothingLost'
<1>1. UNCHANGED <<running, due, job>>
  BY LInvFacts, AcceptFrame
<1>2. pc["accept"] \notin {"serving", "leave"} => owed = {}
  BY LInvFacts DEF ConnInv, Gone
<1>3. ASSUME owed' = {},
             pc["notifier"] \in {"blocked", "timed"} \/ pc'["notifier"] = pc["notifier"]
      PROVE  GInv' /\ NothingLost'
  <2>1. GInv'
    BY <1>1, <1>3, LInvFacts DEF GInv
  <2> QED BY <1>3, <2>1, OwesNothing
<1>4. CASE AcceptController \/ AcceptFails \/ ResolveDebounce \/ GoOnline \/ GoOffline
  <2>1. pc["accept"] \in {"accepting", "resolve", "online", "offline"} /\ owed' = owed
    BY <1>4 DEF AcceptController, AcceptFails, ResolveDebounce, GoOnline, GoOffline, At
  <2>2. pc'["notifier"] = pc["notifier"]
    BY <1>4, LInvFacts, ThreadFacts
    DEF AcceptController, AcceptFails, ResolveDebounce, GoOnline, GoOffline, Goto
  <2> QED BY <1>2, <1>3, <2>1, <2>2
<1>5. CASE ControllerGone \/ ShutOut
  <2>1. CloseConnection /\ Goto("accept", "forget")
    BY <1>5 DEF ControllerGone, ShutOut, LeaveController
  <2>2. owed' = {}
    BY <2>1 DEF CloseConnection
  <2>3. pc'["notifier"] = pc["notifier"]
    BY <2>1, LInvFacts, ThreadFacts DEF Goto
  <2> QED BY <1>3, <2>2, <2>3
<1>6. ASSUME NEW label \in Labels \ {"serving", "leave"}, NEW next \in Labels,
             ClearPending(label, next) \/ NotifyCleared(label, next)
      PROVE  GInv' /\ NothingLost'
  BY <1>2, <1>3, <1>6, LInvFacts, ClearedFacts
<1>7. /\ {"clear", "tell", "forget", "tell-last"} \subseteq Labels \ {"serving", "leave"}
      /\ {"tell", "resolve", "tell-last", "offline"} \subseteq Labels
  BY DEF Labels
<1> QED BY <1>4, <1>5, <1>6, <1>7 DEF AcceptStep

\* stop() leaves nobody to whom anything would be owed.
LEMMA LInvStop ==
  ASSUME LInv, StopRunning \/ StopStep
  PROVE  GInv' /\ NothingLost'
<1> USE ThreadFacts
<1>1. UNCHANGED <<due, job>>
  BY LInvFacts, StopFrame
<1>2. ASSUME running' => owed' = {},
             pc["notifier"] \in {"blocked", "timed"} \/ pc'["notifier"] = pc["notifier"]
      PROVE  GInv' /\ NothingLost'
  <2>1. GInv'
    BY <1>1, <1>2, LInvFacts DEF GInv
  <2> QED BY <1>2, <2>1, OwesNothing
<1>3. CASE StopRunning
  <2>1. ~running' /\ pc'["notifier"] = pc["notifier"]
    BY <1>3, LInvFacts DEF StopRunning, Goto
  <2> QED BY <1>2, <2>1
<1>4. CASE CloseListener
  <2>1. /\ UNCHANGED <<running, generation, pending, due, job, owed>>
        /\ \A u \in Senders : pc'[u] = pc[u]
    BY <1>4, LInvFacts DEF CloseListener, Goto
  <2>2. GInv'
    BY <2>1, LInvFacts DEF GInv
  <2> QED BY <2>1, <2>2, NothingMoved
<1>5. CASE ShutController
  <2>1. owed' = {} /\ pc'["notifier"] = pc["notifier"]
    BY <1>5, LInvFacts DEF ShutController, CloseConnection, Goto
  <2> QED BY <1>2, <2>1
<1>6. CASE JoinAccept \/ NotifyStop \/ JoinNotifier
  <2>1. pc["stop"] \in ShutDown /\ owed' = owed
    BY <1>6 DEF JoinAccept, NotifyStop, JoinNotifier, At, ShutDown
  <2>2. owed' = {}
    BY <2>1, LInvFacts DEF ConnInv
  <2>3. pc["notifier"] \in {"blocked", "timed"} \/ pc'["notifier"] = pc["notifier"]
    <3>1. CASE NotifyStop
      <4>1. /\ pc' = Woken([pc EXCEPT !["stop"] = "join-notifier"])
            /\ "join-notifier" \in Labels /\ "stop" \in Threads \ {"notifier"}
            /\ pc \in [Threads -> Labels]
        BY <3>1, LInvFacts DEF NotifyStop, Labels
      <4> QED BY <4>1, WokenGotoKeeps
    <3>2. CASE JoinAccept \/ JoinNotifier
      BY <3>2, LInvFacts DEF JoinAccept, JoinNotifier, Goto
    <3> QED BY <1>6, <3>1, <3>2
  <2> QED BY <1>2, <2>2, <2>3
<1> QED BY <1>3, <1>4, <1>5, <1>6 DEF StopStep

\* Time changes no entry's workspace or generation.
LEMMA LInvTick == ASSUME LInv, Tick PROVE GInv' /\ NothingLost'
<1> DEFINE Aged(e) == [e EXCEPT !.left = OneLess(@)]
<1>1. /\ UNCHANGED <<running, generation, due, pc, owed>>
      /\ pending' = {Aged(e) : e \in pending}
  BY DEF Tick
<1>2. \A e \in pending : Aged(e).ws = e.ws /\ Aged(e).gen = e.gen
  BY LInvFacts DEF Entries
<1>3. \A t \in Senders :
        /\ job'[t].ws = job[t].ws /\ job'[t].gen = job[t].gen
        /\ job'[t].covers = job[t].covers
  <2>1. ASSUME NEW t \in Senders
        PROVE  job[t] \in Jobs /\ job'[t] = [job[t] EXCEPT !.left = OneLess(@)]
    BY LInvFacts DEF Tick
  <2> QED BY <2>1 DEF Jobs
<1> HIDE DEF Aged
<1>4. GInv'
  BY <1>1, LInvFacts DEF GInv
<1>5. \A v : ByEntry(v) => ByEntry(v)'
  BY <1>1, <1>2 DEF ByEntry
<1>6. \A u \in Senders : \A v : ByThread(u, v) => ByThread(u, v)'
  BY <1>1, <1>3 DEF ByThread
<1>7. \A v : ByEntry(v) => Carried(v)'
  BY <1>5, CarriedMeans
<1>8. \A u \in Senders : \A v : ByThread(u, v) => Carried(v)'
  BY <1>6, CarriedMeans
<1> QED BY <1>1, <1>4, <1>7, <1>8, StillCarried

\* One step of one thread.
LEMMA LInvStep == LInv /\ [NotifyNext]_notifyVars => LInv'
<1> SUFFICES ASSUME LInv, [NotifyNext]_notifyVars PROVE LInv'
  OBVIOUS
<1> USE ThreadFacts
<1>1. CInv'
  BY CInvStep DEF LInv
<1> SUFFICES GInv' /\ NothingLost'
  BY <1>1 DEF LInv
<1>2. CASE \E t \in Enqueuers, w \in Workspaces : Change(t, w)
  BY <1>2, LInvChange, GInvEnqueuer
<1>3. ASSUME NEW t \in Enqueuers, EnqueuerStep(t) PROVE GInv' /\ NothingLost'
  <2>1. GInv'
    BY <1>3, GInvEnqueuer
  <2>2. NothingLost'
    BY <1>3, LInvEnqueue, LInvInsert, LInvWake, LInvReadConnection, LInvBuild, LInvSend
    DEF EnqueuerStep
  <2> QED BY <2>1, <2>2
<1>4. CASE NotifierStep
  BY <1>4, LInvNotifier, LInvBuild, LInvSend, GInvPublish DEF NotifierStep
<1>5. CASE AcceptController \/ ControllerGone \/ AcceptStep
  BY <1>5, LInvAccept
<1>6. CASE StopRunning \/ StopStep
  BY <1>6, LInvStop
<1>7. CASE Tick
  BY <1>7, LInvTick
<1>8. CASE UNCHANGED notifyVars
  <2>1. UNCHANGED <<running, generation, pending, due, job, pc, owed>>
    BY <1>8 DEF notifyVars
  <2>2. GInv'
    BY <2>1, LInvFacts DEF GInv
  <2> QED BY <2>1, <2>2, NothingMoved
<1> QED BY <1>2, <1>3, <1>4, <1>5, <1>6, <1>7, <1>8 DEF NotifyNext

\* With both enqueuers, and any number of workspaces, connections and debounce
\* times, a change is forgotten only where a late entry of another thread supplants
\* its own: the two clean-ups of accept_loop and the generation check of
\* publish_state_dump_now only ever drop what is owed to nobody.
THEOREM NothingIsLost == NotifySpec => []NothingLost
<1>1. LInv => NothingLost
  BY DEF LInv
<1> QED BY <1>1, LInvInit, LInvStep, PTL DEF NotifySpec
=============================================================================
