------------------------ MODULE ManagedSessionProofs ------------------------
(***************************************************************************)
(* What holds of every session, whatever the threads, the user and failing *)
(* dispatches do: types, that the two threads use the manager as its own   *)
(* specification expects, and that native surfaces are left alone.         *)
(*                                                                         *)
(* The invariant is TInv: the manager's own, IInv, the kinds that titles   *)
(* can classify to, and the types of the windows, the events, the          *)
(* applier's map and the threads' lists, whose calls that hide are about   *)
(* plain windows only.                                                     *)
(***************************************************************************)
EXTENDS ManagedSession, WorkspaceManagerProofs, SequenceTheorems, FiniteSetTheorems

-----------------------------------------------------------------------------
(* Lists of calls.                                                         *)

\* The first call of a list, and the others.
LEMMA HeadInRange ==
  ASSUME NEW S, NEW s \in Seq(S), s # <<>>
  PROVE  /\ Head(s) \in S /\ Tail(s) \in Seq(S)
         /\ Range(s) = {Head(s)} \cup Range(Tail(s))
<1>1. /\ Len(s) \in Nat \ {0} /\ DOMAIN s = 1 .. Len(s)
      /\ Tail(s) \in Seq(S) /\ Head(s) \in S
      /\ Len(Tail(s)) = Len(s) - 1
      /\ \A i \in 1 .. Len(Tail(s)) : Tail(s)[i] = s[i + 1]
  BY EmptySeq, LenProperties, HeadTailProperties
<1>2. Head(s) = s[1]
  BY <1>1
<1>3. DOMAIN Tail(s) = 1 .. (Len(s) - 1)
  BY <1>1, LenProperties
<1>4. ASSUME NEW x \in Range(s) PROVE x \in {Head(s)} \cup Range(Tail(s))
  <2>1. PICK i \in 1 .. Len(s) : x = s[i]
    BY <1>1 DEF Range
  <2>2. CASE i = 1
    BY <2>1, <2>2, <1>2
  <2>3. CASE i # 1
    <3>1. i - 1 \in 1 .. (Len(s) - 1) /\ Tail(s)[i - 1] = s[i]
      BY <1>1, <2>1, <2>3
    <3> QED BY <1>3, <2>1, <3>1 DEF Range
  <2> QED BY <2>2, <2>3
<1>5. ASSUME NEW x \in Range(Tail(s)) PROVE x \in Range(s)
  <2>1. PICK i \in 1 .. (Len(s) - 1) : x = Tail(s)[i]
    BY <1>3 DEF Range
  <2>2. i + 1 \in 1 .. Len(s) /\ x = s[i + 1]
    BY <1>1, <2>1
  <2> QED BY <1>1, <2>2 DEF Range
<1>6. Head(s) \in Range(s)
  <2>1. 1 \in 1 .. Len(s)
    BY <1>1
  <2> QED BY <1>1, <1>2, <2>1 DEF Range
<1> QED BY <1>1, <1>4, <1>5, <1>6

\* What is in a short list.
LEMMA RangeOfShort ==
  /\ Range(<<>>) = {}
  /\ \A x : Range(<<x>>) = {x}
  /\ \A x, y : Range(<<x, y>>) = {x, y}
  BY DEF Range

\* What a list that is put in front adds.
LEMMA PutInFront ==
  ASSUME NEW S, NEW s \in Seq(S), NEW r \in Seq(S)
  PROVE  /\ s \o r \in Seq(S)
         /\ Range(s \o r) = Range(s) \cup Range(r)
         /\ s = <<>> => s \o r = r
         /\ r = <<>> => s \o r = s
         /\ s # <<>> => /\ s \o r # <<>>
                        /\ Head(s \o r) = Head(s)
                        /\ Tail(s \o r) = Tail(s) \o r
<1>1. s \o r \in Seq(S) /\ Range(s \o r) = Range(s) \cup Range(r)
  BY ConcatProperties, RangeConcatenation
<1>2. (s = <<>> => s \o r = r) /\ (r = <<>> => s \o r = s)
  BY ConcatEmptySeq
<1>3. ASSUME s # <<>>
      PROVE  /\ s \o r # <<>>
             /\ Head(s \o r) = Head(s)
             /\ Tail(s \o r) = Tail(s) \o r
  <2>1. /\ Len(s) \in Nat \ {0} /\ Len(r) \in Nat
        /\ Len(s \o r) = Len(s) + Len(r)
        /\ \A i \in 1 .. Len(s) + Len(r) :
             (s \o r)[i] = IF i <= Len(s) THEN s[i] ELSE r[i - Len(s)]
    BY <1>3, EmptySeq, LenProperties, ConcatProperties
  <2>2. s \o r # <<>>
    BY <1>3, ConcatEqualIffEmpty
  <2>3. Head(s \o r) = Head(s)
    <3>1. Head(s \o r) = (s \o r)[1] /\ Head(s) = s[1]
      BY <1>1, <1>3, <2>2
    <3> QED BY <2>1, <3>1
  <2>4. Tail(s \o r) = Tail(s) \o r
    <3>1. /\ Tail(s) \in Seq(S) /\ Len(Tail(s)) = Len(s) - 1
          /\ \A i \in 1 .. Len(Tail(s)) : Tail(s)[i] = s[i + 1]
      BY <1>3, HeadTailProperties
    <3>2. /\ Tail(s \o r) \in Seq(S) /\ Len(Tail(s \o r)) = Len(s \o r) - 1
          /\ \A i \in 1 .. Len(Tail(s \o r)) : Tail(s \o r)[i] = (s \o r)[i + 1]
      BY <1>1, <2>2, HeadTailProperties
    <3>3. /\ Tail(s) \o r \in Seq(S)
          /\ Len(Tail(s) \o r) = Len(s) - 1 + Len(r)
          /\ \A i \in 1 .. Len(s) - 1 + Len(r) :
               (Tail(s) \o r)[i] = IF i <= Len(s) - 1 THEN Tail(s)[i] ELSE r[i - (Len(s) - 1)]
      BY <3>1, ConcatProperties
    <3>4. Len(Tail(s \o r)) = Len(Tail(s) \o r)
      BY <2>1, <3>2, <3>3
    <3>5. ASSUME NEW i \in 1 .. Len(Tail(s \o r))
          PROVE  Tail(s \o r)[i] = (Tail(s) \o r)[i]
      <4>1. i \in 1 .. Len(s) - 1 + Len(r) /\ i + 1 \in 1 .. Len(s) + Len(r)
        BY <2>1, <3>2
      <4>2. CASE i <= Len(s) - 1
        BY <2>1, <3>1, <3>2, <3>3, <4>1, <4>2
      <4>3. CASE ~(i <= Len(s) - 1)
        <5>1. i + 1 - Len(s) = i - (Len(s) - 1) /\ ~(i + 1 <= Len(s))
          BY <2>1, <4>1, <4>3
        <5> QED BY <3>2, <3>3, <2>1, <4>1, <4>3, <5>1
      <4> QED BY <4>2, <4>3
    <3> QED BY <3>2, <3>3, <3>4, <3>5, SeqEqual
  <2> QED BY <2>2, <2>3, <2>4
<1> QED BY <1>1, <1>2, <1>3

\* Lists of a few calls.
LEMMA ShortLists ==
  ASSUME NEW C
  PROVE  /\ <<>> \in Seq(C)
         /\ \A x \in C : <<x>> \in Seq(C)
         /\ \A x, y \in C : <<x, y>> \in Seq(C)
         /\ \A s, r \in Seq(C) : s \o r \in Seq(C)
  BY EmptySeq, ConcatProperties

\* Lists of one call and of two.
LEMMA ShortListParts ==
  /\ \A z : Head(<<z>>) = z /\ Tail(<<z>>) = <<>>
  /\ \A x, z : <<x>> \o <<z>> = <<x, z>>
<1>1. ASSUME NEW z PROVE Head(<<z>>) = z /\ Tail(<<z>>) = <<>>
  OBVIOUS
<1>2. ASSUME NEW x, NEW z PROVE <<x>> \o <<z>> = <<x, z>>
  <2> DEFINE S == {x, z}
             s == <<x>> \o <<z>>
  <2>1. <<x>> \in Seq(S) /\ <<z>> \in Seq(S) /\ <<x, z>> \in Seq(S)
    BY ShortLists
  <2>2. s \in Seq(S) /\ Len(s) = 2 /\ s[1] = x /\ s[2] = z
    <3>1. Len(<<x>>) = 1 /\ Len(<<z>>) = 1 /\ <<x>>[1] = x /\ <<z>>[1] = z
      OBVIOUS
    <3> HIDE DEF S
    <3> QED BY <2>1, <3>1, ConcatProperties
  <2>3. Len(<<x, z>>) = 2 /\ <<x, z>>[1] = x /\ <<x, z>>[2] = z
    OBVIOUS
  <2> HIDE DEF S, s
  <2>4. Len(s) = Len(<<x, z>>) /\ \A i \in 1 .. Len(s) : s[i] = <<x, z>>[i]
    BY <2>2, <2>3
  <2>5. s = <<x, z>>
    BY <2>1, <2>2, <2>4, SeqEqual
  <2> QED BY <2>5 DEF s
<1> QED BY <1>1, <1>2

\* What is in a list with one more call in front.
LEMMA RangeInFront ==
  ASSUME NEW S, NEW x \in S, NEW s \in Seq(S)
  PROVE  Range(<<x>> \o s) = {x} \cup Range(s)
<1>1. <<x>> \in Seq(S)
  BY ShortLists
<1>2. Range(<<x>> \o s) = Range(<<x>>) \cup Range(s)
  BY <1>1, RangeConcatenation, Zenon
<1> QED BY <1>2, RangeOfShort

\* A list with a call at its end.
LEMMA LastCall ==
  ASSUME NEW S, NEW s \in Seq(S), NEW z \in S
  PROVE  /\ s \o <<z>> # <<>> /\ s \o <<z>> \in Seq(S)
         /\ s = <<>> => s \o <<z>> = <<z>>
         /\ s # <<>> => /\ Head(s \o <<z>>) = Head(s) /\ Head(s) \in S
                        /\ Tail(s \o <<z>>) = Tail(s) \o <<z>> /\ Tail(s) \in Seq(S)
         /\ \A r \in Seq(S) : r \o (s \o <<z>>) = (r \o s) \o <<z>>
<1>1. <<z>> \in Seq(S) /\ <<z>> # <<>>
  BY ShortLists
<1>2. s = <<>> => s \o <<z>> = <<z>>
  BY <1>1, ConcatEmptySeq
<1>3. s # <<>> => Head(s) \in S /\ Tail(s) \in Seq(S)
  BY HeadInRange
<1>4. s # <<>> => /\ Head(s \o <<z>>) = Head(s) /\ s \o <<z>> # <<>>
                  /\ Tail(s \o <<z>>) = Tail(s) \o <<z>>
  BY <1>1, PutInFront
<1>5. \A r \in Seq(S) : r \o (s \o <<z>>) = (r \o s) \o <<z>>
  BY <1>1, ConcatAssociative
<1> QED BY <1>1, <1>2, <1>3, <1>4, <1>5, ShortLists

\* One call for each window of a set.
LEMMA ForEachFacts ==
  ASSUME NEW S \in SUBSET Clients, NEW op, NEW w
  PROVE  /\ \A x : x \in Range(ForEach(S, op, w)) <=> \E c \in S : x = Call(op, c, w)
         /\ \A C : (\A c \in S : Call(op, c, w) \in C) => ForEach(S, op, w) \in Seq(C)
<1> DEFINE cs == SetToSeq(S)
           all == ForEach(S, op, w)
<1>1. IsFiniteSet(S)
  BY FiniteAssumption, FS_Subset
<1>2. Cardinality(S) \in Nat /\ ExistsBijection(1 .. Cardinality(S), S)
  BY <1>1, FS_CardinalityType
<1>3. PICK f \in [1 .. Cardinality(S) -> S] : IsInjective(f)
  BY <1>2 DEF ExistsBijection, Bijection, Injection
<1>4. cs \in [1 .. Cardinality(S) -> S] /\ IsInjective(cs)
  BY <1>3 DEF SetToSeq
<1>5. Range(cs) = S
  <2>1. Cardinality(1 .. Cardinality(S)) = Cardinality(S)
    BY <1>2, FS_Interval
  <2>2. cs \in Injection(1 .. Cardinality(S), S)
    BY <1>4 DEF Injection
  <2>3. cs \in Surjection(1 .. Cardinality(S), S)
    BY <1>1, <2>1, <2>2, FS_Injection
  <2> QED BY <1>4, <2>3 DEF Surjection, Range
<1> HIDE DEF cs
<1>6. Len(cs) = Cardinality(S)
  BY <1>2, <1>4
<1>7. all = [i \in 1 .. Cardinality(S) |-> Call(op, cs[i], w)]
  BY <1>6 DEF ForEach, cs
<1> HIDE DEF all
<1>8. \A x : x \in Range(all) <=> \E c \in S : x = Call(op, c, w)
  BY <1>4, <1>5, <1>7 DEF Range
<1>9. ASSUME NEW C, \A c \in S : Call(op, c, w) \in C PROVE all \in Seq(C)
  BY <1>2, <1>4, <1>7, <1>9
<1> QED BY <1>8, <1>9 DEF all

-----------------------------------------------------------------------------
(* What kinds of windows the registry can know.                            *)

\* Every window is known as one of the kinds it can take.
KindsIn(reg) == \A c \in Clients : Known(reg, c) => reg.client[c].kind \in KindsOf[c]

\* The windows that can ever be managed.
Plain == {c \in Clients : "plain" \in KindsOf[c]}

\* Each method of the registry.
LEMMA KindsOfMethods ==
  ASSUME NEW reg \in Registry, KindsIn(reg), NEW c \in Clients
  PROVE  /\ \A w, k : k \in KindsOf[c] => KindsIn(UpsertOpen(reg, c, w, k))
         /\ KindsIn(Erase(reg, c))
         /\ \A w : KindsIn(UpdateWorkspace(reg, c, w))
         /\ \A k : k \in KindsOf[c] => KindsIn(UpdateTitle(reg, c, k))
         /\ \A f : KindsIn(SetFloating(reg, c, f))
         /\ KindsIn(SetFocus(reg, c))
<1>1. ASSUME NEW w, NEW k \in KindsOf[c] PROVE KindsIn(UpsertOpen(reg, c, w, k))
  BY <1>1 DEF KindsIn, Known, UpsertOpen, Registry
<1>2. KindsIn(Erase(reg, c))
  BY DEF KindsIn, Known, Erase, Registry
<1>3. ASSUME NEW w PROVE KindsIn(UpdateWorkspace(reg, c, w))
  BY RecordOfClient DEF KindsIn, Known, UpdateWorkspace, Registry, ClientRecord
<1>4. ASSUME NEW k \in KindsOf[c] PROVE KindsIn(UpdateTitle(reg, c, k))
  BY <1>4, RecordOfClient DEF KindsIn, Known, UpdateTitle, Registry, ClientRecord
<1>5. ASSUME NEW f PROVE KindsIn(SetFloating(reg, c, f))
  BY RecordOfClient DEF KindsIn, Known, SetFloating, Registry, ClientRecord
<1>6. KindsIn(SetFocus(reg, c))
  BY DEF KindsIn, Known, SetFocus, Registry
<1> QED BY <1>1, <1>2, <1>3, <1>4, <1>5, <1>6

\* A change of managed flags and floating states.
LEMMA KindsKept ==
  ASSUME NEW reg \in Registry, KindsIn(reg)
  PROVE  /\ \A w : KindsIn(ReconcileManagement(reg, w))
         /\ \A c \in Clients, f \in Answers : KindsIn(Queried(reg, c, f))
<1>1. ASSUME NEW r \in Registry, KindsIn(r), NEW w PROVE KindsIn(ReconcileManagement(r, w))
  <2> DEFINE out == ReconcileManagement(r, w)
  <2> SUFFICES ASSUME NEW c \in Clients, Known(out, c)
               PROVE  out.client[c].kind \in KindsOf[c]
    BY DEF KindsIn
  <2>1. out.client[c] = IF Known(r, c)
                        THEN [r.client[c] EXCEPT !.managed = ShouldManage(r.client[c], w)]
                        ELSE None
    BY DEF ReconcileManagement
  <2> HIDE DEF out
  <2>2. Known(r, c)
    BY <2>1 DEF Known
  <2> QED BY <1>1, <2>1, <2>2, RecordOfClient DEF ClientRecord, KindsIn
<1>2. ASSUME NEW c \in Clients, NEW f \in Answers PROVE KindsIn(Queried(reg, c, f))
  <2> DEFINE floated == SetFloating(reg, c, f)
  <2>1. CASE QueryApplies(reg, c, f) /\ ~IgnoresFloat(layout, overlayPending, c, f)
    <3>1. f \in BOOLEAN
      BY <2>1 DEF QueryApplies, Answers
    <3>2. floated \in Registry /\ KindsIn(floated)
      BY <3>1, SetFloatingType, KindsOfMethods
    <3>3. Queried(reg, c, f) = ReconcileManagement(floated, managedWs)
      BY <2>1 DEF Queried
    <3> HIDE DEF floated
    <3> QED BY <1>1, <3>2, <3>3
  <2>2. CASE ~(QueryApplies(reg, c, f) /\ ~IgnoresFloat(layout, overlayPending, c, f))
    BY <2>2 DEF Queried
  <2> QED BY <2>1, <2>2
<1> QED BY <1>1, <1>2

\* What the compositor answers changes the floating state only.
LEMMA KindsRefreshed ==
  ASSUME NEW reg \in Registry, KindsIn(reg), NEW S \in SUBSET Clients, NEW mw,
         NEW answers \in [Clients -> Answers],
         \A c \in S : Known(reg, c) /\ answers[c] # None
  PROVE  KindsIn(RefreshRegistry(reg, S, answers, mw))
<1> DEFINE new == [c \in Clients |->
                     IF c \in S THEN [reg.client[c] EXCEPT !.floating = answers[c]]
                     ELSE reg.client[c]]
           changed == [reg EXCEPT !.client = new]
<1>1. CASE S = {}
  BY <1>1 DEF RefreshRegistry
<1>2. CASE S # {}
  <2>1. ASSUME NEW c \in S
        PROVE  /\ [reg.client[c] EXCEPT !.floating = answers[c]] \in ClientRecord
               /\ [reg.client[c] EXCEPT !.floating = answers[c]].kind = reg.client[c].kind
    <3>1. answers[c] \in BOOLEAN
      BY DEF Answers
    <3> QED BY <3>1, RecordOfClient DEF ClientRecord
  <2>2. /\ new \in [Clients -> Maybe(ClientRecord)]
        /\ \A c \in Clients : new[c] # None =>
             reg.client[c] # None /\ new[c].kind = reg.client[c].kind
    BY <2>1 DEF Registry, Maybe, Known
  <2> HIDE DEF new
  <2>3. changed \in Registry /\ changed.client = new
    BY <2>2 DEF Registry
  <2>4. KindsIn(changed)
    BY <2>2, <2>3 DEF KindsIn, Known
  <2>5. RefreshRegistry(reg, S, answers, mw) = ReconcileManagement(changed, mw)
    BY <1>2 DEF RefreshRegistry, new
  <2> HIDE DEF changed
  <2> QED BY <2>3, <2>4, <2>5, KindsKept
<1> QED BY <1>1, <1>2

\* Every event of the compositor.
LEMMA KindsAfterEvent ==
  ASSUME registry \in Registry, KindsIn(registry), CompositorEvent
  PROVE  KindsIn(registry')
<1>1. CASE FocusNothing
  BY <1>1 DEF FocusNothing, Settle
<1>2. ASSUME NEW c \in Clients, CloseWindow(c) PROVE KindsIn(registry')
  BY <1>2, EraseType, KindsOfMethods, KindsKept DEF CloseWindow, Settle
<1>3. ASSUME NEW c \in Clients, NEW t \in Workspaces \cup {HiddenWorkspace}, MoveWindow(c, t)
      PROVE  KindsIn(registry')
  <2>1. t \in Workspaces /\ registry' = ReconcileManagement(UpdateWorkspace(registry, c, t), managedWs)
    BY <1>3 DEF MoveWindow, Settle
  <2> QED BY <2>1, UpdateWorkspaceType, KindsOfMethods, KindsKept
<1>4. ASSUME NEW c \in Clients, NEW f \in BOOLEAN, ChangeFloating(c, f)
      PROVE  KindsIn(registry')
  <2>1. \/ registry' = ReconcileManagement(SetFloating(registry, c, f), managedWs)
        \/ registry' = registry
    BY <1>4 DEF ChangeFloating, Settle
  <2> QED BY <2>1, SetFloatingType, KindsOfMethods, KindsKept
<1>5. ASSUME NEW c \in Clients, NEW f \in Answers, NEW r \in Registry, KindsIn(r)
      PROVE  KindsIn(Queried(ReconcileManagement(r, managedWs), c, f))
  BY <1>5, ReconcileFacts, KindsKept
<1>6. ASSUME NEW c \in Clients, NEW f \in Answers, NEW w \in Workspaces,
             NEW k \in KindsOf[c], OpenWindow(c, w, k, f)
      PROVE  KindsIn(registry')
  <2>1. UpsertOpen(registry, c, w, k) \in Registry /\ KindsIn(UpsertOpen(registry, c, w, k))
    BY KindsOfAssumption, UpsertOpenType, KindsOfMethods
  <2> QED BY <1>5, <1>6, <2>1 DEF OpenWindow, Settle
<1>7. ASSUME NEW c \in Clients, NEW f \in Answers, NEW k \in KindsOf[c], RetitleWindow(c, k, f)
      PROVE  KindsIn(registry')
  <2>1. UpdateTitle(registry, c, k) \in Registry /\ KindsIn(UpdateTitle(registry, c, k))
    BY KindsOfAssumption, UpdateTitleType, KindsOfMethods
  <2> QED BY <1>5, <1>7, <2>1 DEF RetitleWindow, Settle
<1>8. ASSUME NEW c \in Clients, NEW f \in Answers, FocusWindow(c, f)
      PROVE  KindsIn(registry')
  <2>1. SetFocus(registry, c) \in Registry /\ KindsIn(SetFocus(registry, c))
    BY SetFocusFacts, KindsOfMethods
  <2> QED BY <1>8, <2>1, KindsKept DEF FocusWindow, Settle
<1> QED BY <1>1, <1>2, <1>3, <1>4, <1>6, <1>7, <1>8 DEF CompositorEvent

\* Every call of the manager.
LEMMA KindsStep ==
  ASSUME registry \in Registry, KindsIn(registry), Next
  PROVE  KindsIn(registry')
<1>1. ASSUME NEW w, NEW all, NEW answers \in [Clients -> Answers],
             RefreshFloating(w, all, answers)
      PROVE  KindsIn(registry')
  <2> DEFINE S == Refloated(registry, w, all, answers, layout, overlayPending)
  <2>1. S \in SUBSET Clients /\ \A c \in S : Known(registry, c) /\ answers[c] # None
    BY DEF Refloated, RefreshTargets
  <2>2. registry' = RefreshRegistry(registry, S, answers, managedWs)
    BY <1>1 DEF RefreshFloating
  <2> HIDE DEF S
  <2> QED BY <2>1, <2>2, KindsRefreshed
<1>2. ASSUME NEW w \in Workspaces, NEW answers \in [Clients -> Answers],
             NEW undone, NEW answered, NEW done,
             ManageWorkspace(w, answers, undone, answered, done)
      PROVE  KindsIn(registry')
  <2>1. PICK lay : registry' = ReconcileManagement(
           RefreshRegistry(registry, Refloated(registry, w, TRUE, answers, lay, overlayPending),
                           answers, w), w)
    BY <1>2 DEF ManageWorkspace
  <2> DEFINE S == Refloated(registry, w, TRUE, answers, lay, overlayPending)
  <2>2. S \in SUBSET Clients /\ \A c \in S : Known(registry, c) /\ answers[c] # None
    BY DEF Refloated, RefreshTargets
  <2>3. registry' = ReconcileManagement(RefreshRegistry(registry, S, answers, w), w)
    BY <2>1
  <2> HIDE DEF S
  <2> QED BY <2>2, <2>3, KindsRefreshed, RefreshRegistryFacts, KindsKept
<1>3. ASSUME NEW w, NEW undone, ClearManagement(w, undone) PROVE KindsIn(registry')
  BY <1>3, KindsKept DEF ClearManagement
<1>4. ASSUME NEW c \in Clients, NEW w \in Workspaces, NEW k \in KindsOf[c], NEW f \in BOOLEAN,
             SeedClient(c, w, k, f)
      PROVE  KindsIn(registry')
  <2> DEFINE opened == UpsertOpen(registry, c, w, k)
  <2>1. opened \in Registry /\ KindsIn(opened)
    BY KindsOfAssumption, UpsertOpenType, KindsOfMethods
  <2>2. registry' = ReconcileManagement(SetFloating(opened, c, f), managedWs)
    BY <1>4 DEF SeedClient
  <2> HIDE DEF opened
  <2> QED BY <2>1, <2>2, SetFloatingType, KindsOfMethods, KindsKept
<1>5. ASSUME NEW w, NEW c \in Clients, SetSelectedClient(w, c) PROVE KindsIn(registry')
  BY <1>5, KindsOfMethods DEF SetSelectedClient
<1>6. CASE Command
  <2>1. ASSUME NEW w, NEW c, NoteOverlayFloatRequest(w, c) PROVE KindsIn(registry')
    BY <2>1 DEF NoteOverlayFloatRequest
  <2>2. ASSUME NEW w, NEW visible, NEW hidden, ApplyLayout(w, visible, hidden)
        PROVE  KindsIn(registry')
    BY <2>2 DEF ApplyLayout
  <2>3. ASSUME NEW w, NEW mode, SetInputMode(w, mode) PROVE KindsIn(registry')
    BY <2>3 DEF SetInputMode
  <2> QED BY <1>1, <1>2, <1>3, <1>4, <1>5, <1>6, <2>1, <2>2, <2>3
          DEF Command, RequestState, UnmanageWorkspace
<1>7. CASE \E undone \in Done : Disconnect(undone)
  BY <1>3, <1>7 DEF Disconnect
<1>8. CASE DropNotice \/ Connect
  BY <1>8 DEF DropNotice, Connect
<1>9. CASE \E answers \in [Clients -> Answers] : AnswerNotice(answers)
  BY <1>1, <1>9 DEF AnswerNotice
<1> QED BY KindsAfterEvent, <1>6, <1>7, <1>8, <1>9 DEF Next

\* A managed window is a plain one, and so is a window of the layout.
LEMMA ManagedArePlain ==
  ASSUME IInv, KindsIn(registry)
  PROVE  /\ ManagedClients(registry) \subseteq Plain
         /\ layout # None => layout.hidden \subseteq Plain /\ layout.visible \subseteq Plain
<1>1. ManagedClients(registry) \subseteq Plain
  BY DEF IInv, Reconciled, ManagedClients, ShouldManage, Eligible, KindsIn, Plain
<1> QED BY <1>1 DEF IInv, Agrees

-----------------------------------------------------------------------------
(* The types of a session.                                                 *)

WorkspaceOps == {"answer", "enforce", "hide-managed", "reveal", "select-first",
                 "overlay-all", "scan"} \cup InputModes

\* What a thread may have to do.  Only plain windows are ever to be hidden.
Calls ==
  [op: {"hide", "force", "record"}, client: Plain, ws: Workspaces]
    \cup [op: {"show", "select", "overlay", "setfloating"}, client: Clients, ws: Workspaces]
    \cup [op: {"restore", "forget"}, client: Clients, ws: Maybe(Workspaces)]
    \cup [op: WorkspaceOps, client: {None}, ws: Workspaces]
    \cup [op: {"online", "clean-up", "offline"}, client: {None}, ws: {None}]
    \cup [op: {"commit"}, ws: Workspaces, visible: SUBSET Clients, hidden: SUBSET Plain,
          chosen: Maybe(Clients), mode: Maybe(InputModes)]

\* What an event carries.
GoodEvents ==
  {e \in Event : /\ e.name # "focus" => e.client \in Clients
                 /\ e.name \in {"open", "move"} => e.ws \in Workspaces
                 /\ e.name \in {"open", "retitle"} => e.kind \in KindsOf[e.client]
                 /\ e.name = "float" => e.floating \in BOOLEAN}

SessionTypes ==
  /\ window \in [Clients -> Maybe(Window)]
  /\ \A c \in Clients : Exists(c) => window[c].kind \in KindsOf[c]
  /\ HiddenWindows \subseteq Plain
  /\ queue \in Seq(GoodEvents)
  /\ hiddenFrom \in [Clients -> Maybe(Workspaces)]
  /\ \A c \in Clients : hiddenFrom[c] # None => c \in Plain
  /\ todo \in [Threads -> Seq(Calls)]
  /\ fd \in BOOLEAN

\* The manager's invariant, and the types around it.
TInv == IInv /\ KindsIn(registry) /\ SessionTypes

\* What is known of a call from its operation.
LEMMA CallArguments ==
  ASSUME NEW x \in Calls
  PROVE  /\ x.op \in {"hide", "force", "record"} =>
              x.client \in Plain /\ x.client \in Clients /\ x.ws \in Workspaces
         /\ x.op \in {"show", "select", "overlay", "setfloating"} =>
              x.client \in Clients /\ x.ws \in Workspaces
         /\ x.op \in {"restore", "forget"} => x.client \in Clients
         /\ x.op \in WorkspaceOps => x.client = None /\ x.ws \in Workspaces
         /\ x.op = "commit" =>
              /\ x.ws \in Workspaces /\ x.visible \in SUBSET Clients
              /\ x.hidden \in SUBSET Plain /\ x.hidden \in SUBSET Clients
              /\ x.chosen \in Maybe(Clients) /\ x.mode \in Maybe(InputModes)
         /\ x.ws \in Maybe(Workspaces)
  BY DEF Calls, WorkspaceOps, InputModes, Plain, Maybe

\* Calls that may be on a list.
LEMMA CallTypes ==
  /\ \A op \in {"hide", "force", "record"}, c \in Plain, w \in Workspaces :
       Call(op, c, w) \in Calls
  /\ \A op \in {"show", "select", "overlay", "setfloating"}, c \in Clients, w \in Workspaces :
       Call(op, c, w) \in Calls
  /\ \A op \in {"restore", "forget"}, c \in Clients, w \in Maybe(Workspaces) :
       Call(op, c, w) \in Calls
  /\ \A op \in WorkspaceOps, w \in Workspaces : Call(op, None, w) \in Calls
  /\ \A op \in {"online", "clean-up", "offline"} : Call(op, None, None) \in Calls
  BY DEF Calls, Call

\* A list of calls that one thread has, and what it goes on with.
LEMMA GoesFacts ==
  ASSUME todo \in [Threads -> Seq(Calls)], NEW t \in Threads, ~Idle(t)
  PROVE  /\ Head(todo[t]) \in Calls
         /\ Tail(todo[t]) \in Seq(Calls)
         /\ Range(todo[t]) = {Head(todo[t])} \cup Range(Tail(todo[t]))
         /\ \A calls \in Seq(Calls) :
              Goes(t, calls) => /\ todo' \in [Threads -> Seq(Calls)]
                                /\ todo'[t] = calls \o Tail(todo[t])
                                /\ \A u \in Threads \ {t} : todo'[u] = todo[u]
         /\ Finishes(t) => /\ todo' \in [Threads -> Seq(Calls)]
                           /\ todo'[t] = Tail(todo[t])
                           /\ \A u \in Threads \ {t} : todo'[u] = todo[u]
<1>1. todo[t] \in Seq(Calls) /\ todo[t] # <<>>
  BY DEF Idle
<1>2. /\ Head(todo[t]) \in Calls /\ Tail(todo[t]) \in Seq(Calls)
      /\ Range(todo[t]) = {Head(todo[t])} \cup Range(Tail(todo[t]))
  BY <1>1, HeadInRange
<1>3. ASSUME NEW calls \in Seq(Calls), Goes(t, calls)
      PROVE  /\ todo' \in [Threads -> Seq(Calls)]
             /\ todo'[t] = calls \o Tail(todo[t])
             /\ \A u \in Threads \ {t} : todo'[u] = todo[u]
  <2>1. calls \o Tail(todo[t]) \in Seq(Calls)
    BY <1>2, ConcatProperties
  <2>2. todo' = [todo EXCEPT ![t] = calls \o Tail(todo[t])]
    BY <1>3 DEF Goes
  <2> QED BY <2>1, <2>2
<1>4. <<>> \in Seq(Calls) /\ <<>> \o Tail(todo[t]) = Tail(todo[t])
  BY <1>2, EmptySeq, ConcatEmptySeq
<1> QED BY <1>2, <1>3, <1>4 DEF Finishes

\* The compositor's answers are of the type the manager takes.
LEMMA FloatingAnswersType == FloatingAnswers \subseteq [Clients -> Answers]
  BY DEF FloatingAnswers, Maybe, Answers

-----------------------------------------------------------------------------
(* What the commands do, as far as the threads and the windows go.         *)

CommandOps == {"hide", "show", "setfloating", "select", "overlay", "hide-managed",
               "reveal", "select-first", "overlay-all", "commit"} \cup InputModes

CommandCalls == {x \in Calls : x.op \in CommandOps}

\* A command arrives at the idle controller thread.
Starts ==
  /\ MayStart("controller") /\ fd
  /\ \E calls \in Seq(CommandCalls) : Then(calls)
  /\ NothingElse /\ connected' = connected

\* The controller thread is in the middle of a command.
Continues ==
  /\ ~Idle("controller") /\ Head(todo["controller"]) \in CommandCalls
  /\ \E calls \in Seq(CommandCalls) : Goes("controller", calls)
  /\ NothingElse /\ connected' = connected

\* Calls that commands lead to.
LEMMA CommandCallTypes ==
  /\ CommandCalls \subseteq Calls
  /\ \A c \in Plain, w \in Workspaces : Call("hide", c, w) \in CommandCalls
  /\ \A op \in {"show", "select", "overlay", "setfloating"}, c \in Clients, w \in Workspaces :
       Call(op, c, w) \in CommandCalls
  /\ \A op \in {"hide-managed", "reveal", "select-first", "overlay-all"} \cup InputModes,
       w \in Workspaces : Call(op, None, w) \in CommandCalls
<1>1. \A op, c, w : Call(op, c, w).op = op
  BY DEF Call
<1> QED BY <1>1, CallTypes DEF CommandCalls, CommandOps, WorkspaceOps

\* Nothing to do, for a thread that is idle.
LEMMA NothingToDo ==
  ASSUME TInv, Idle("controller"), UNCHANGED todo
  PROVE  \E calls \in Seq(CommandCalls) : Then(calls)
<1>1. todo' = [todo EXCEPT !["controller"] = <<>>]
  BY DEF TInv, SessionTypes, Idle
<1> QED BY <1>1, ShortLists DEF Then

\* What is managed or laid out is plain.
LEMMA ManagedOnFacts ==
  ASSUME TInv
  PROVE  /\ \A w : ManagedOn(w) \subseteq Plain /\ ManagedOn(w) \subseteq Clients
         /\ layout # None => /\ layout.hidden \subseteq Plain
                             /\ layout.hidden \subseteq Clients
                             /\ layout.visible \subseteq Clients
  BY ManagedArePlain DEF TInv, ManagedOn, ManagedClients, Plain

\* Every command.
LEMMA StartsCommand ==
  ASSUME TInv, CommandReceived \/ \E c \in Clients : SeedCommand(c)
  PROVE  Starts /\ (Next \/ UNCHANGED vars)
<1> USE DEF NothingElse
<1>1. FloatingAnswers \subseteq [Clients -> Answers]
  BY FloatingAnswersType
<1>2. ASSUME NEW command, Receives(command)
      PROVE  MayStart("controller") /\ fd /\ Idle("controller")
  BY <1>2 DEF Receives, MayStart
<1>3. ASSUME NEW w \in Workspaces, ManageCommand(w) PROVE Starts /\ Next
  <2>1. PICK undone \in Done, done \in Done, answered \in Answered, answers \in FloatingAnswers :
          ManageWorkspace(w, answers, undone, answered, done)
    BY <1>3 DEF ManageCommand
  <2>2. Next
    BY <1>1, <2>1 DEF Next, Command
  <2>3. connected' = connected
    BY <2>1 DEF ManageWorkspace
  <2>4. <<Call("hide-managed", None, w)>> \in Seq(CommandCalls)
    BY CommandCallTypes, ShortLists
  <2> QED BY <1>2, <1>3, <2>2, <2>3, <2>4 DEF ManageCommand, Starts
<1>4. ASSUME NEW w \in Workspaces, UnmanageCommand(w) PROVE Starts /\ Next
  <2>1. PICK undone \in Done : UnmanageWorkspace(w, undone)
    BY <1>4 DEF UnmanageCommand
  <2>2. Next /\ connected' = connected
    BY <2>1 DEF Next, Command, UnmanageWorkspace
  <2> QED BY <1>2, <1>4, <2>2, NothingToDo DEF UnmanageCommand, Starts
<1>5. ASSUME NEW w \in Workspaces, RequestStateCommand(w) PROVE Starts /\ Next
  <2>0. PICK answers \in FloatingAnswers : RequestState(w, answers)
    BY <1>5 DEF RequestStateCommand
  <2>1. Next
    BY <1>1, <2>0 DEF Next, Command
  <2>2. connected' = connected
    BY <2>0 DEF RequestState, RefreshFloating
  <2> QED BY <1>2, <1>5, <2>1, <2>2, NothingToDo DEF RequestStateCommand, Starts
<1>6. ASSUME NEW w \in Workspaces, NEW mode \in InputModes, ModeCommand(w, mode)
      PROVE  Starts /\ Next
  <2>1. Next /\ connected' = connected
    BY <1>6 DEF ModeCommand, Next, Command, SetInputMode
  <2> DEFINE op == IF mode = "client-control" THEN "select-first" ELSE "overlay-all"
  <2>2. <<Call(op, None, w)>> \in Seq(CommandCalls)
    <3>1. Call(op, None, w) \in CommandCalls
      BY CommandCallTypes
    <3> QED BY <3>1, ShortLists
  <2>3. Then(<<Call(op, None, w)>>)
    BY <1>6 DEF ModeCommand
  <2> QED BY <1>2, <1>6, <2>1, <2>2, <2>3 DEF ModeCommand, Starts
<1>7. ASSUME NEW w \in Workspaces, NEW c \in Clients, SelectCommand(w, c)
      PROVE  Starts /\ Next
  <2>1. Next /\ connected' = connected
    BY <1>7 DEF SelectCommand, Next, Command, SetSelectedClient
  <2>2. <<Call("reveal", None, w)>> \in Seq(CommandCalls)
    BY CommandCallTypes, ShortLists
  <2> QED BY <1>2, <1>7, <2>1, <2>2 DEF SelectCommand, Starts
<1>8. ASSUME NEW w \in Workspaces, NEW visible \in SUBSET ManagedOn(w),
             NEW hidden \in SUBSET ManagedOn(w),
             NEW chosen \in Maybe(ManagedOn(w)), NEW mode \in Maybe(InputModes),
             SetLayoutCommand(w, visible, hidden, chosen, mode)
      PROVE  Starts /\ (Next \/ UNCHANGED vars)
  <2> DEFINE set == [op |-> "commit", ws |-> w, visible |-> visible, hidden |-> hidden,
                     chosen |-> chosen, mode |-> mode]
  <2>1. hidden \in SUBSET Plain /\ visible \in SUBSET Clients /\ chosen \in Maybe(Clients)
    BY ManagedOnFacts DEF Maybe
  <2>2. set \in CommandCalls
    BY <2>1 DEF CommandCalls, CommandOps, Calls
  <2>3. Then(<<set>>)
    BY <1>8 DEF SetLayoutCommand
  <2>4. MayStart("controller") /\ fd /\ NothingElse /\ UNCHANGED vars
    BY <1>2, <1>8 DEF SetLayoutCommand
  <2> HIDE DEF set
  <2>5. connected' = connected
    BY <2>4 DEF vars
  <2> QED BY <2>2, <2>3, <2>4, <2>5, ShortLists DEF Starts
<1>9. ASSUME NEW c \in Clients, SeedCommand(c) PROVE Starts /\ Next
  <2>1. /\ SeedClient(c, window[c].ws, window[c].kind, window[c].floating)
        /\ Exists(c) /\ window[c].ws \in Workspaces
    BY <1>9 DEF SeedCommand
  <2>2. window[c].kind \in KindsOf[c] /\ window[c].floating \in BOOLEAN
    BY <2>1 DEF TInv, SessionTypes, Exists, Maybe, Window
  <2>3. Next /\ connected' = connected
    BY <2>1, <2>2 DEF Next, Command, SeedClient
  <2> QED BY <1>2, <1>9, <2>3, NothingToDo DEF SeedCommand, Starts
<1> QED BY <1>3, <1>4, <1>5, <1>6, <1>7, <1>8, <1>9 DEF CommandReceived

\* A call for each window of a set, of one kind.
LEMMA CallsForEach ==
  /\ \A S \in SUBSET Clients, w \in Workspaces :
       S \subseteq Plain => ForEach(S, "hide", w) \in Seq(CommandCalls)
  /\ \A S \in SUBSET Clients, w \in Workspaces :
       /\ ForEach(S, "show", w) \in Seq(CommandCalls)
       /\ ForEach(S, "overlay", w) \in Seq(CommandCalls)
<1>1. ASSUME NEW S \in SUBSET Clients, NEW w \in Workspaces, S \subseteq Plain
      PROVE  ForEach(S, "hide", w) \in Seq(CommandCalls)
  <2>1. \A c \in S : Call("hide", c, w) \in CommandCalls
    BY <1>1, CommandCallTypes
  <2> QED BY <2>1, ForEachFacts
<1>2. ASSUME NEW S \in SUBSET Clients, NEW w \in Workspaces,
             NEW op \in {"show", "overlay"}
      PROVE  ForEach(S, op, w) \in Seq(CommandCalls)
  <2>1. \A c \in S : Call(op, c, w) \in CommandCalls
    BY CommandCallTypes
  <2> QED BY <2>1, ForEachFacts
<1> QED BY <1>1, <1>2

\* The list of calls that a committed layout leads to.
LEMMA CommittedCalls ==
  ASSUME NEW set \in Calls, set.op = "commit"
  PROVE  ForEach(set.hidden, "hide", set.ws)
           \o ForEach(set.visible, "show", set.ws)
           \o (IF set.chosen = None THEN <<>>
               ELSE <<Call("select", set.chosen, set.ws)>>)
           \o (IF set.mode = None THEN <<>>
               ELSE <<Call(set.mode, None, set.ws)>>)
           \o ForEach(set.visible, "overlay", set.ws) \in Seq(CommandCalls)
<1> DEFINE select == IF set.chosen = None THEN <<>>
                     ELSE <<Call("select", set.chosen, set.ws)>>
           switch == IF set.mode = None THEN <<>> ELSE <<Call(set.mode, None, set.ws)>>
<1>1. /\ set.ws \in Workspaces /\ set.visible \in SUBSET Clients
      /\ set.hidden \in SUBSET Clients /\ set.hidden \subseteq Plain
      /\ set.chosen \in Maybe(Clients) /\ set.mode \in Maybe(InputModes)
  BY CallArguments
<1>2. /\ ForEach(set.hidden, "hide", set.ws) \in Seq(CommandCalls)
      /\ ForEach(set.visible, "show", set.ws) \in Seq(CommandCalls)
      /\ ForEach(set.visible, "overlay", set.ws) \in Seq(CommandCalls)
  BY <1>1, CallsForEach
<1>3. select \in Seq(CommandCalls)
  <2>1. set.chosen # None => Call("select", set.chosen, set.ws) \in CommandCalls
    BY <1>1, CommandCallTypes DEF Maybe
  <2> QED BY <2>1, ShortLists
<1>4. switch \in Seq(CommandCalls)
  <2>1. set.mode # None => Call(set.mode, None, set.ws) \in CommandCalls
    BY <1>1, CommandCallTypes DEF Maybe
  <2> QED BY <2>1, ShortLists
<1> HIDE DEF select, switch
<1>5. ForEach(set.hidden, "hide", set.ws) \o ForEach(set.visible, "show", set.ws) \o select
        \o switch \o ForEach(set.visible, "overlay", set.ws) \in Seq(CommandCalls)
  BY <1>2, <1>3, <1>4, ShortLists
<1> QED BY <1>5 DEF select, switch

\* Every step of a command.
LEMMA ContinuesCommand ==
  ASSUME TInv, CommandStep
  PROVE  Continues /\ (Next \/ UNCHANGED vars)
<1> USE DEF NothingElse
<1> DEFINE call == Head(todo["controller"])
           goes == \E calls \in Seq(CommandCalls) : Goes("controller", calls)
<1>1. ASSUME NEW op \in CommandOps, Doing("controller", op)
      PROVE  /\ ~Idle("controller") /\ call.op = op
             /\ call \in CommandCalls /\ call \in Calls
  <2>1. ~Idle("controller") /\ call.op = op
    BY <1>1 DEF Doing
  <2>2. call \in Calls
    BY <2>1, GoesFacts DEF TInv, SessionTypes, Threads
  <2> QED BY <2>1, <2>2 DEF CommandCalls
<1> HIDE DEF call
<1>2. Finishes("controller") => goes
  BY ShortLists DEF Finishes
<1>3. UNCHANGED vars => connected' = connected
  BY DEF vars
<1>4. CASE HideManaged
  <2>1. Doing("controller", "hide-managed") /\ UNCHANGED vars
    BY <1>4 DEF HideManaged
  <2>2. call.ws \in Workspaces
    BY <1>1, <2>1, CallArguments DEF CommandOps, WorkspaceOps
  <2>3. goes
    BY <1>4, <2>2, CallsForEach, ManagedOnFacts DEF HideManaged, call
  <2> QED BY <1>1, <1>3, <1>4, <2>1, <2>3 DEF HideManaged, Continues, CommandOps, call
<1>5. CASE CommitLayout
  <2>1. Doing("controller", "commit")
    BY <1>5 DEF CommitLayout
  <2>2. call \in Calls /\ call.op = "commit"
    BY <1>1, <2>1 DEF CommandOps
  <2>3. /\ call.ws \in Workspaces /\ call.visible \in SUBSET Clients
        /\ call.hidden \in SUBSET Clients
    BY <2>2, CallArguments
  <2>4. /\ \/ ApplyLayout(call.ws, call.visible, call.hidden)
           \/ UNCHANGED vars
        /\ goes
    BY <1>2, <1>5, <2>2, CommittedCalls DEF CommitLayout, call
  <2>5. Next \/ UNCHANGED vars
    BY <2>3, <2>4 DEF Next, Command
  <2>6. connected' = connected
    BY <1>3, <2>4 DEF ApplyLayout
  <2> QED BY <1>1, <1>5, <2>1, <2>4, <2>5, <2>6 DEF CommitLayout, Continues, CommandOps, call
<1>6. CASE Select
  <2>1. Doing("controller", "select") /\ Finishes("controller")
    BY <1>6 DEF Select
  <2>2. call.client \in Clients /\ call.ws \in Workspaces
    BY <1>1, <2>1, CallArguments DEF CommandOps
  <2>3. SetSelectedClient(call.ws, call.client) \/ UNCHANGED vars
    BY <1>6 DEF Select, call
  <2>4. Next \/ UNCHANGED vars
    BY <2>2, <2>3 DEF Next, Command
  <2>5. connected' = connected
    BY <1>3, <2>3 DEF SetSelectedClient
  <2> QED BY <1>1, <1>2, <1>6, <2>1, <2>4, <2>5 DEF Select, Continues, CommandOps, call
<1>7. CASE Overlay
  <2>1. Doing("controller", "overlay")
    BY <1>7 DEF Overlay
  <2>2. call.client \in Clients /\ call.ws \in Workspaces
    BY <1>1, <2>1, CallArguments DEF CommandOps
  <2>3. NoteOverlayFloatRequest(call.ws, call.client) \/ UNCHANGED vars
    BY <1>7 DEF Overlay, call
  <2>4. Next \/ UNCHANGED vars
    BY <2>2, <2>3 DEF Next, Command
  <2>5. connected' = connected
    BY <1>3, <2>3 DEF NoteOverlayFloatRequest
  <2>6. goes
    <3>1. Goes("controller", <<Call("setfloating", call.client, call.ws)>>)
      BY <1>7 DEF Overlay, call
    <3>2. Call("setfloating", call.client, call.ws) \in CommandCalls
      BY <2>2, CommandCallTypes
    <3> QED BY <3>1, <3>2, ShortLists
  <2> QED BY <1>1, <1>7, <2>1, <2>4, <2>5, <2>6 DEF Overlay, Continues, CommandOps, call
<1>8. CASE Reveal
  <2> DEFINE shown == {c \in ManagedOn(call.ws) :
                         /\ c = SelectedManaged(registry, call.ws)
                         /\ Committed(call.ws) /\ c \in layout.visible}
  <2>1. Doing("controller", "reveal") /\ UNCHANGED vars
    BY <1>8 DEF Reveal
  <2>2. call.ws \in Workspaces
    BY <1>1, <2>1, CallArguments DEF CommandOps, WorkspaceOps
  <2>3. \/ Finishes("controller")
        \/ Goes("controller", ForEach(shown, "show", call.ws)
                                \o ForEach(ManagedOn(call.ws) \ shown, "hide", call.ws))
    BY <1>8 DEF Reveal, call
  <2>4. /\ shown \in SUBSET Clients
        /\ ManagedOn(call.ws) \ shown \in SUBSET Clients
        /\ ManagedOn(call.ws) \ shown \subseteq Plain
    BY ManagedOnFacts
  <2> HIDE DEF shown
  <2>5. ForEach(shown, "show", call.ws)
          \o ForEach(ManagedOn(call.ws) \ shown, "hide", call.ws) \in Seq(CommandCalls)
    BY <2>2, <2>4, CallsForEach, ShortLists
  <2>6. goes
    BY <1>2, <2>3, <2>5
  <2> QED BY <1>1, <1>3, <1>8, <2>1, <2>6 DEF Reveal, Continues, CommandOps, call
<1>9. CASE SelectFirst
  <2>1. Doing("controller", "select-first") /\ UNCHANGED vars
    BY <1>9 DEF SelectFirst
  <2>2. call.ws \in Workspaces
    BY <1>1, <2>1, CallArguments DEF CommandOps, WorkspaceOps
  <2>3. ManagedOn(call.ws) # {} => Lowest(ManagedOn(call.ws)) \in Clients
    BY LowestIsMember, ManagedOnFacts
  <2>4. \/ Finishes("controller")
        \/ /\ ManagedOn(call.ws) # {}
           /\ Goes("controller", <<Call("select", Lowest(ManagedOn(call.ws)), call.ws)>>)
    BY <1>9 DEF SelectFirst, call
  <2>5. ManagedOn(call.ws) # {} =>
          <<Call("select", Lowest(ManagedOn(call.ws)), call.ws)>> \in Seq(CommandCalls)
    BY <2>2, <2>3, CommandCallTypes, ShortLists
  <2>6. goes
    BY <1>2, <2>4, <2>5
  <2> QED BY <1>1, <1>3, <1>9, <2>1, <2>6 DEF SelectFirst, Continues, CommandOps, call
<1>10. CASE OverlayAll
  <2>1. Doing("controller", "overlay-all") /\ UNCHANGED vars
    BY <1>10 DEF OverlayAll
  <2>2. call.ws \in Workspaces
    BY <1>1, <2>1, CallArguments DEF CommandOps, WorkspaceOps
  <2>3. \/ Finishes("controller")
        \/ /\ layout # None
           /\ Goes("controller", ForEach(layout.visible, "overlay", call.ws))
    BY <1>10 DEF OverlayAll, Committed, call
  <2>4. goes
    BY <1>2, <2>2, <2>3, ManagedOnFacts, CallsForEach
  <2> QED BY <1>1, <1>3, <1>10, <2>1, <2>4 DEF OverlayAll, Continues, CommandOps, call
<1>11. ASSUME NEW mode \in InputModes, SwitchMode(mode)
       PROVE  Continues /\ (Next \/ UNCHANGED vars)
  <2>1. /\ Doing("controller", mode) /\ Finishes("controller")
        /\ SetInputMode(call.ws, mode)
    BY <1>11 DEF SwitchMode, call
  <2>2. call.ws \in Workspaces
    BY <1>1, <2>1, CallArguments DEF CommandOps, WorkspaceOps
  <2>3. Next /\ connected' = connected
    BY <2>1, <2>2 DEF Next, Command, SetInputMode
  <2> QED BY <1>1, <1>2, <1>11, <2>1, <2>3 DEF SwitchMode, Continues, CommandOps, call
<1> QED
  BY <1>4, <1>5, <1>6, <1>7, <1>8, <1>9, <1>10, <1>11 DEF CommandStep

-----------------------------------------------------------------------------
(* What the event thread does.                                             *)

\* Every event ends with a notice of the client it is about.
LEMMA EventNotice ==
  ASSUME CompositorEvent
  PROVE  /\ notice = None /\ UNCHANGED <<managedWs, connected>>
         /\ \E before, c, mutated : notice' = NoticeOf(before, registry', c, mutated)
<1>1. ASSUME NEW c, NEW before, NEW after, NEW tokens, NEW last,
             Settle(c, before, after, tokens, last)
      PROVE  /\ notice = None /\ UNCHANGED <<managedWs, connected>>
             /\ \E b, d, mutated : notice' = NoticeOf(b, registry', d, mutated)
  BY <1>1 DEF Settle
<1>2. CASE FocusNothing
  BY <1>1, <1>2 DEF FocusNothing
<1>3. ASSUME NEW c \in Clients,
             CloseWindow(c) \/ \E t \in Workspaces \cup {HiddenWorkspace} : MoveWindow(c, t)
      PROVE  \E d, before, after, tokens, last : Settle(d, before, after, tokens, last)
  BY <1>3 DEF CloseWindow, MoveWindow
<1>4. ASSUME NEW c \in Clients, NEW f \in BOOLEAN, ChangeFloating(c, f)
      PROVE  /\ notice = None /\ UNCHANGED <<managedWs, connected>>
             /\ \E b, d, mutated : notice' = NoticeOf(b, registry', d, mutated)
  BY <1>1, <1>4 DEF ChangeFloating
<1>5. ASSUME NEW c \in Clients, NEW f \in Answers,
             \/ \E w \in Workspaces, k \in KindsOf[c] : OpenWindow(c, w, k, f)
             \/ \E k \in KindsOf[c] : RetitleWindow(c, k, f)
             \/ FocusWindow(c, f)
      PROVE  \E d, before, after, tokens, last : Settle(d, before, after, tokens, last)
  BY <1>5 DEF OpenWindow, RetitleWindow, FocusWindow
<1> QED BY <1>1, <1>2, <1>3, <1>4, <1>5 DEF CompositorEvent

\* Who a notice is about: the managed workspace, and a window that is managed now.
LEMMA NoticeFacts ==
  ASSUME CompositorEvent, notice' # None
  PROVE  /\ notice'.ws = managedWs
         /\ notice'.type = "became-tiled" => notice'.client \in ManagedClients(registry')
         /\ notice'.type = "state-changed" => connected
<1>1. PICK before, c, mutated : notice' = NoticeOf(before, registry', c, mutated)
  BY EventNotice
<1> QED BY <1>1 DEF NoticeOf, BecameFloating, BecameTiled, IsManaged

EventOps == {"show", "hide", "force", "answer", "enforce"}

EventCalls == {x \in Calls : x.op \in EventOps}

\* Calls that events lead to.
LEMMA EventCallTypes ==
  /\ EventCalls \subseteq Calls
  /\ \A op \in {"hide", "force"}, c \in Plain, w \in Workspaces : Call(op, c, w) \in EventCalls
  /\ \A c \in Clients, w \in Workspaces : Call("show", c, w) \in EventCalls
  /\ \A op \in {"answer", "enforce"}, w \in Workspaces : Call(op, None, w) \in EventCalls
<1>1. \A op, c, w : Call(op, c, w).op = op
  BY DEF Call
<1> QED BY <1>1, CallTypes DEF EventCalls, EventOps, WorkspaceOps

\* A type of the event thread's duties.
LEMMA DutiesType ==
  ASSUME NEW n \in Maybe(Notice),
         n # None /\ n.type = "became-tiled" => n.client \in Plain
  PROVE  Duties(n) \in Seq(EventCalls)
<1>1. CASE n = None
  BY <1>1, ShortLists DEF Duties
<1>2. CASE n # None
  <2>1. /\ n.ws \in Workspaces
        /\ n.type \in {"state-changed", "became-floating", "became-tiled"}
        /\ n.type # "state-changed" => n.client \in Clients
    BY <1>2 DEF Notice, Maybe
  <2>2. Call("answer", None, n.ws) \in EventCalls
    BY <2>1, EventCallTypes
  <2>3. CASE n.type = "became-floating"
    <3>1. Call("show", n.client, n.ws) \in EventCalls
      BY <2>1, <2>3, EventCallTypes
    <3> QED BY <1>2, <2>2, <2>3, <3>1, ShortLists DEF Duties
  <2>4. CASE n.type = "became-tiled"
    <3>1. Call("hide", n.client, n.ws) \in EventCalls
      BY <1>2, <2>1, <2>4, EventCallTypes
    <3> QED BY <1>2, <2>2, <2>4, <3>1, ShortLists DEF Duties
  <2>5. CASE n.type = "state-changed"
    BY <1>2, <2>2, <2>5, ShortLists DEF Duties
  <2> QED BY <2>1, <2>3, <2>4, <2>5
<1> QED BY <1>1, <1>2

\* The event thread reads an event.
Reads ==
  /\ MayStart("event") /\ queue # <<>>
  /\ queue' = Tail(queue)
  /\ CompositorEvent
  /\ Duties(notice') \in Seq(EventCalls)
  /\ todo' = [todo EXCEPT !["event"] = Duties(notice')]
  /\ UNCHANGED <<window, hiddenFrom, fd, connected>>

\* It goes on after an event.
Serves ==
  /\ ~Idle("event") /\ Head(todo["event"]) \in EventCalls
  /\ \E calls \in Seq(EventCalls) : Goes("event", calls)
  /\ NothingElse /\ connected' = connected

\* Reading an event is a compositor event of the manager.
LEMMA HandleEventFacts ==
  ASSUME TInv, HandleEvent
  PROVE  Reads /\ Next
<1> DEFINE e == Head(queue)
           c == e.client
<1>1. /\ MayStart("event") /\ queue # <<>> /\ queue' = Tail(queue)
      /\ todo' = [todo EXCEPT !["event"] = Duties(notice')]
      /\ UNCHANGED <<window, hiddenFrom, fd>>
  BY DEF HandleEvent
<1>2. e \in GoodEvents
  BY <1>1, HeadInRange DEF TInv, SessionTypes
<1>3. /\ e \in Event
      /\ e.name # "focus" => c \in Clients
      /\ e.name \in {"open", "move"} => e.ws \in Workspaces
      /\ e.name \in {"open", "retitle"} => e.kind \in KindsOf[c]
      /\ e.name = "float" => e.floating \in BOOLEAN
  BY <1>2 DEF GoodEvents
<1>4. c \in Maybe(Clients) /\ \A answers \in FloatingAnswers : c \in Clients => answers[c] \in Answers
  BY <1>3, FloatingAnswersType DEF Event
<1>5. \/ e.name = "close" /\ CloseWindow(c)
      \/ e.name = "move" /\ MoveWindow(c, e.ws)
      \/ e.name = "float" /\ ChangeFloating(c, e.floating)
      \/ e.name = "focus" /\ c = None /\ FocusNothing
      \/ \E answers \in FloatingAnswers :
           \/ e.name = "open" /\ OpenWindow(c, e.ws, e.kind, answers[c])
           \/ e.name = "retitle" /\ RetitleWindow(c, e.kind, answers[c])
           \/ e.name = "focus" /\ c # None /\ FocusWindow(c, answers[c])
  BY DEF HandleEvent
<1> HIDE DEF e
<1>6. CompositorEvent
  BY <1>3, <1>4, <1>5 DEF CompositorEvent, Maybe
<1>7. Next
  BY <1>6 DEF Next
<1>8. IInv' /\ KindsIn(registry')
  BY <1>7, IInvNext, KindsStep DEF TInv, IInv, TypeOK
<1>9. ManagedClients(registry') \subseteq Plain
  BY <1>8 DEF IInv, Reconciled, ManagedClients, ShouldManage, Eligible, KindsIn, Plain
<1>10. notice' \in Maybe(Notice)
  BY <1>8 DEF IInv, TypeOK
<1>11. Duties(notice') \in Seq(EventCalls)
  BY <1>6, <1>9, <1>10, NoticeFacts, DutiesType
<1>12. connected' = connected
  BY <1>6, EventNotice
<1> QED BY <1>1, <1>6, <1>7, <1>11, <1>12 DEF Reads

\* Answering and enforcing.
LEMMA ServesEvent ==
  ASSUME TInv, Answer \/ Enforce
  PROVE  Serves /\ (Next \/ UNCHANGED vars)
<1> USE DEF NothingElse
<1> DEFINE call == Head(todo["event"])
<1>1. ASSUME NEW op \in EventOps, Doing("event", op)
      PROVE  ~Idle("event") /\ call.op = op /\ call \in EventCalls /\ call \in Calls
  <2>1. ~Idle("event") /\ call.op = op
    BY <1>1 DEF Doing
  <2>2. call \in Calls
    BY <2>1, GoesFacts DEF TInv, SessionTypes, Threads
  <2> QED BY <2>1, <2>2 DEF EventCalls
<1> HIDE DEF call
<1>2. Finishes("event") => \E calls \in Seq(EventCalls) : Goes("event", calls)
  BY ShortLists DEF Finishes
<1>3. CASE Answer
  <2>1. FloatingAnswers \subseteq [Clients -> Answers]
    BY FloatingAnswersType
  <2>2. /\ Doing("event", "answer") /\ NothingElse
        /\ \/ /\ \E answers \in FloatingAnswers : AnswerNotice(answers)
              /\ Goes("event", <<Call("enforce", None, notice.ws)>>)
           \/ DropNotice /\ Finishes("event")
    BY <1>3 DEF Answer
  <2>3. Next
    BY <2>1, <2>2 DEF Next
  <2>4. connected' = connected
    BY <2>2 DEF AnswerNotice, RefreshFloating, DropNotice
  <2>5. ASSUME NEW answers \in FloatingAnswers, AnswerNotice(answers)
        PROVE  <<Call("enforce", None, notice.ws)>> \in Seq(EventCalls)
    <3>1. notice.ws \in Workspaces
      BY <2>5 DEF AnswerNotice, TInv, IInv, TypeOK, Maybe, Notice
    <3> QED BY <3>1, EventCallTypes, ShortLists
  <2> QED BY <1>1, <1>2, <2>2, <2>3, <2>4, <2>5 DEF Serves, call, EventOps
<1>4. CASE Enforce
  <2>1. /\ Doing("event", "enforce") /\ NothingElse /\ UNCHANGED vars
        /\ \/ layout # None /\ Goes("event", ForEach(layout.hidden, "force", call.ws))
           \/ Finishes("event")
    BY <1>4 DEF Enforce, Committed, call
  <2>2. call.ws \in Workspaces
    BY <1>1, <2>1, CallArguments DEF EventOps, WorkspaceOps
  <2>3. layout # None => ForEach(layout.hidden, "force", call.ws) \in Seq(EventCalls)
    <3>1. layout # None => /\ layout.hidden \in SUBSET Clients
                           /\ \A c \in layout.hidden : Call("force", c, call.ws) \in EventCalls
      BY <2>2, ManagedOnFacts, EventCallTypes
    <3> QED BY <3>1, ForEachFacts
  <2>4. connected' = connected
    BY <2>1 DEF vars
  <2> QED BY <1>1, <1>2, <2>1, <2>3, <2>4 DEF Serves, call, EventOps
<1> QED BY <1>3, <1>4

-----------------------------------------------------------------------------
(* The user, the applier and the connection.                               *)

\* Every event that is sent is one that the event thread can read.
LEMMA SentEventsGood ==
  ASSUME NEW c \in Clients
  PROVE  /\ \A w \in Workspaces : EventOf("move", c, [NoDetail EXCEPT !.ws = w]) \in GoodEvents
         /\ EventOf("close", c, NoDetail) \in GoodEvents
         /\ \A d \in Maybe(Clients) : EventOf("focus", d, NoDetail) \in GoodEvents
         /\ \A k \in KindsOf[c] : EventOf("retitle", c, [NoDetail EXCEPT !.kind = k]) \in GoodEvents
         /\ \A f \in BOOLEAN : EventOf("float", c, [NoDetail EXCEPT !.floating = f]) \in GoodEvents
         /\ \A w \in Workspaces, k \in KindsOf[c] :
              EventOf("open", c, [NoDetail EXCEPT !.ws = w, !.kind = k]) \in GoodEvents
  BY KindsOfAssumption
  DEF EventOf, NoDetail, GoodEvents, Event, AllUserActions, Maybe

\* An event that is sent joins the queue.
LEMMA SendsGood ==
  ASSUME queue \in Seq(GoodEvents), NEW name, NEW c, NEW detail,
         EventOf(name, c, detail) \in GoodEvents, Sends(name, c, detail)
  PROVE  queue' \in Seq(GoodEvents)
  BY AppendProperties DEF Sends

\* A window that changes.
LEMMA WindowChanged ==
  ASSUME SessionTypes, NEW c \in Clients, Exists(c),
         NEW r \in Window, r.kind \in KindsOf[c],
         window' = [window EXCEPT ![c] = r]
  PROVE  /\ window' \in [Clients -> Maybe(Window)]
         /\ \A d \in Clients : Exists(d)' => window'[d].kind \in KindsOf[d]
         /\ HiddenWindows' \subseteq HiddenWindows \cup {c}
         /\ r.ws # HiddenWorkspace => HiddenWindows' \subseteq HiddenWindows \ {c}
         /\ r.ws = window[c].ws => HiddenWindows' \subseteq HiddenWindows
  BY DEF SessionTypes, Exists, HiddenWindows, Maybe

\* A window there is, and what may change about it.
LEMMA WindowOf ==
  ASSUME SessionTypes, NEW c \in Clients, Exists(c)
  PROVE  /\ window[c] \in Window /\ window[c].kind \in KindsOf[c]
         /\ window[c].floating \in BOOLEAN /\ window[c].ws \in Places
         /\ \A p \in Places : [window[c] EXCEPT !.ws = p] \in Window
         /\ \A k \in Kinds : [window[c] EXCEPT !.kind = k] \in Window
         /\ \A f \in BOOLEAN : [window[c] EXCEPT !.floating = f] \in Window
         /\ \A p : /\ [window[c] EXCEPT !.ws = p].ws = p
                   /\ [window[c] EXCEPT !.ws = p].kind = window[c].kind
         /\ \A k : /\ [window[c] EXCEPT !.kind = k].ws = window[c].ws
                   /\ [window[c] EXCEPT !.kind = k].kind = k
         /\ \A f : /\ [window[c] EXCEPT !.floating = f].ws = window[c].ws
                   /\ [window[c] EXCEPT !.floating = f].kind = window[c].kind
                   /\ [window[c] EXCEPT !.floating = f].floating = f
<1>1. window[c] \in Window /\ window[c].kind \in KindsOf[c]
  BY DEF SessionTypes, Exists, Maybe
<1> QED BY <1>1 DEF Window

\* The window and the queue are typed, and no window is newly hidden but those in S.
WindowsTyped(S) ==
  /\ window' \in [Clients -> Maybe(Window)]
  /\ \A d \in Clients : Exists(d)' => window'[d].kind \in KindsOf[d]
  /\ queue' \in Seq(GoodEvents)
  /\ HiddenWindows' \subseteq HiddenWindows \cup S

\* Nothing the user does hides a window.
LEMMA UserFacts ==
  ASSUME SessionTypes, UserStep
  PROVE  WindowsTyped({})
<1>1. queue \in Seq(GoodEvents)
  BY DEF SessionTypes
<1>2. ASSUME NEW c \in Maybe(Clients), Focus(c) PROVE WindowsTyped({})
  <2>1. UNCHANGED window /\ Sends("focus", c, NoDetail)
    BY <1>2 DEF Focus
  <2>2. EventOf("focus", c, NoDetail) \in GoodEvents
    BY DEF EventOf, NoDetail, GoodEvents, Event, AllUserActions, Maybe
  <2>3. queue' \in Seq(GoodEvents)
    BY <1>1, <2>1, <2>2, SendsGood
  <2> QED BY <2>1, <2>3 DEF WindowsTyped, SessionTypes, Exists, HiddenWindows
<1>3. ASSUME NEW c \in Clients, Close(c) PROVE WindowsTyped({})
  <2>1. queue' \in Seq(GoodEvents)
    BY <1>1, <1>3, SentEventsGood, SendsGood DEF Close
  <2>2. window' = [window EXCEPT ![c] = None]
    BY <1>3 DEF Close
  <2> QED BY <2>1, <2>2 DEF WindowsTyped, SessionTypes, Exists, HiddenWindows, Maybe
<1>4. ASSUME NEW c \in Clients, NEW w \in Workspaces, Move(c, w) PROVE WindowsTyped({})
  <2>1. queue' \in Seq(GoodEvents)
    BY <1>1, <1>4, SentEventsGood, SendsGood DEF Move
  <2> DEFINE r == [window[c] EXCEPT !.ws = w]
  <2>2. Exists(c) /\ window' = [window EXCEPT ![c] = r]
    BY <1>4 DEF Move
  <2>3. r \in Window /\ r.kind \in KindsOf[c] /\ r.ws = w
    BY <2>2, WindowOf DEF Places
  <2> HIDE DEF r
  <2> QED BY <2>1, <2>2, <2>3, WindowChanged, HiddenAssumption DEF WindowsTyped
<1>5. ASSUME NEW c \in Clients, NEW k \in KindsOf[c], Retitle(c, k) PROVE WindowsTyped({})
  <2>1. queue' \in Seq(GoodEvents)
    BY <1>1, <1>5, SentEventsGood, SendsGood DEF Retitle
  <2> DEFINE r == [window[c] EXCEPT !.kind = k]
  <2>2. Exists(c) /\ window' = [window EXCEPT ![c] = r]
    BY <1>5 DEF Retitle
  <2>3. r \in Window /\ r.kind \in KindsOf[c] /\ r.ws = window[c].ws
    BY <2>2, WindowOf, KindsOfAssumption
  <2> HIDE DEF r
  <2> QED BY <2>1, <2>2, <2>3, WindowChanged DEF WindowsTyped
<1>6. ASSUME NEW c \in Clients, Float(c) PROVE WindowsTyped({})
  <2> DEFINE f == ~window[c].floating
             r == [window[c] EXCEPT !.floating = f]
  <2>0. f \in BOOLEAN
    OBVIOUS
  <2>1. Exists(c) /\ window' = [window EXCEPT ![c] = r]
    BY <1>6 DEF Float
  <2>2. /\ r \in Window /\ r.kind \in KindsOf[c] /\ r.ws = window[c].ws
        /\ r.floating \in BOOLEAN
    <3> HIDE DEF f
    <3> QED BY <2>0, <2>1, WindowOf
  <2> HIDE DEF f, r
  <2>3. window'[c].floating \in BOOLEAN
    BY <2>1, <2>2 DEF SessionTypes
  <2>4. queue' \in Seq(GoodEvents)
    <3>1. PICK g \in BOOLEAN : g = window'[c].floating
      BY <2>3
    <3>2. Sends("float", c, [NoDetail EXCEPT !.floating = g]) \/ UNCHANGED queue
      BY <1>6, <3>1 DEF Float
    <3>3. EventOf("float", c, [NoDetail EXCEPT !.floating = g]) \in GoodEvents
      BY <2>3, <3>1, SentEventsGood
    <3> QED BY <1>1, <3>2, <3>3, SendsGood
  <2> QED BY <2>1, <2>2, <2>4, WindowChanged DEF WindowsTyped
<1>7. ASSUME NEW c \in Clients, NEW w \in Workspaces, NEW k \in KindsOf[c],
             NEW f \in BOOLEAN, Open(c, w, k, f)
      PROVE  WindowsTyped({})
  <2>1. queue' \in Seq(GoodEvents)
    BY <1>1, <1>7, SentEventsGood, SendsGood DEF Open
  <2> DEFINE r == [ws |-> w, kind |-> k, floating |-> f]
  <2>2. window' = [window EXCEPT ![c] = r]
    BY <1>7 DEF Open
  <2>3. r \in Window /\ r.kind \in KindsOf[c] /\ r.ws # HiddenWorkspace
    BY KindsOfAssumption, HiddenAssumption DEF Window, Places
  <2> HIDE DEF r
  <2> QED BY <2>1, <2>2, <2>3 DEF WindowsTyped, SessionTypes, Exists, HiddenWindows, Maybe
<1> QED BY <1>2, <1>3, <1>4, <1>5, <1>6, <1>7 DEF UserStep, Maybe

\* A dispatch that moves a window.
LEMMA MovesFacts ==
  ASSUME SessionTypes, NEW c \in Clients, Exists(c), NEW p \in Places, MovesTo(c, p)
  PROVE  /\ WindowsTyped(IF p = HiddenWorkspace THEN {c} ELSE {})
         /\ p # HiddenWorkspace => c \notin HiddenWindows'
<1> DEFINE r == [window[c] EXCEPT !.ws = p]
<1>1. window' = [window EXCEPT ![c] = r]
  BY DEF MovesTo
<1>2. r \in Window /\ r.kind \in KindsOf[c] /\ r.ws = p
  BY WindowOf
<1>3. queue' \in Seq(GoodEvents)
  <2>1. queue \in Seq(GoodEvents)
    BY DEF SessionTypes
  <2>2. \/ UNCHANGED queue
        \/ p \in Workspaces /\ Sends("move", c, [NoDetail EXCEPT !.ws = p])
    BY DEF MovesTo, Places
  <2> QED BY <2>1, <2>2, SentEventsGood, SendsGood
<1> HIDE DEF r
<1> QED BY <1>1, <1>2, <1>3, WindowChanged DEF WindowsTyped

\* Nothing happens to the windows.
LEMMA NothingMoves ==
  ASSUME SessionTypes, UNCHANGED <<window, queue>>
  PROVE  \A S : WindowsTyped(S)
  BY DEF SessionTypes, WindowsTyped, Exists, HiddenWindows

\* A dispatch that makes a window float.
LEMMA FloatsFacts ==
  ASSUME SessionTypes, NEW c \in Clients, Exists(c), MakesFloat(c)
  PROVE  WindowsTyped({})
<1> DEFINE r == [window[c] EXCEPT !.floating = TRUE]
<1>1. window' = [window EXCEPT ![c] = r]
  BY DEF MakesFloat
<1>2. r \in Window /\ r.kind \in KindsOf[c] /\ r.ws = window[c].ws
  BY WindowOf
<1>3. queue' \in Seq(GoodEvents)
  <2>1. queue \in Seq(GoodEvents)
    BY DEF SessionTypes
  <2>2. \/ UNCHANGED queue
        \/ Sends("float", c, [NoDetail EXCEPT !.floating = TRUE])
    BY DEF MakesFloat
  <2> QED BY <2>1, <2>2, SentEventsGood, SendsGood
<1> HIDE DEF r
<1> QED BY <1>1, <1>2, <1>3, WindowChanged DEF WindowsTyped

\* What the applier has to go on with: the other half of a call, for its window.
Halves(c) == {x \in Calls : x.op \in {"force", "record", "forget"} /\ x.client = c}

\* One step of the applier: the windows, its map and the thread's list.
Applies(t) ==
  LET call == Head(todo[t])
  IN  /\ ~Idle(t) /\ call \in Calls /\ call.op \in ApplierOps /\ call.client \in Clients
      /\ WindowsTyped(IF call.op = "force" THEN {call.client} ELSE {})
      /\ call.op = "force" => call.client \in Plain
      /\ \/ UNCHANGED hiddenFrom
         \/ /\ call.op = "record" /\ call.client \in Plain /\ call.ws \in Workspaces
            /\ hiddenFrom' = [hiddenFrom EXCEPT ![call.client] = call.ws]
         \/ /\ call.op = "forget"
            /\ hiddenFrom' = [hiddenFrom EXCEPT ![call.client] = None]
      /\ \/ Finishes(t)
         \/ \E x \in Halves(call.client) : Goes(t, <<x>>)

\* Every step of the applier.
LEMMA ApplierFacts ==
  ASSUME SessionTypes, NEW t \in Threads, ApplierStep(t)
  PROVE  Applies(t)
<1> DEFINE call == Head(todo[t])
           c == call.client
<1>1. ASSUME NEW op \in ApplierOps, Doing(t, op)
      PROVE  ~Idle(t) /\ call.op = op /\ call \in Calls /\ c \in Clients
  <2>1. ~Idle(t) /\ call.op = op
    BY <1>1 DEF Doing
  <2>2. call \in Calls
    BY <2>1, GoesFacts DEF SessionTypes
  <2>3. c \in Clients
    <3> HIDE DEF call
    <3> QED BY <2>1, <2>2, CallArguments DEF ApplierOps
  <2> QED BY <2>1, <2>2, <2>3
<1> HIDE DEF call
<1>2. ASSUME NEW op, NEW w, Call(op, c, w) \in Calls, op \in {"force", "record", "forget"}
      PROVE  Call(op, c, w) \in Halves(c)
  BY <1>2 DEF Halves, Call
<1>3. CASE HideClient(t)
  <2>1. Doing(t, "hide") /\ UNCHANGED <<window, queue, hiddenFrom>>
    BY <1>3 DEF HideClient
  <2>2. call.op = "hide" /\ call.client \in Plain /\ call.ws \in Workspaces
    BY <1>1, <2>1, CallArguments DEF ApplierOps
  <2>3. Call("force", c, call.ws) \in Halves(c)
    BY <1>2, <2>2, CallTypes
  <2>4. Finishes(t) \/ Goes(t, <<Call("force", c, call.ws)>>)
    BY <1>3 DEF HideClient, call
  <2> QED BY <1>1, <2>1, <2>2, <2>3, <2>4, NothingMoves DEF Applies, call, ApplierOps
<1>4. CASE HideClientForce(t)
  <2>1. Doing(t, "force") /\ UNCHANGED hiddenFrom
    BY <1>4 DEF HideClientForce
  <2>2. call.op = "force" /\ call.client \in Plain /\ call.ws \in Workspaces
    BY <1>1, <2>1, CallArguments DEF ApplierOps
  <2>3. \/ /\ Exists(c) /\ MovesTo(c, HiddenWorkspace)
           /\ Goes(t, <<Call("record", c, call.ws)>>)
        \/ Finishes(t) /\ UNCHANGED <<window, queue>>
    BY <1>4 DEF HideClientForce, call
  <2>4. Call("record", c, call.ws) \in Halves(c)
    BY <1>2, <2>2, CallTypes
  <2>5. c \in Clients /\ HiddenWorkspace \in Places
    BY <1>1, <2>1 DEF ApplierOps, Places
  <2>6. WindowsTyped({c})
    BY <2>3, <2>5, MovesFacts, NothingMoves
  <2> QED BY <1>1, <2>1, <2>2, <2>3, <2>4, <2>6 DEF Applies, call, ApplierOps
<1>5. CASE Record(t)
  <2>1. /\ Doing(t, "record") /\ UNCHANGED <<window, queue>> /\ Finishes(t)
        /\ hiddenFrom' = [hiddenFrom EXCEPT ![call.client] = call.ws]
    BY <1>5 DEF Record, call
  <2>2. call.op = "record" /\ call.client \in Plain /\ call.ws \in Workspaces
    BY <1>1, <2>1, CallArguments DEF ApplierOps
  <2> QED BY <1>1, <2>1, <2>2, NothingMoves DEF Applies, call, ApplierOps
<1>6. CASE ShowClient(t)
  <2>1. /\ Doing(t, "show") \/ Doing(t, "restore")
        /\ UNCHANGED hiddenFrom
        /\ \/ UNCHANGED <<window, queue>>
           \/ hiddenFrom[c] # None /\ Exists(c) /\ MovesTo(c, hiddenFrom[c])
        /\ Finishes(t) \/ Goes(t, <<Call("forget", c, None)>>)
    BY <1>6 DEF ShowClient, call
  <2>2. /\ ~Idle(t) /\ call.op \in {"show", "restore"} /\ call \in Calls /\ c \in Clients
    BY <1>1, <2>1 DEF ApplierOps
  <2>3. hiddenFrom[c] # None => hiddenFrom[c] \in Places /\ hiddenFrom[c] # HiddenWorkspace
    BY <2>2, HiddenAssumption DEF SessionTypes, Places, Maybe
  <2>4. WindowsTyped({})
    BY <2>1, <2>2, <2>3, MovesFacts, NothingMoves
  <2>5. Call("forget", c, None) \in Halves(c)
    BY <1>2, <2>2, CallTypes DEF Maybe
  <2> QED BY <2>1, <2>2, <2>4, <2>5 DEF Applies, call, ApplierOps
<1>7. CASE Forget(t)
  <2>1. /\ Doing(t, "forget") /\ UNCHANGED <<window, queue>> /\ Finishes(t)
        /\ hiddenFrom' = [hiddenFrom EXCEPT ![call.client] = None]
    BY <1>7 DEF Forget, call
  <2> QED BY <1>1, <2>1, NothingMoves DEF Applies, call, ApplierOps
<1>8. CASE EnsureClientFloating(t)
  <2>1. /\ Doing(t, "setfloating") /\ UNCHANGED hiddenFrom /\ Finishes(t)
        /\ UNCHANGED <<window, queue>> \/ (Exists(c) /\ MakesFloat(c))
    BY <1>8 DEF EnsureClientFloating, call
  <2>2. ~Idle(t) /\ call.op = "setfloating" /\ call \in Calls /\ c \in Clients
    BY <1>1, <2>1 DEF ApplierOps
  <2>3. WindowsTyped({})
    BY <2>1, <2>2, FloatsFacts, NothingMoves
  <2> QED BY <2>1, <2>2, <2>3 DEF Applies, call, ApplierOps
<1> QED BY <1>3, <1>4, <1>5, <1>6, <1>7, <1>8 DEF ApplierStep

\* A connection begins or ends.  The manager learns of it in a later step.
Connects ==
  /\ UNCHANGED <<window, queue, hiddenFrom>>
  /\ \/ /\ Accept \/ HangUp
        /\ MayStart("controller") /\ Idle("controller") /\ UNCHANGED vars /\ fd' \in BOOLEAN
        /\ \E op \in {"online", "clean-up"} : Then(<<Call(op, None, None)>>)
     \/ /\ GoOnline \/ GoOffline
        /\ UNCHANGED fd
        /\ ~Idle("controller") /\ Finishes("controller")
     \/ /\ CleanUp \/ Scan
        /\ ~Idle("controller") /\ UNCHANGED <<vars, fd>>
        /\ \E calls \in Seq(Calls) : Goes("controller", calls)

\* Every step of a connection is one of the manager, or none.
LEMMA ConnectionFacts ==
  ASSUME TInv, Connection
  PROVE  Connects /\ (Next \/ UNCHANGED vars)
<1>1. CASE Accept
  BY <1>1 DEF Accept, Connects, Then, MayStart
<1>2. CASE GoOnline
  BY <1>2 DEF GoOnline, Connects, NothingElse, Doing, Next
<1>3. CASE HangUp
  BY <1>3 DEF HangUp, Connects, Then, MayStart
<1>4. CASE CleanUp
  <2>1. <<Call("offline", None, None)>> \in Seq(Calls)
    BY CallTypes, ShortLists
  <2>2. managedWs # None => <<Call("scan", None, managedWs)>> \in Seq(Calls)
    BY CallTypes, ShortLists DEF TInv, IInv, TypeOK, Maybe, WorkspaceOps
  <2>3. \/ managedWs # None /\ Goes("controller", <<Call("scan", None, managedWs)>>)
        \/ Goes("controller", <<Call("offline", None, None)>>)
    BY <1>4 DEF CleanUp
  <2> QED BY <1>4, <2>1, <2>2, <2>3 DEF CleanUp, Connects, NothingElse, Doing
<1>6. CASE Scan
  <2> DEFINE w == Head(todo["controller"]).ws
             held == {c \in Clients : hiddenFrom[c] = w}
             offline == <<Call("offline", None, None)>>
  <2>1. Doing("controller", "scan") /\ Goes("controller", ForEach(held, "restore", w) \o offline)
    BY <1>6 DEF Scan
  <2>2. w \in Maybe(Workspaces)
    <3>1. ~Idle("controller") /\ todo \in [Threads -> Seq(Calls)] /\ "controller" \in Threads
      BY <2>1 DEF Doing, TInv, SessionTypes, Threads
    <3>2. Head(todo["controller"]) \in Calls
      BY <3>1, GoesFacts
    <3> QED BY <3>2, CallArguments
  <2>3. held \in SUBSET Clients
    OBVIOUS
  <2> HIDE DEF w, held, offline
  <2>4. \A c \in held : Call("restore", c, w) \in Calls
    BY <2>2, <2>3, CallTypes
  <2>5. ForEach(held, "restore", w) \in Seq(Calls)
    BY <2>3, <2>4, ForEachFacts
  <2>6. offline \in Seq(Calls)
    BY CallTypes, ShortLists DEF offline
  <2>7. ForEach(held, "restore", w) \o offline \in Seq(Calls)
    BY <2>5, <2>6, ShortLists
  <2> QED BY <1>6, <2>1, <2>7 DEF Scan, Connects, NothingElse, Doing
<1>5. CASE GoOffline
  BY <1>5 DEF GoOffline, Connects, NothingElse, Doing, Next
<1> QED BY <1>1, <1>2, <1>3, <1>4, <1>5, <1>6 DEF Connection

-----------------------------------------------------------------------------
(* The invariant of the session.                                           *)

\* The session begins with the right types.
LEMMA TInvInit == SessionInit => TInv
<1> SUFFICES ASSUME SessionInit PROVE TInv
  OBVIOUS
<1>1. IInv
  BY IInvInit DEF SessionInit
<1>2. KindsIn(registry)
  BY DEF SessionInit, Init, EmptyRegistry, KindsIn, Known
<1>3. window \in [Clients -> Maybe(Window)] /\ HiddenWindows = {}
  BY HiddenAssumption
  DEF SessionInit, CompositorInit, Maybe, Window, Places, HiddenWindows, Exists
<1>4. queue \in Seq(GoodEvents)
  BY EmptySeq DEF SessionInit, CompositorInit
<1>5. todo \in [Threads -> Seq(Calls)]
  BY EmptySeq DEF SessionInit, ApplierInit
<1>6. SessionTypes
  BY <1>3, <1>4, <1>5
  DEF SessionTypes, SessionInit, CompositorInit, ApplierInit, Exists, Maybe
<1> QED BY <1>1, <1>2, <1>6 DEF TInv

\* Every step of the session is a step of the manager or none, and keeps the types.
LEMMA SessionStep ==
  ASSUME TInv, [SessionNext]_sessionVars
  PROVE  [Next]_vars /\ SessionTypes'
<1>1. SessionTypes
  BY DEF TInv
<1>2. ASSUME UNCHANGED <<window, hiddenFrom>>, queue' \in Seq(GoodEvents),
             todo' \in [Threads -> Seq(Calls)], fd' \in BOOLEAN
      PROVE  SessionTypes'
  BY <1>1, <1>2 DEF SessionTypes, Exists, HiddenWindows
<1>3. CommandCalls \subseteq Calls /\ EventCalls \subseteq Calls
  BY CommandCallTypes, EventCallTypes
<1>4. ASSUME NEW t \in Threads, NEW calls \in Seq(Calls),
             todo' = [todo EXCEPT ![t] = calls]
      PROVE  todo' \in [Threads -> Seq(Calls)]
  BY <1>1, <1>4 DEF SessionTypes
<1>5. ASSUME NEW t \in Threads, ~Idle(t),
             Finishes(t) \/ \E calls \in Seq(Calls) : Goes(t, calls)
      PROVE  todo' \in [Threads -> Seq(Calls)]
  BY <1>1, <1>5, GoesFacts DEF SessionTypes
<1>6. "event" \in Threads /\ "controller" \in Threads
  BY DEF Threads
<1>7. CASE HandleEvent
  <2>1. Reads /\ Next
    BY <1>7, HandleEventFacts
  <2>2. Duties(notice') \in Seq(Calls)
    BY <1>3, <2>1, SeqMonotonic DEF Reads
  <2>3. queue' \in Seq(GoodEvents)
    BY <1>1, <2>1, HeadInRange DEF Reads, SessionTypes
  <2> QED BY <1>1, <1>2, <1>4, <1>6, <2>1, <2>2, <2>3 DEF Reads, SessionTypes
<1>8. CASE Answer \/ Enforce
  <2>1. Serves /\ (Next \/ UNCHANGED vars)
    BY <1>8, ServesEvent
  <2>2. PICK calls \in Seq(EventCalls) : Goes("event", calls)
    BY <2>1 DEF Serves
  <2>3. calls \in Seq(Calls)
    BY <1>3, SeqMonotonic
  <2> QED BY <1>1, <1>2, <1>5, <1>6, <2>1, <2>2, <2>3 DEF Serves, NothingElse, SessionTypes
<1>9. CASE Connection
  <2>1. Connects /\ (Next \/ UNCHANGED vars)
    BY <1>9, ConnectionFacts
  <2>2. fd' \in BOOLEAN /\ UNCHANGED <<window, queue, hiddenFrom>>
    BY <1>1, <2>1 DEF Connects, SessionTypes
  <2>3. \A op \in {"online", "clean-up"} : <<Call(op, None, None)>> \in Seq(Calls)
    BY CallTypes, ShortLists
  <2>4. todo' \in [Threads -> Seq(Calls)]
    <3>1. ASSUME NEW op \in {"online", "clean-up"}, Then(<<Call(op, None, None)>>)
          PROVE  todo' \in [Threads -> Seq(Calls)]
      BY <1>4, <1>6, <2>3, <3>1 DEF Then
    <3>2. ASSUME ~Idle("controller"),
                 Finishes("controller") \/ \E calls \in Seq(Calls) : Goes("controller", calls)
          PROVE  todo' \in [Threads -> Seq(Calls)]
      BY <1>5, <1>6, <3>2
    <3> QED BY <2>1, <3>1, <3>2 DEF Connects
  <2> QED BY <1>1, <1>2, <2>1, <2>2, <2>4 DEF SessionTypes
<1>10. CASE CommandReceived \/ \E c \in Clients : SeedCommand(c)
  <2>1. Starts /\ (Next \/ UNCHANGED vars)
    BY <1>10, StartsCommand
  <2>2. PICK calls \in Seq(CommandCalls) : Then(calls)
    BY <2>1 DEF Starts
  <2>3. calls \in Seq(Calls)
    BY <1>3, SeqMonotonic
  <2> QED BY <1>1, <1>2, <1>4, <1>6, <2>1, <2>2, <2>3
          DEF Starts, NothingElse, SessionTypes, Then
<1>11. CASE CommandStep
  <2>1. Continues /\ (Next \/ UNCHANGED vars)
    BY <1>11, ContinuesCommand
  <2>2. PICK calls \in Seq(CommandCalls) : Goes("controller", calls)
    BY <2>1 DEF Continues
  <2>3. calls \in Seq(Calls)
    BY <1>3, SeqMonotonic
  <2> QED BY <1>1, <1>2, <1>5, <1>6, <2>1, <2>2, <2>3 DEF Continues, NothingElse, SessionTypes
<1>12. ASSUME NEW t \in Threads, ApplierStep(t) /\ UNCHANGED <<vars, fd>>
       PROVE  [Next]_vars /\ SessionTypes'
  <2> DEFINE call == Head(todo[t])
  <2>1. Applies(t)
    BY <1>1, <1>12, ApplierFacts
  <2>2. /\ ~Idle(t) /\ call \in Calls /\ call.client \in Clients
        /\ call.op = "force" => call.client \in Plain
        /\ WindowsTyped(IF call.op = "force" THEN {call.client} ELSE {})
    BY <2>1 DEF Applies
  <2>3. todo' \in [Threads -> Seq(Calls)]
    <3>1. CASE Finishes(t)
      BY <1>5, <2>2, <3>1
    <3>2. ASSUME NEW x \in Halves(call.client), Goes(t, <<x>>)
          PROVE  todo' \in [Threads -> Seq(Calls)]
      BY <1>5, <2>2, <3>2, ShortLists DEF Halves
    <3> QED BY <2>1, <3>1, <3>2 DEF Applies
  <2>4. /\ hiddenFrom' \in [Clients -> Maybe(Workspaces)]
        /\ \A c \in Clients : hiddenFrom'[c] # None => c \in Plain
    <3>1. CASE UNCHANGED hiddenFrom
      BY <1>1, <3>1 DEF SessionTypes
    <3>2. CASE /\ call.client \in Plain /\ call.ws \in Workspaces
               /\ hiddenFrom' = [hiddenFrom EXCEPT ![call.client] = call.ws]
      BY <1>1, <2>2, <3>2 DEF SessionTypes, Maybe
    <3>3. CASE hiddenFrom' = [hiddenFrom EXCEPT ![call.client] = None]
      BY <1>1, <2>2, <3>3 DEF SessionTypes, Maybe
    <3> QED BY <2>1, <3>1, <3>2, <3>3 DEF Applies
  <2>5. HiddenWindows' \subseteq Plain
    BY <1>1, <2>2 DEF WindowsTyped, SessionTypes
  <2> QED BY <1>1, <1>12, <2>2, <2>3, <2>4, <2>5 DEF WindowsTyped, SessionTypes
<1>13. CASE UserStep /\ UNCHANGED <<vars, applierVars, fd>>
  <2>1. WindowsTyped({})
    BY <1>1, <1>13, UserFacts
  <2> QED BY <1>1, <1>13, <2>1 DEF WindowsTyped, SessionTypes, applierVars
<1>14. CASE UNCHANGED sessionVars
  BY <1>1, <1>2, <1>14 DEF sessionVars, applierVars, SessionTypes
<1> QED
  BY <1>7, <1>8, <1>9, <1>10, <1>11, <1>12, <1>13, <1>14 DEF SessionNext, EventThread

\* Every step keeps the types.
LEMMA TInvNext == TInv /\ [SessionNext]_sessionVars => TInv'
<1> SUFFICES ASSUME TInv, [SessionNext]_sessionVars PROVE TInv'
  OBVIOUS
<1>1. [Next]_vars /\ SessionTypes'
  BY SessionStep
<1>2. IInv'
  BY <1>1, IInvNext DEF TInv
<1>3. KindsIn(registry')
  BY <1>1, KindsStep DEF TInv, IInv, TypeOK, vars
<1> QED BY <1>1, <1>2, <1>3 DEF TInv

\* Types, always.
LEMMA TInvAlways == SessionSpec => []TInv
  BY TInvInit, TInvNext, PTL DEF SessionSpec

-----------------------------------------------------------------------------
(* The theorems.                                                           *)

\* The two threads use the manager as its own specification expects: whatever they
\* and the user do, and in whatever order, a run of the session is a run of the
\* manager, so that all that is proved of the manager holds of the session.
THEOREM SessionImplementsManager == SessionSpec => Spec
<1>1. SessionInit => Init
  BY DEF SessionInit
<1>2. TInv /\ [SessionNext]_sessionVars => [Next]_vars
  BY SessionStep
<1> QED BY <1>1, <1>2, TInvAlways, PTL DEF SessionSpec, Spec

\* Types.
THEOREM SessionTypeCorrect == SessionSpec => []SessionTypeOK
<1>1. TInv => SessionTypeOK
  <2> SUFFICES ASSUME TInv PROVE SessionTypeOK
    OBVIOUS
  <2>1. TypeOK
    BY DEF TInv, IInv
  <2>2. SessionTypes
    BY DEF TInv
  <2>3. GoodEvents \subseteq Event
    BY DEF GoodEvents
  <2>4. CompositorType
    BY <2>2, <2>3, SeqMonotonic DEF CompositorType, SessionTypes
  <2>5. ASSUME NEW t \in Threads, NEW i \in DOMAIN todo[t]
        PROVE  todo[t][i].ws \in Maybe(Workspaces)
    <3>1. todo[t] \in Seq(Calls)
      BY <2>2 DEF SessionTypes
    <3>2. todo[t][i] \in Calls
      BY <3>1, LenProperties
    <3> QED BY <3>2, CallArguments
  <2> QED BY <2>1, <2>2, <2>4, <2>5 DEF SessionTypeOK, SessionTypes
<1> QED BY <1>1, TInvAlways, PTL

\* No thread ever hides a popup.
THEOREM NativeSurfacesLeftAlone == SessionSpec => []NativeSurfacesUntouched
<1>1. TInv => NativeSurfacesUntouched
  BY DEF TInv, SessionTypes, Plain, NativeSurfacesUntouched
<1> QED BY <1>1, TInvAlways, PTL
=============================================================================
