----------------------- MODULE WorkspaceManagerProofs -----------------------
(***************************************************************************)
(* Invariants of WorkspaceManager, for every set of windows, workspaces    *)
(* and options, and, but for PolicyInForce, any compositor faults.         *)
(***************************************************************************)
EXTENDS WorkspaceManager, WellFoundedInduction, TLAPS

\* The registry agrees with w being the managed workspace.
Reconciled(reg, w) ==
  \A c \in Clients :
    Known(reg, c) => (reg.client[c].managed <=> ShouldManage(reg.client[c], w))

-----------------------------------------------------------------------------
(* The registry's methods.                                                 *)

LEMMA EmptyRegistryType == EmptyRegistry \in Registry
  BY DEF EmptyRegistry, Registry, Maybe

\* A window record, or the lack of one.
LEMMA RecordOfClient ==
  ASSUME NEW reg \in Registry, NEW c \in Clients, Known(reg, c)
  PROVE  /\ reg.client[c] \in ClientRecord
         /\ reg.client[c].ws \in Workspaces
         /\ reg.client[c].kind \in Kinds
         /\ reg.client[c].floating \in BOOLEAN
         /\ reg.client[c].managed \in BOOLEAN
  BY DEF Registry, Known, Maybe, ClientRecord

LEMMA UpsertOpenType ==
  ASSUME NEW reg \in Registry, NEW c \in Clients, NEW w \in Workspaces, NEW k \in Kinds
  PROVE  UpsertOpen(reg, c, w, k) \in Registry
<1> DEFINE r == [ws |-> w, kind |-> k,
                 floating |-> Known(reg, c) /\ reg.client[c].floating,
                 managed  |-> Known(reg, c) /\ reg.client[c].managed]
<1>1. r \in ClientRecord
  <2>1. (Known(reg, c) /\ reg.client[c].floating) \in BOOLEAN
    OBVIOUS
  <2>2. (Known(reg, c) /\ reg.client[c].managed) \in BOOLEAN
    OBVIOUS
  <2> QED BY <2>1, <2>2 DEF ClientRecord
<1> HIDE DEF r
<1>2. [reg EXCEPT !.client[c] = r] \in Registry
  BY <1>1 DEF Registry, Maybe
<1> QED BY <1>2 DEF UpsertOpen, r

LEMMA EraseType ==
  ASSUME NEW reg \in Registry, NEW c \in Clients
  PROVE  Erase(reg, c) \in Registry
  BY DEF Erase, Registry, Maybe

LEMMA UpdateWorkspaceType ==
  ASSUME NEW reg \in Registry, NEW c \in Clients, NEW w \in Workspaces
  PROVE  UpdateWorkspace(reg, c, w) \in Registry
<1>1. ASSUME Known(reg, c)
      PROVE  [reg.client[c] EXCEPT !.ws = w] \in ClientRecord
  BY <1>1, RecordOfClient DEF ClientRecord
<1> QED BY <1>1 DEF UpdateWorkspace, Registry, Maybe

LEMMA UpdateTitleType ==
  ASSUME NEW reg \in Registry, NEW c \in Clients, NEW k \in Kinds
  PROVE  UpdateTitle(reg, c, k) \in Registry
<1>1. ASSUME Known(reg, c)
      PROVE  [reg.client[c] EXCEPT !.kind = k] \in ClientRecord
  BY <1>1, RecordOfClient DEF ClientRecord
<1> QED BY <1>1 DEF UpdateTitle, Registry, Maybe

LEMMA SetFloatingType ==
  ASSUME NEW reg \in Registry, NEW c \in Clients, NEW f \in BOOLEAN
  PROVE  SetFloating(reg, c, f) \in Registry
<1>1. ASSUME Known(reg, c)
      PROVE  [reg.client[c] EXCEPT !.floating = f] \in ClientRecord
  BY <1>1, RecordOfClient DEF ClientRecord
<1> QED BY <1>1 DEF SetFloating, Registry, Maybe

\* Focusing a window changes no record.
LEMMA SetFocusFacts ==
  ASSUME NEW reg \in Registry, NEW c \in Clients
  PROVE  /\ SetFocus(reg, c) \in Registry
         /\ SetFocus(reg, c).client = reg.client
  BY DEF SetFocus, Registry, Maybe

\* reconcile_management sets the managed flags right and changes nothing else.
LEMMA ReconcileFacts ==
  ASSUME NEW reg \in Registry, NEW w
  PROVE  /\ ReconcileManagement(reg, w) \in Registry
         /\ Reconciled(ReconcileManagement(reg, w), w)
<1> DEFINE marked == [c \in Clients |->
                        IF Known(reg, c)
                        THEN [reg.client[c] EXCEPT !.managed = ShouldManage(reg.client[c], w)]
                        ELSE None]
           kept == {c \in Clients : Known(reg, c) /\ marked[c].managed}
           sel == IF reg.selected \in kept THEN reg.selected ELSE None
           out == ReconcileManagement(reg, w)
<1>1. out = [client |-> marked, selected |-> sel]
  BY DEF ReconcileManagement
<1>2. ASSUME NEW c \in Clients, Known(reg, c)
      PROVE  /\ marked[c] \in ClientRecord
             /\ marked[c].managed = ShouldManage(reg.client[c], w)
             /\ ShouldManage(marked[c], w) = ShouldManage(reg.client[c], w)
  <2>1. ShouldManage(reg.client[c], w) \in BOOLEAN
    BY DEF ShouldManage
  <2>2. marked[c] = [reg.client[c] EXCEPT !.managed = ShouldManage(reg.client[c], w)]
    BY <1>2
  <2> HIDE DEF marked
  <2>3. /\ marked[c] \in ClientRecord
        /\ marked[c].managed = ShouldManage(reg.client[c], w)
        /\ marked[c].ws = reg.client[c].ws
        /\ marked[c].kind = reg.client[c].kind
        /\ marked[c].floating = reg.client[c].floating
    BY <1>2, <2>1, <2>2, RecordOfClient DEF ClientRecord
  <2> QED BY <2>3 DEF ShouldManage, Eligible
<1>3. ASSUME NEW c \in Clients, ~Known(reg, c) PROVE marked[c] = None
  BY <1>3
<1>4. marked \in [Clients -> Maybe(ClientRecord)]
  BY <1>2, <1>3 DEF Maybe
<1>5. sel \in Maybe(Clients)
  BY DEF Maybe
<1>6. out \in Registry
  BY <1>1, <1>4, <1>5 DEF Registry
<1>7. Reconciled(out, w)
  <2> SUFFICES ASSUME NEW c \in Clients, Known(out, c)
               PROVE  out.client[c].managed <=> ShouldManage(out.client[c], w)
    BY DEF Reconciled
  <2>1. out.client[c] = marked[c]
    BY <1>1
  <2>2. Known(reg, c)
    BY <2>1, <1>3 DEF Known
  <2> QED BY <2>1, <2>2, <1>2
<1> QED BY <1>6, <1>7

-----------------------------------------------------------------------------
(* The helpers of WorkspaceManager.                                        *)

\* Window ids are numbers, so a set of them that is not empty has a lowest one.
LEMMA LowestIsMember ==
  ASSUME NEW S \in SUBSET Clients, S # {}
  PROVE  Lowest(S) \in S
<1> DEFINE Less == OpToRel(<, Nat)
<1>1. S \subseteq Nat
  BY ClientsAssumption
<1>2. PICK x \in S : \A y \in S : ~ (<<y, x>> \in Less)
  BY <1>1, NatLessThanWellFounded, WFMin
<1>3. \A y \in S : x =< y
  <2> TAKE y \in S
  <2>1. ~ (y < x)
    BY <1>1, <1>2 DEF OpToRel
  <2> QED BY <2>1, <1>1
<1> QED BY <1>3 DEF Lowest

\* Of an Emacs frame on the managed workspace, or of none if there is none.
RightFrame(emacs, reg, w) ==
  /\ emacs # None => emacs \in EmacsClients(reg, w)
  /\ w # None /\ EmacsClients(reg, w) # {} => emacs # None
  /\ w = None => emacs = None

LEMMA RefreshManagingEmacsFacts ==
  ASSUME NEW reg \in Registry, NEW w \in Maybe(Workspaces),
         NEW current \in Maybe(Clients), NEW last \in Maybe(Clients)
  PROVE  /\ RefreshManagingEmacs(reg, w, current, last) \in Maybe(Clients)
         /\ RightFrame(RefreshManagingEmacs(reg, w, current, last), reg, w)
<1> DEFINE frames == EmacsClients(reg, w)
<1>1. frames \in SUBSET Clients /\ None \notin frames
  BY NoneAssumption DEF EmacsClients
<1>2. /\ frames # {} => FindEmacs(reg, w) \in frames
      /\ frames = {} => FindEmacs(reg, w) = None
  BY <1>1, LowestIsMember DEF FindEmacs
<1>3. CASE w = None
  BY <1>3 DEF RefreshManagingEmacs, RightFrame, Maybe
<1>4. CASE w # None
  <2> DEFINE out == RefreshManagingEmacs(reg, w, current, last)
  <2>1. (out \in frames) \/ (frames = {} /\ out = None)
    BY <1>2, <1>4 DEF RefreshManagingEmacs
  <2> QED BY <2>1, <1>1, <1>4 DEF RightFrame, Maybe
<1> QED BY <1>3, <1>4

LEMMA SelectedManagedType ==
  ASSUME NEW reg \in Registry, NEW w
  PROVE  SelectedManaged(reg, w) \in Maybe(Clients)
  BY DEF SelectedManaged, Registry, Maybe

\* LayoutAgrees and the type of layout, of any state.
Agrees(lay, reg, w, mode, emacs) ==
  lay # None =>
    /\ lay.ws = w
    /\ lay.visible \cup lay.hidden = ManagedClients(reg)
    /\ lay.visible \cap lay.hidden = {}
    /\ lay.selected = SelectedManaged(reg, w)
    /\ lay.inputMode = mode
    /\ lay.managingEmacs = emacs

LEMMA SyncLayoutFacts ==
  ASSUME NEW reg \in Registry, NEW w \in Maybe(Workspaces), Reconciled(reg, w),
         NEW lay \in Maybe(Layout), NEW mode \in Maybe(InputModes),
         NEW emacs \in Maybe(Clients),
         lay # None => lay.ws = w /\ lay.visible \cap lay.hidden = {}
  PROVE  /\ SyncLayout(lay, reg, w, mode, emacs) \in Maybe(Layout)
         /\ Agrees(SyncLayout(lay, reg, w, mode, emacs), reg, w, mode, emacs)
         /\ lay = None => SyncLayout(lay, reg, w, mode, emacs) = None
         /\ w = None => SyncLayout(lay, reg, w, mode, emacs) = None
<1> DEFINE out == SyncLayout(lay, reg, w, mode, emacs)
<1>1. CASE lay = None
  BY <1>1 DEF SyncLayout, Agrees, Maybe
<1>2. CASE lay # None
  <2>1. lay \in Layout /\ lay.ws \in Workspaces /\ w = lay.ws /\ w # None
    BY <1>2, NoneAssumption DEF Layout, Maybe
  <2> DEFINE active == {c \in ManagedClients(reg) :
                          reg.client[c].ws = w /\ Eligible(reg.client[c])}
             visible == lay.visible \cap active
             hidden == (lay.hidden \cap active)
                         \cup (active \ (visible \cup lay.hidden))
             sel == SelectedManaged(reg, w)
  <2>2. active = ManagedClients(reg) /\ active \in SUBSET Clients
    BY DEF ManagedClients, Reconciled, ShouldManage
  <2>3. out = [ws |-> lay.ws, visible |-> visible, hidden |-> hidden,
               selected |-> sel, inputMode |-> mode, managingEmacs |-> emacs]
    BY <1>2, <2>1 DEF SyncLayout
  <2>4. sel \in Maybe(Clients)
    BY SelectedManagedType
  <2>5. /\ visible \in SUBSET Clients /\ hidden \in SUBSET Clients
        /\ visible \cup hidden = active
        /\ visible \cap hidden = {}
    BY <1>2, <2>2
  <2> HIDE DEF active, visible, hidden, sel
  <2>6. out \in Layout
    BY <2>1, <2>3, <2>4, <2>5 DEF Layout
  <2>7. Agrees(out, reg, w, mode, emacs)
    BY <2>1, <2>2, <2>3, <2>5 DEF Agrees, sel
  <2> QED BY <1>2, <2>1, <2>6, <2>7 DEF Maybe
<1> QED BY <1>1, <1>2

LEMMA QueriedFacts ==
  ASSUME NEW reg \in Registry, NEW c \in Clients, NEW f \in Answers,
         Reconciled(reg, managedWs)
  PROVE  /\ Queried(reg, c, f) \in Registry
         /\ Reconciled(Queried(reg, c, f), managedWs)
<1>1. CASE QueryApplies(reg, c, f) /\ ~IgnoresFloat(layout, overlayPending, c, f)
  <2>1. f \in BOOLEAN
    BY <1>1 DEF QueryApplies, Answers
  <2>2. Queried(reg, c, f) = ReconcileManagement(SetFloating(reg, c, f), managedWs)
    BY <1>1 DEF Queried
  <2>3. SetFloating(reg, c, f) \in Registry
    BY <2>1, SetFloatingType
  <2> QED BY <2>2, <2>3, ReconcileFacts
<1>2. CASE ~(QueryApplies(reg, c, f) /\ ~IgnoresFloat(layout, overlayPending, c, f))
  BY <1>2 DEF Queried
<1> QED BY <1>1, <1>2

\* Tokens are only ever taken away by an event.
LEMMA TokensShrink ==
  ASSUME NEW reg, NEW c, NEW f
  PROVE  /\ ConsumeToken(layout, overlayPending, c, f) \subseteq overlayPending
         /\ QueriedTokens(reg, c, f) \subseteq overlayPending
  BY DEF ConsumeToken, QueriedTokens

\* A refresh of the windows in S keeps the registry reconciled.
LEMMA RefreshRegistryFacts ==
  ASSUME NEW reg \in Registry, NEW S \in SUBSET Clients, NEW mw,
         NEW answers \in [Clients -> Answers],
         \A c \in S : Known(reg, c) /\ answers[c] # None
  PROVE  /\ RefreshRegistry(reg, S, answers, mw) \in Registry
         /\ Reconciled(reg, mw) => Reconciled(RefreshRegistry(reg, S, answers, mw), mw)
<1> DEFINE new == [c \in Clients |->
                     IF c \in S THEN [reg.client[c] EXCEPT !.floating = answers[c]]
                     ELSE reg.client[c]]
           changed == [reg EXCEPT !.client = new]
<1>1. ASSUME NEW c \in S
      PROVE  [reg.client[c] EXCEPT !.floating = answers[c]] \in ClientRecord
  <2>1. answers[c] \in BOOLEAN
    BY DEF Answers
  <2> QED BY <2>1, RecordOfClient DEF ClientRecord
<1>2. new \in [Clients -> Maybe(ClientRecord)]
  BY <1>1 DEF Registry, Maybe
<1> HIDE DEF new
<1>3. changed \in Registry
  BY <1>2 DEF Registry
<1>4. CASE S = {}
  BY <1>4 DEF RefreshRegistry
<1>5. CASE S # {}
  <2>1. RefreshRegistry(reg, S, answers, mw) = ReconcileManagement(changed, mw)
    BY <1>5 DEF RefreshRegistry, new
  <2> QED BY <2>1, <1>3, ReconcileFacts
<1> QED BY <1>4, <1>5

-----------------------------------------------------------------------------
(* The policy lease, of which w is the only holder, or no one is.          *)

LeaseOf(p, w) ==
  /\ p.lease = IF w = None THEN 0 ELSE 1
  /\ \A v \in Workspaces : p.savedLayout[v] # None <=> v = w
  /\ w = None => \A o \in Options : p.savedOption[o] = None

LEMMA DispatchLayoutFacts ==
  ASSUME NEW p \in Policy, NEW w \in Workspaces, NEW l \in Layouts, NEW done
  PROVE  /\ DispatchLayout(p, w, l, done) \in Policy
         /\ DispatchLayout(p, w, l, done).savedLayout = p.savedLayout
         /\ DispatchLayout(p, w, l, done).savedOption = p.savedOption
         /\ DispatchLayout(p, w, l, done).lease = p.lease
  BY DEF DispatchLayout, Policy

LEMMA ApplyManagedLayoutFacts ==
  ASSUME NEW p \in Policy, NEW w \in Workspaces, LeaseOf(p, None),
         NEW answered, NEW done
  PROVE  /\ ApplyManagedLayout(p, w, answered, done) \in Policy
         /\ LeaseOf(ApplyManagedLayout(p, w, answered, done), w)
<1>1. p.lease = 0 /\ p.savedLayout[w] = None /\ w # None
  BY NoneAssumption DEF LeaseOf
<1> DEFINE saved == [p EXCEPT !.savedLayout[w] = QueryLayout(p, w, answered)]
           set == DispatchLayout(saved, w, "hyprmacs", done)
           out == ApplyManagedLayout(p, w, answered, done)
<1>2. QueryLayout(p, w, answered) \in Layouts
  BY DEF QueryLayout, Policy, Layouts
<1>3. QueryLayout(p, w, answered) # None
  BY <1>2, NoneIsNoName DEF Layouts
<1>4. /\ saved \in Policy
      /\ saved.lease = 0
      /\ \A v \in Workspaces : saved.savedLayout[v] # None <=> v = w
  <2> DEFINE q == QueryLayout(p, w, answered)
             layouts == [p.savedLayout EXCEPT ![w] = q]
  <2>1. p.savedLayout \in [Workspaces -> Maybe(Layouts)]
    BY DEF Policy
  <2>2. \A v \in Workspaces : v # w => p.savedLayout[v] = None
    BY NoneAssumption DEF LeaseOf
  <2> HIDE DEF q
  <2>3. /\ layouts \in [Workspaces -> Maybe(Layouts)]
        /\ \A v \in Workspaces : layouts[v] # None <=> v = w
    BY <1>2, <1>3, <2>1, <2>2 DEF Maybe, q
  <2>4. saved = [p EXCEPT !.savedLayout = layouts]
    <3>1. saved = [p EXCEPT !.savedLayout = [p.savedLayout EXCEPT ![w] = q]]
      BY Zenon DEF q
    <3> QED BY <3>1
  <2> HIDE DEF saved, layouts
  <2> QED BY <1>1, <2>3, <2>4 DEF Policy
<1> HIDE DEF saved
<1>5. /\ set \in Policy
      /\ set.lease = 0
      /\ set.savedLayout = saved.savedLayout
  BY <1>4, DispatchLayoutFacts DEF Layouts
<1>6. out = AcquireLease(set, answered, done)
  BY <1>1 DEF ApplyManagedLayout, saved
<1> HIDE DEF set, out
<1>7. AcquireLease(set, answered, done) =
        [set EXCEPT
           !.lease = 1,
           !.savedOption = [o \in Options |->
              IF o \in answered THEN set.option[o] ELSE None],
           !.option = [o \in Options |-> IF o \in done THEN "off" ELSE set.option[o]]]
  BY <1>5 DEF AcquireLease
<1>8. /\ out.lease = 1
      /\ out.savedLayout = set.savedLayout
      /\ out \in Policy
  <2> DEFINE kept == [o \in Options |->
                         IF o \in answered THEN set.option[o] ELSE None]
             off == [o \in Options |-> IF o \in done THEN "off" ELSE set.option[o]]
  <2>1. set.option \in [Options -> OptionValues]
    BY <1>5 DEF Policy
  <2>2. kept \in [Options -> Maybe(OptionValues)] /\ off \in [Options -> OptionValues]
    BY <2>1 DEF Maybe, OptionValues
  <2>3. out = [set EXCEPT !.lease = 1, !.savedOption = kept, !.option = off]
    BY <1>6, <1>7
  <2> HIDE DEF kept, off
  <2> QED BY <1>5, <2>2, <2>3 DEF Policy
<1> QED BY <1>1, <1>4, <1>5, <1>8 DEF LeaseOf, out

LEMMA RestoreManagedLayoutFacts ==
  ASSUME NEW p \in Policy, NEW w \in Workspaces, LeaseOf(p, w), NEW done
  PROVE  /\ RestoreManagedLayout(p, w, done) \in Policy
         /\ LeaseOf(RestoreManagedLayout(p, w, done), None)
<1>1. p.lease = 1 /\ p.savedLayout[w] # None /\ w # None
  BY NoneAssumption DEF LeaseOf
<1> DEFINE back == p.savedLayout[w]
           restored == DispatchLayout(p, w, back, done)
           erased == [restored EXCEPT !.savedLayout[w] = None]
           out == RestoreManagedLayout(p, w, done)
<1>2. back \in Layouts
  BY <1>1 DEF Policy, Maybe
<1> HIDE DEF back
<1>3. /\ restored \in Policy
      /\ restored.lease = 1
      /\ restored.savedLayout = p.savedLayout
  BY <1>1, <1>2, DispatchLayoutFacts
<1> HIDE DEF restored
<1>4. /\ erased \in Policy
      /\ erased.lease = 1
      /\ \A v \in Workspaces : erased.savedLayout[v] = None
  BY <1>3 DEF Policy, Maybe, LeaseOf
<1>5. out = ReleaseLease(erased, done)
  BY <1>1 DEF RestoreManagedLayout, restored, back
<1> HIDE DEF erased, out
<1>6. ReleaseLease(erased, done) =
        [erased EXCEPT
           !.lease = 0,
           !.savedOption = [o \in Options |-> None],
           !.option = [o \in Options |->
              IF o \in done /\ erased.savedOption[o] # None
              THEN erased.savedOption[o] ELSE erased.option[o]]]
  BY <1>4 DEF ReleaseLease
<1>7. /\ out.lease = 0
      /\ out.savedLayout = erased.savedLayout
      /\ out.savedOption = [o \in Options |-> None]
      /\ out \in Policy
  <2> DEFINE none == [o \in Options |-> None]
             given == [o \in Options |->
                         IF o \in done /\ erased.savedOption[o] # None
                         THEN erased.savedOption[o] ELSE erased.option[o]]
  <2>1. /\ erased.option \in [Options -> OptionValues]
        /\ erased.savedOption \in [Options -> Maybe(OptionValues)]
    BY <1>4 DEF Policy
  <2>2. none \in [Options -> Maybe(OptionValues)] /\ given \in [Options -> OptionValues]
    BY <2>1 DEF Maybe
  <2>3. out = [erased EXCEPT !.lease = 0, !.savedOption = none, !.option = given]
    BY <1>5, <1>6
  <2> HIDE DEF none, given
  <2>4. /\ out.lease = 0
        /\ out.savedLayout = erased.savedLayout
        /\ out.savedOption = none
        /\ out \in Policy
    BY <1>4, <2>2, <2>3 DEF Policy
  <2> QED BY <2>4 DEF none
<1> QED BY <1>4, <1>7, NoneAssumption DEF LeaseOf, out

-----------------------------------------------------------------------------
(* The inductive invariant.  The conjuncts need each other: LayoutAgrees is *)
(* preserved because the registry is reconciled, a notice is well typed     *)
(* because only a managed workspace has managed windows, and the lease is   *)
(* 1 exactly when there is a workspace to give it back for.                 *)

IInv ==
  /\ TypeOK
  /\ Reconciled(registry, managedWs)
  /\ Agrees(layout, registry, managedWs, inputMode, managingEmacs)
  /\ RightFrame(managingEmacs, registry, managedWs)
  /\ LeaseOf(policy, managedWs)
  /\ NoStaleManagedState

LEMMA IInvInit == Init => IInv
<1> SUFFICES ASSUME Init PROVE IInv
  OBVIOUS
<1>1. policy \in Policy /\ LeaseOf(policy, None)
  BY NoneAssumption DEF Init, InitPolicy, Policy, LeaseOf, Maybe, OptionValues, Layouts
<1>2. TypeOK
  BY <1>1, EmptyRegistryType DEF Init, TypeOK, Maybe
<1>3. \A c \in Clients : ~Known(registry, c)
  BY DEF Init, EmptyRegistry, Known
<1>4. ManagedClients(registry) = {} /\ EmacsClients(registry, managedWs) = {}
  BY <1>3 DEF ManagedClients, EmacsClients
<1> QED
  BY <1>1, <1>2, <1>3, <1>4
  DEF IInv, Init, Reconciled, Agrees, RightFrame, NoStaleManagedState

\* Without a managed workspace no window is managed.
LEMMA NoneManaged ==
  ASSUME NEW reg, Reconciled(reg, None)
  PROVE  ManagedClients(reg) = {}
  BY DEF Reconciled, ManagedClients, ShouldManage

\* What every event that mutates state ends with.
LEMMA SettleStep ==
  ASSUME IInv, NEW c \in Maybe(Clients),
         NEW before \in Registry, Reconciled(before, managedWs),
         NEW after \in Registry, Reconciled(after, managedWs),
         NEW tokens, tokens \subseteq overlayPending,
         NEW last \in Maybe(Clients),
         Settle(c, before, after, tokens, last)
  PROVE  IInv'
<1> DEFINE emacs == RefreshManagingEmacs(after, managedWs, managingEmacs, last)
<1>1. TypeOK
  BY DEF IInv
<1>2. emacs \in Maybe(Clients) /\ RightFrame(emacs, after, managedWs)
  BY <1>1, RefreshManagingEmacsFacts DEF TypeOK
<1> HIDE DEF emacs
<1>3. /\ registry' = after /\ overlayPending' = tokens /\ lastActive' = last
      /\ seen' = SeenAfter(after, c)
      /\ managingEmacs' = emacs
      /\ layout' = SyncLayout(layout, after, managedWs, inputMode, emacs)
      /\ notice' = NoticeOf(before, after, c, TRUE)
      /\ UNCHANGED <<managedWs, inputMode, connected, policy>>
  BY DEF Settle, emacs
<1>4. /\ layout' \in Maybe(Layout)
      /\ Agrees(layout', after, managedWs, inputMode, emacs)
      /\ layout = None => layout' = None
  BY <1>1, <1>2, <1>3, SyncLayoutFacts DEF TypeOK, IInv, Agrees
<1>5. seen' \in SUBSET Clients /\ (managedWs = None => seen' \subseteq seen)
  BY <1>1, <1>3, NoneManaged DEF SeenAfter, IsManaged, ManagedClients, TypeOK
<1>6. notice' \in Maybe(Notice)
  <2>1. CASE managedWs = None
    BY <2>1, <1>3, NoneManaged
    DEF NoticeOf, BecameFloating, BecameTiled, IsManaged, Maybe
  <2>2. CASE managedWs # None
    <3>1. managedWs \in Workspaces
      BY <1>1, <2>2 DEF TypeOK, Maybe
    <3>2. IsManaged(before, c) \/ IsManaged(after, c) => c \in Clients
      BY DEF IsManaged, ManagedClients
    <3> QED BY <1>3, <3>1, <3>2
            DEF NoticeOf, BecameFloating, BecameTiled, Notice, Maybe
  <2> QED BY <2>1, <2>2
<1>7. TypeOK'
  BY <1>1, <1>2, <1>3, <1>4, <1>5, <1>6 DEF TypeOK
<1>8. NoStaleManagedState'
  BY <1>2, <1>3, <1>4, <1>5, NoneManaged DEF IInv, NoStaleManagedState, RightFrame
<1> QED BY <1>2, <1>3, <1>4, <1>7, <1>8 DEF IInv

LEMMA CompositorEventStep == ASSUME IInv, CompositorEvent PROVE IInv'
<1>1. /\ registry \in Registry /\ Reconciled(registry, managedWs)
      /\ lastActive \in Maybe(Clients) /\ overlayPending \subseteq Clients
  BY DEF IInv, TypeOK
<1>2. CASE FocusNothing
  <2>1. Settle(None, registry, registry, overlayPending, None)
    BY <1>2 DEF FocusNothing
  <2> QED BY <1>1, <2>1, SettleStep DEF Maybe
<1>3. ASSUME NEW c \in Clients, CloseWindow(c)
      PROVE  IInv'
  <2> DEFINE closed == ReconcileManagement(Erase(registry, c), managedWs)
             last == IF lastActive = c THEN None ELSE lastActive
  <2>1. closed \in Registry /\ Reconciled(closed, managedWs)
    BY <1>1, EraseType, ReconcileFacts
  <2>2. last \in Maybe(Clients)
    BY <1>1 DEF Maybe
  <2>3. Settle(c, closed, closed, overlayPending \ {c}, last)
    BY <1>3 DEF CloseWindow
  <2> QED BY <2>1, <2>2, <2>3, SettleStep DEF Maybe
<1>4. ASSUME NEW c \in Clients, NEW target \in Workspaces \cup {HiddenWorkspace},
             MoveWindow(c, target)
      PROVE  IInv'
  <2> DEFINE moved == ReconcileManagement(UpdateWorkspace(registry, c, target), managedWs)
  <2>1. moved \in Registry /\ Reconciled(moved, managedWs)
    BY <1>1, <1>4, UpdateWorkspaceType, ReconcileFacts DEF MoveWindow
  <2>2. Settle(c, moved, moved, overlayPending, lastActive)
    BY <1>4 DEF MoveWindow
  <2> QED BY <1>1, <2>1, <2>2, SettleStep DEF Maybe
<1>5. ASSUME NEW c \in Clients, NEW f \in BOOLEAN, ChangeFloating(c, f)
      PROVE  IInv'
  <2> DEFINE tokens == ConsumeToken(layout, overlayPending, c, f)
             floated == ReconcileManagement(SetFloating(registry, c, f), managedWs)
  <2>1. floated \in Registry /\ Reconciled(floated, managedWs)
    BY <1>1, SetFloatingType, ReconcileFacts
  <2>2. tokens \subseteq overlayPending
    BY TokensShrink
  <2>3. CASE ~IgnoresFloat(layout, overlayPending, c, f)
    <3>1. Settle(c, registry, floated, tokens, lastActive)
      BY <1>5, <2>3 DEF ChangeFloating
    <3> QED BY <1>1, <2>1, <2>2, <3>1, SettleStep DEF Maybe
  <2>4. CASE IgnoresFloat(layout, overlayPending, c, f)
    <3>1. /\ overlayPending' \subseteq overlayPending
          /\ seen' = SeenAfter(registry, c)
          /\ notice' = NoticeOf(registry, registry, c, FALSE)
          /\ UNCHANGED <<registry, managedWs, inputMode, lastActive, managingEmacs,
                         layout, connected, policy>>
      BY <1>5, <2>2, <2>4 DEF ChangeFloating
    <3>2. managedWs = None => seen' \subseteq seen /\ notice' = None
      BY <1>1, <3>1, NoneManaged
      DEF SeenAfter, NoticeOf, BecameFloating, BecameTiled, IsManaged
    <3>3. managedWs # None => managedWs \in Workspaces
      BY DEF IInv, TypeOK, Maybe
    <3>4. notice' \in Maybe(Notice)
      BY <3>1, <3>2, <3>3 DEF NoticeOf, Notice, Maybe
    <3>5. TypeOK'
      BY <1>1, <3>1, <3>4 DEF IInv, TypeOK, SeenAfter
    <3>6. NoStaleManagedState'
      BY <3>1, <3>2 DEF IInv, NoStaleManagedState
    <3> QED BY <3>1, <3>5, <3>6 DEF IInv
  <2> QED BY <2>3, <2>4
<1>6. ASSUME NEW c \in Clients, NEW f \in Answers, NEW w \in Workspaces,
             NEW k \in KindsOf[c], OpenWindow(c, w, k, f)
      PROVE  IInv'
  <2> DEFINE opened == ReconcileManagement(UpsertOpen(registry, c, w, k), managedWs)
  <2>1. opened \in Registry /\ Reconciled(opened, managedWs)
    BY <1>1, KindsOfAssumption, UpsertOpenType, ReconcileFacts
  <2>2. Settle(c, opened, Queried(opened, c, f), QueriedTokens(opened, c, f), lastActive)
    BY <1>6 DEF OpenWindow
  <2> HIDE DEF opened
  <2> QED BY <1>1, <2>1, <2>2, QueriedFacts, TokensShrink, SettleStep DEF Maybe
<1>7. ASSUME NEW c \in Clients, NEW f \in Answers, NEW k \in KindsOf[c],
             RetitleWindow(c, k, f)
      PROVE  IInv'
  <2> DEFINE titled == ReconcileManagement(UpdateTitle(registry, c, k), managedWs)
  <2>1. titled \in Registry /\ Reconciled(titled, managedWs)
    BY <1>1, KindsOfAssumption, UpdateTitleType, ReconcileFacts
  <2>2. Settle(c, titled, Queried(titled, c, f), QueriedTokens(titled, c, f), lastActive)
    BY <1>7 DEF RetitleWindow
  <2> HIDE DEF titled
  <2> QED BY <1>1, <2>1, <2>2, QueriedFacts, TokensShrink, SettleStep DEF Maybe
<1>8. ASSUME NEW c \in Clients, NEW f \in Answers, FocusWindow(c, f)
      PROVE  IInv'
  <2> DEFINE focused == SetFocus(registry, c)
  <2>1. focused \in Registry /\ Reconciled(focused, managedWs)
    BY <1>1, SetFocusFacts DEF Reconciled, Known
  <2>2. Settle(c, focused, Queried(focused, c, f), QueriedTokens(focused, c, f), c)
    BY <1>8 DEF FocusWindow
  <2> HIDE DEF focused
  <2> QED BY <1>1, <2>1, <2>2, QueriedFacts, TokensShrink, SettleStep DEF Maybe
<1> QED BY <1>2, <1>3, <1>4, <1>5, <1>6, <1>7, <1>8 DEF CompositorEvent

\* The windows a refresh touches are known and were answered for.
LEMMA RefloatedFacts ==
  ASSUME NEW reg, NEW w, NEW all, NEW answers, NEW lay, NEW pending
  PROVE  /\ Refloated(reg, w, all, answers, lay, pending) \in SUBSET Clients
         /\ \A c \in Refloated(reg, w, all, answers, lay, pending) :
              Known(reg, c) /\ answers[c] # None
         /\ RefreshTokens(reg, w, all, answers, lay, pending) \subseteq pending
  BY DEF Refloated, RefreshTargets, RefreshTokens

LEMMA RefreshFloatingStep ==
  ASSUME IInv, NEW w, NEW all, NEW answers \in [Clients -> Answers],
         RefreshFloating(w, all, answers), notice' \in Maybe(Notice)
  PROVE  IInv'
<1> DEFINE S == Refloated(registry, w, all, answers, layout, overlayPending)
           reg == RefreshRegistry(registry, S, answers, managedWs)
           emacs == RefreshManagingEmacs(reg, managedWs, managingEmacs, lastActive)
<1>1. TypeOK /\ registry \in Registry /\ Reconciled(registry, managedWs)
  BY DEF IInv, TypeOK
<1>2. /\ S \in SUBSET Clients
      /\ \A c \in S : Known(registry, c) /\ answers[c] # None
  BY RefloatedFacts
<1>3. /\ overlayPending' \subseteq overlayPending
      /\ registry' = reg
      /\ seen' = RefreshSeen(reg, S)
      /\ S = {} => UNCHANGED <<managingEmacs, layout>>
      /\ S # {} => /\ managingEmacs' = emacs
                   /\ layout' = SyncLayout(layout, reg, managedWs, inputMode, emacs)
      /\ UNCHANGED <<managedWs, inputMode, lastActive, connected, policy>>
  BY RefloatedFacts DEF RefreshFloating
<1> HIDE DEF S
<1>4. reg \in Registry /\ Reconciled(reg, managedWs)
  BY <1>1, <1>2, RefreshRegistryFacts
<1>5. S = {} => reg = registry
  BY DEF RefreshRegistry
<1> HIDE DEF reg
<1>6. emacs \in Maybe(Clients) /\ RightFrame(emacs, reg, managedWs)
  BY <1>1, <1>4, RefreshManagingEmacsFacts DEF TypeOK
<1> HIDE DEF emacs
<1>7. /\ SyncLayout(layout, reg, managedWs, inputMode, emacs) \in Maybe(Layout)
      /\ Agrees(SyncLayout(layout, reg, managedWs, inputMode, emacs),
                reg, managedWs, inputMode, emacs)
      /\ layout = None => SyncLayout(layout, reg, managedWs, inputMode, emacs) = None
  BY <1>1, <1>4, <1>6, SyncLayoutFacts DEF TypeOK, IInv, Agrees
<1>8. seen' \in SUBSET Clients /\ (managedWs = None /\ seen = {} => seen' = {})
  BY <1>1, <1>2, <1>3, <1>4, NoneManaged DEF RefreshSeen, TypeOK
<1>9. /\ layout' \in Maybe(Layout) /\ managingEmacs' \in Maybe(Clients)
      /\ Agrees(layout', registry', managedWs, inputMode, managingEmacs')
      /\ RightFrame(managingEmacs', registry', managedWs)
      /\ layout = None => layout' = None
  <2>1. CASE S = {}
    BY <2>1, <1>1, <1>3, <1>5 DEF IInv, TypeOK
  <2>2. CASE S # {}
    BY <2>2, <1>3, <1>6, <1>7
  <2> QED BY <2>1, <2>2
<1>10. TypeOK'
  BY <1>1, <1>3, <1>4, <1>8, <1>9 DEF TypeOK
<1>11. NoStaleManagedState'
  BY <1>3, <1>4, <1>8, <1>9, NoneManaged DEF IInv, NoStaleManagedState, RightFrame
<1> QED BY <1>3, <1>4, <1>9, <1>10, <1>11 DEF IInv

LEMMA AnswerNoticeStep ==
  ASSUME IInv, NEW answers \in [Clients -> Answers], AnswerNotice(answers)
  PROVE  IInv'
<1>1. notice' \in Maybe(Notice) /\ RefreshFloating(notice.ws, FALSE, answers)
  BY DEF AnswerNotice, Maybe
<1> QED BY <1>1, RefreshFloatingStep

LEMMA DropNoticeStep == ASSUME IInv, DropNotice PROVE IInv'
  BY DEF DropNotice, Maybe, IInv, TypeOK, NoStaleManagedState, Agrees, RightFrame,
         Reconciled, LeaseOf

LEMMA ManageWorkspaceStep ==
  ASSUME IInv, NEW w \in Workspaces, NEW answers \in [Clients -> Answers],
         NEW undone, NEW answered, NEW done,
         ManageWorkspace(w, answers, undone, answered, done)
  PROVE  IInv'
<1> DEFINE changed == managedWs # w
           switched == changed /\ managedWs # None
           lay == IF switched THEN None ELSE layout
           S == Refloated(registry, w, TRUE, answers, lay, overlayPending)
           fresh == RefreshRegistry(registry, S, answers, w)
           reg == ReconcileManagement(fresh, w)
           emacs == RefreshManagingEmacs(reg, w, managingEmacs, lastActive)
           restored == IF switched THEN RestoreManagedLayout(policy, managedWs, undone)
                       ELSE policy
           taken == IF changed THEN ApplyManagedLayout(restored, w, answered, done)
                    ELSE policy
           tokens == RefreshTokens(registry, w, TRUE, answers, lay, overlayPending)
           mode == "emacs-control"
<1>1. /\ TypeOK /\ registry \in Registry /\ w # None /\ w \in Maybe(Workspaces)
      /\ layout \in Maybe(Layout) /\ mode \in Maybe(InputModes)
  BY NoneAssumption DEF IInv, TypeOK, Maybe, InputModes
<1>2. /\ connected
      /\ managedWs' = w /\ inputMode' = mode /\ registry' = reg
      /\ managingEmacs' = emacs
      /\ layout' = SyncLayout(lay, reg, w, mode, emacs)
      /\ policy' = taken
      /\ seen' = IF changed THEN ManagedClients(reg) ELSE RefreshSeen(reg, S)
      /\ overlayPending' = IF changed THEN {} ELSE tokens
      /\ UNCHANGED <<lastActive, connected, notice>>
  BY DEF ManageWorkspace
<1>3. /\ S \in SUBSET Clients
      /\ \A c \in S : Known(registry, c) /\ answers[c] # None
      /\ tokens \subseteq overlayPending
  BY RefloatedFacts
<1>4. fresh \in Registry
  BY <1>1, <1>3, RefreshRegistryFacts
<1>5. reg \in Registry /\ Reconciled(reg, w)
  BY <1>4, ReconcileFacts
<1>6. taken \in Policy /\ LeaseOf(taken, w)
  <2>1. policy \in Policy /\ LeaseOf(policy, managedWs)
    BY <1>1 DEF IInv, TypeOK
  <2>2. CASE ~changed
    BY <2>1, <2>2
  <2>3. CASE changed
    <3>1. restored \in Policy /\ LeaseOf(restored, None)
      BY <1>1, <2>1, <2>3, RestoreManagedLayoutFacts DEF TypeOK, Maybe
    <3> HIDE DEF restored
    <3> QED BY <3>1, <2>3, ApplyManagedLayoutFacts
  <2> QED BY <2>2, <2>3
<1>7. /\ lay \in Maybe(Layout)
      /\ lay # None => lay.ws = w /\ lay.visible \cap lay.hidden = {}
  BY <1>1 DEF IInv, Agrees, NoStaleManagedState, Maybe
<1> HIDE DEF lay, S, fresh, reg, restored, taken, tokens, changed, mode
<1>8. emacs \in Maybe(Clients) /\ RightFrame(emacs, reg, w)
  BY <1>1, <1>5, RefreshManagingEmacsFacts DEF TypeOK
<1> HIDE DEF emacs
<1>9. /\ layout' \in Maybe(Layout)
      /\ Agrees(layout', reg, w, mode, emacs)
  BY <1>1, <1>2, <1>5, <1>7, <1>8, SyncLayoutFacts
<1>10. seen' \in SUBSET Clients /\ overlayPending' \in SUBSET Clients
  BY <1>1, <1>2, <1>3 DEF TypeOK, RefreshSeen, ManagedClients
<1>11. TypeOK'
  BY <1>1, <1>2, <1>5, <1>6, <1>8, <1>9, <1>10 DEF TypeOK
<1>12. NoStaleManagedState'
  BY <1>1, <1>2 DEF NoStaleManagedState
<1> QED BY <1>2, <1>5, <1>6, <1>8, <1>9, <1>11, <1>12 DEF IInv

\* Unmanaging and disconnecting leave the same cleared state.
LEMMA ClearManagementStep ==
  ASSUME IInv, NEW w \in Workspaces, managedWs = w, NEW undone,
         ClearManagement(w, undone), layout' = None,
         connected' \in BOOLEAN, UNCHANGED notice
  PROVE  IInv'
<1>1. policy' \in Policy /\ LeaseOf(policy', None)
  BY RestoreManagedLayoutFacts DEF IInv, TypeOK, ClearManagement
<1>2. registry' \in Registry /\ Reconciled(registry', None)
  BY ReconcileFacts DEF IInv, TypeOK, ClearManagement
<1>3. /\ managedWs' = None /\ inputMode' = None /\ lastActive' = None
      /\ managingEmacs' = None /\ seen' = {} /\ overlayPending' = {}
  BY DEF ClearManagement
<1>4. TypeOK'
  BY <1>1, <1>2, <1>3 DEF IInv, TypeOK, Maybe
<1>5. NoStaleManagedState'
  BY <1>2, <1>3, NoneManaged DEF NoStaleManagedState
<1>6. RightFrame(None, registry', None)
  BY DEF RightFrame
<1> QED BY <1>1, <1>2, <1>3, <1>4, <1>5, <1>6 DEF IInv, Agrees

LEMMA ConnectionStep ==
  ASSUME IInv, Connect \/ \E undone \in Done : Disconnect(undone)
  PROVE  IInv'
<1>1. CASE Connect
  BY <1>1
  DEF Connect, IInv, TypeOK, NoStaleManagedState, Agrees, RightFrame, Reconciled, LeaseOf
<1>2. ASSUME NEW undone \in Done, Disconnect(undone) PROVE IInv'
  <2>1. connected' = FALSE /\ layout' = None /\ UNCHANGED notice
    BY <1>2 DEF Disconnect
  <2>2. CASE managedWs # None /\ ClearManagement(managedWs, undone)
    <3>1. managedWs \in Workspaces
      BY <2>2 DEF IInv, TypeOK, Maybe
    <3> QED BY <2>1, <2>2, <3>1, ClearManagementStep
  <2>3. CASE /\ managedWs = None
             /\ UNCHANGED <<registry, managedWs, inputMode, lastActive,
                            managingEmacs, seen, overlayPending, policy>>
    BY <2>1, <2>3
    DEF IInv, TypeOK, NoStaleManagedState, Agrees, RightFrame, Reconciled, LeaseOf, Maybe
  <2> QED BY <1>2, <2>2, <2>3 DEF Disconnect
<1> QED BY <1>1, <1>2

LEMMA SetSelectedClientStep ==
  ASSUME IInv, NEW w \in Workspaces, NEW c \in Clients, SetSelectedClient(w, c)
  PROVE  IInv'
<1>1. /\ registry' = SetFocus(registry, c)
      /\ layout' = SyncLayout(layout, registry', managedWs, inputMode, managingEmacs)
      /\ UNCHANGED <<managedWs, inputMode, lastActive, managingEmacs, seen,
                     overlayPending, connected, policy, notice>>
  BY DEF SetSelectedClient
<1>2. TypeOK /\ registry \in Registry
  BY DEF IInv, TypeOK
<1>3. registry' \in Registry /\ registry'.client = registry.client
  BY <1>1, <1>2, SetFocusFacts
<1>4. /\ Reconciled(registry', managedWs)
      /\ RightFrame(managingEmacs, registry', managedWs)
      /\ ManagedClients(registry') = ManagedClients(registry)
  BY <1>3 DEF IInv, Reconciled, RightFrame, EmacsClients, ManagedClients, Known
<1>5. /\ layout' \in Maybe(Layout)
      /\ Agrees(layout', registry', managedWs, inputMode, managingEmacs)
      /\ layout = None => layout' = None
  BY <1>1, <1>2, <1>3, <1>4, SyncLayoutFacts DEF TypeOK, IInv, Agrees
<1>6. TypeOK'
  BY <1>1, <1>2, <1>3, <1>5 DEF TypeOK
<1>7. NoStaleManagedState'
  BY <1>1, <1>4, <1>5 DEF IInv, NoStaleManagedState
<1> QED BY <1>1, <1>4, <1>5, <1>6, <1>7 DEF IInv

LEMMA SetInputModeStep ==
  ASSUME IInv, NEW w \in Workspaces, NEW mode \in InputModes, SetInputMode(w, mode)
  PROVE  IInv'
<1>1. /\ managedWs = w /\ inputMode' = mode
      /\ layout' = SyncLayout(layout, registry, w, mode, managingEmacs)
      /\ UNCHANGED <<registry, managedWs, lastActive, managingEmacs, seen,
                     overlayPending, connected, policy, notice>>
  BY DEF SetInputMode
<1>2. TypeOK /\ w # None /\ w \in Maybe(Workspaces) /\ mode \in Maybe(InputModes)
  BY NoneAssumption DEF IInv, Maybe
<1>3. layout' \in Maybe(Layout) /\ Agrees(layout', registry, w, mode, managingEmacs)
  BY <1>1, <1>2, SyncLayoutFacts DEF TypeOK, IInv, Agrees
<1>4. TypeOK'
  BY <1>1, <1>2, <1>3 DEF TypeOK
<1>5. NoStaleManagedState'
  BY <1>1, <1>2 DEF IInv, NoStaleManagedState
<1> QED BY <1>1, <1>3, <1>4, <1>5 DEF IInv

LEMMA SeedClientStep ==
  ASSUME IInv, NEW c \in Clients, NEW w \in Workspaces, NEW k \in KindsOf[c],
         NEW f \in BOOLEAN, SeedClient(c, w, k, f)
  PROVE  IInv'
<1> DEFINE opened == SetFloating(UpsertOpen(registry, c, w, k), c, f)
           reg == ReconcileManagement(opened, managedWs)
           emacs == RefreshManagingEmacs(reg, managedWs, managingEmacs, lastActive)
<1>1. /\ registry' = reg /\ managingEmacs' = emacs
      /\ layout' = SyncLayout(layout, reg, managedWs, inputMode, emacs)
      /\ UNCHANGED <<managedWs, inputMode, lastActive, seen, overlayPending,
                     connected, policy, notice>>
  BY DEF SeedClient
<1>2. TypeOK /\ registry \in Registry
  BY DEF IInv, TypeOK
<1>3. opened \in Registry
  BY <1>2, KindsOfAssumption, UpsertOpenType, SetFloatingType
<1>4. reg \in Registry /\ Reconciled(reg, managedWs)
  BY <1>3, ReconcileFacts
<1> HIDE DEF opened, reg
<1>5. emacs \in Maybe(Clients) /\ RightFrame(emacs, reg, managedWs)
  BY <1>2, <1>4, RefreshManagingEmacsFacts DEF TypeOK
<1> HIDE DEF emacs
<1>6. /\ layout' \in Maybe(Layout)
      /\ Agrees(layout', reg, managedWs, inputMode, emacs)
      /\ layout = None => layout' = None
  BY <1>1, <1>2, <1>4, <1>5, SyncLayoutFacts DEF TypeOK, IInv, Agrees
<1>7. TypeOK'
  BY <1>1, <1>2, <1>4, <1>5, <1>6 DEF TypeOK
<1>8. NoStaleManagedState'
  BY <1>1, <1>4, <1>5, <1>6, NoneManaged DEF IInv, NoStaleManagedState, RightFrame
<1> QED BY <1>1, <1>4, <1>5, <1>6, <1>7, <1>8 DEF IInv

LEMMA ApplyLayoutStep ==
  ASSUME IInv, NEW w \in Workspaces, NEW visible \in SUBSET Clients,
         NEW hidden \in SUBSET Clients, ApplyLayout(w, visible, hidden)
  PROVE  IInv'
<1> DEFINE emacs == RefreshManagingEmacs(registry, w, managingEmacs, lastActive)
           committed == [ws |-> w, visible |-> visible, hidden |-> hidden,
                         selected |-> None, inputMode |-> None, managingEmacs |-> None]
<1>1. /\ managedWs = w /\ visible \cap hidden = {} /\ managingEmacs' = emacs
      /\ layout' = SyncLayout(committed, registry, w, inputMode, emacs)
      /\ UNCHANGED <<registry, managedWs, inputMode, lastActive, seen,
                     overlayPending, connected, policy, notice>>
  BY DEF ApplyLayout
<1>2. TypeOK /\ w # None /\ w \in Maybe(Workspaces)
  BY NoneAssumption DEF IInv, Maybe
<1>3. emacs \in Maybe(Clients) /\ RightFrame(emacs, registry, w)
  BY <1>2, RefreshManagingEmacsFacts DEF TypeOK
<1>4. committed \in Maybe(Layout)
  BY DEF Layout, Maybe
<1> HIDE DEF emacs
<1>5. layout' \in Maybe(Layout) /\ Agrees(layout', registry, w, inputMode, emacs)
  BY <1>1, <1>2, <1>3, <1>4, SyncLayoutFacts DEF TypeOK, IInv
<1>6. TypeOK'
  BY <1>1, <1>2, <1>3, <1>5 DEF TypeOK
<1>7. NoStaleManagedState'
  BY <1>1, <1>2 DEF IInv, NoStaleManagedState
<1> QED BY <1>1, <1>3, <1>5, <1>6, <1>7 DEF IInv

LEMMA NoteOverlayStep ==
  ASSUME IInv, NEW w \in Workspaces, NEW c \in Clients, NoteOverlayFloatRequest(w, c)
  PROVE  IInv'
<1>1. layout # None /\ managedWs # None
  BY DEF NoteOverlayFloatRequest, IInv, NoStaleManagedState
<1> QED
  BY <1>1
  DEF NoteOverlayFloatRequest, IInv, TypeOK, NoStaleManagedState, Agrees, RightFrame,
      Reconciled, LeaseOf

LEMMA ManagerCommandStep == ASSUME IInv, Command PROVE IInv'
<1>1. ASSUME NEW w \in Workspaces, NEW answers \in [Clients -> Answers],
             RequestState(w, answers)
      PROVE  IInv'
  BY <1>1, RefreshFloatingStep DEF RequestState, IInv, TypeOK
<1>2. ASSUME NEW w \in Workspaces, NEW undone \in Done, UnmanageWorkspace(w, undone)
      PROVE  IInv'
  BY <1>2, ClearManagementStep DEF UnmanageWorkspace, IInv, TypeOK
<1> QED
  BY <1>1, <1>2, ManageWorkspaceStep, SetSelectedClientStep, SetInputModeStep,
     SeedClientStep, ApplyLayoutStep, NoteOverlayStep
  DEF Command

LEMMA IInvNext == IInv /\ [Next]_vars => IInv'
<1> SUFFICES ASSUME IInv, [Next]_vars PROVE IInv'
  OBVIOUS
<1>1. CASE UNCHANGED vars
  BY <1>1
  DEF vars, IInv, TypeOK, NoStaleManagedState, Agrees, RightFrame, Reconciled, LeaseOf
<1> QED
  BY <1>1, CompositorEventStep, AnswerNoticeStep, DropNoticeStep, ManagerCommandStep,
     ConnectionStep
  DEF Next

LEMMA IInvAlways == Spec => []IInv
  BY IInvInit, IInvNext, PTL DEF Spec

-----------------------------------------------------------------------------
(* The theorems.                                                           *)

\* Every variable keeps its type, under every interleaving of the two threads.
THEOREM TypeCorrect == Spec => []TypeOK
<1>1. IInv => TypeOK
  BY DEF IInv
<1> QED BY <1>1, IInvAlways, PTL

\* The managed flags are right after every call of every method.
THEOREM ManagedFlagsRight == Spec => []ManagedIffEligible
<1>1. IInv => ManagedIffEligible
  BY DEF IInv, Reconciled, ManagedIffEligible
<1> QED BY <1>1, IInvAlways, PTL

\* The committed layout places exactly the managed windows, each once.
THEOREM LayoutInStep == Spec => []LayoutAgrees
<1>1. IInv => LayoutAgrees
  BY DEF IInv, Agrees, LayoutAgrees
<1> QED BY <1>1, IInvAlways, PTL

\* The managing frame is an Emacs frame of the managed workspace, if it has one.
THEOREM ManagingFrameRight == Spec => []ManagingEmacsValid
<1>1. IInv => ManagingEmacsValid
  BY DEF IInv, RightFrame, ManagingEmacsValid
<1> QED BY <1>1, IInvAlways, PTL

\* Unmanage and disconnect leave nothing managed behind.
THEOREM NothingStale == Spec => []NoStaleManagedState
<1>1. IInv => NoStaleManagedState
  BY DEF IInv
<1> QED BY <1>1, IInvAlways, PTL

\* The policy lease is held exactly while a workspace is managed, whatever
\* queries and dispatches fail.
THEOREM LeaseBalanced == Spec => []LeaseFollowsManagement
<1>1. IInv => LeaseFollowsManagement
  BY DEF IInv, LeaseOf, LeaseFollowsManagement
<1> QED BY <1>1, IInvAlways, PTL

-----------------------------------------------------------------------------
(* What a step may do to the layout, the frame and the notice.             *)

\* Synchronising the committed layout, or dropping it, shows nothing new.
LEMMA SyncShowsNothing ==
  ASSUME NEW lay, NEW reg, NEW w, NEW mode, NEW emacs,
         layout' = SyncLayout(lay, reg, w, mode, emacs), lay = layout \/ lay = None
  PROVE  VisibleClients' \subseteq VisibleClients
<1>1. CASE lay = None
  BY <1>1 DEF SyncLayout, VisibleClients
<1>2. CASE lay = layout /\ layout # None
  <2>1. \/ layout' = layout
        \/ layout'.visible \subseteq layout.visible
    BY <1>2 DEF SyncLayout
  <2> QED BY <1>2, <2>1 DEF VisibleClients
<1> QED BY <1>1, <1>2

\* The managing frame stays in its role if it can.
FrameKept ==
  managingEmacs \in EmacsClients(registry', managedWs') => managingEmacs' = managingEmacs

\* Refreshing it keeps it; without a managed workspace there is none to keep.
LEMMA RefreshKeepsFrame ==
  ASSUME registry' \in Registry, NEW last,
         \/ managingEmacs' = RefreshManagingEmacs(registry', managedWs', managingEmacs, last)
         \/ managedWs' = None
  PROVE  FrameKept
<1>1. EmacsClients(registry', None) = {}
  BY RecordOfClient, NoneAssumption DEF EmacsClients
<1> QED BY <1>1 DEF FrameKept, RefreshManagingEmacs

\* Every step but a commit by Emacs.
LEMMA StepFacts ==
  ASSUME IInv, Next
  PROVE  /\ \/ VisibleClients' \subseteq VisibleClients
            \/ \E w \in Workspaces, visible \in SUBSET Clients,
                 hidden \in SUBSET Clients : ApplyLayout(w, visible, hidden)
         /\ FrameKept
<1>1. registry' \in Registry
  BY IInvNext DEF IInv, TypeOK
<1>2. ASSUME NEW c, NEW before, NEW after, NEW tokens, NEW last,
             Settle(c, before, after, tokens, last)
      PROVE  VisibleClients' \subseteq VisibleClients /\ FrameKept
  <2> DEFINE emacs == RefreshManagingEmacs(after, managedWs, managingEmacs, last)
  <2>1. /\ registry' = after /\ managedWs' = managedWs /\ managingEmacs' = emacs
        /\ layout' = SyncLayout(layout, after, managedWs, inputMode, emacs)
    BY <1>2 DEF Settle
  <2>2. FrameKept
    BY <1>1, <2>1, RefreshKeepsFrame
  <2> HIDE DEF emacs
  <2> QED BY <2>1, <2>2, SyncShowsNothing
<1>3. ASSUME UNCHANGED <<managingEmacs, layout>>
      PROVE  VisibleClients' \subseteq VisibleClients /\ FrameKept
  BY <1>3 DEF VisibleClients, FrameKept
<1>4. ASSUME CompositorEvent
      PROVE  VisibleClients' \subseteq VisibleClients /\ FrameKept
  <2>1. \/ \E c, before, after, tokens, last : Settle(c, before, after, tokens, last)
        \/ UNCHANGED <<managingEmacs, layout>>
    <3>1. CASE FocusNothing
      BY <3>1 DEF FocusNothing
    <3>2. ASSUME NEW c \in Clients,
                 CloseWindow(c) \/ \E t \in Workspaces \cup {HiddenWorkspace} : MoveWindow(c, t)
          PROVE  \E d, before, after, tokens, last : Settle(d, before, after, tokens, last)
      BY <3>2 DEF CloseWindow, MoveWindow
    <3>3. ASSUME NEW c \in Clients, NEW f \in BOOLEAN, ChangeFloating(c, f)
          PROVE  \/ \E d, before, after, tokens, last : Settle(d, before, after, tokens, last)
                 \/ UNCHANGED <<managingEmacs, layout>>
      BY <3>3 DEF ChangeFloating
    <3>4. ASSUME NEW c \in Clients, NEW f \in Answers,
                 \/ \E w \in Workspaces, k \in KindsOf[c] : OpenWindow(c, w, k, f)
                 \/ \E k \in KindsOf[c] : RetitleWindow(c, k, f)
                 \/ FocusWindow(c, f)
          PROVE  \E d, before, after, tokens, last : Settle(d, before, after, tokens, last)
      BY <3>4 DEF OpenWindow, RetitleWindow, FocusWindow
    <3> QED BY <1>4, <3>1, <3>2, <3>3, <3>4 DEF CompositorEvent
  <2> QED BY <1>2, <1>3, <2>1
<1>5. ASSUME NEW w, NEW all, NEW answers, RefreshFloating(w, all, answers)
      PROVE  VisibleClients' \subseteq VisibleClients /\ FrameKept
  <2> DEFINE S == Refloated(registry, w, all, answers, layout, overlayPending)
             reg == RefreshRegistry(registry, S, answers, managedWs)
             emacs == RefreshManagingEmacs(reg, managedWs, managingEmacs, lastActive)
  <2>1. CASE S = {}
    BY <1>3, <1>5, <2>1 DEF RefreshFloating
  <2>2. CASE S # {}
    <3>1. /\ registry' = reg /\ managedWs' = managedWs /\ managingEmacs' = emacs
          /\ layout' = SyncLayout(layout, reg, managedWs, inputMode, emacs)
      BY <1>5, <2>2 DEF RefreshFloating
    <3> HIDE DEF S, reg
    <3>2. FrameKept
      BY <1>1, <3>1, RefreshKeepsFrame
    <3> HIDE DEF emacs
    <3> QED BY <3>1, <3>2, SyncShowsNothing
  <2> QED BY <2>1, <2>2
<1>6. ASSUME NEW w \in Workspaces, NEW answers, NEW undone, NEW answered, NEW done,
             ManageWorkspace(w, answers, undone, answered, done)
      PROVE  VisibleClients' \subseteq VisibleClients /\ FrameKept
  <2> DEFINE lay == IF managedWs # w /\ managedWs # None THEN None ELSE layout
             emacs == RefreshManagingEmacs(registry', w, managingEmacs, lastActive)
  <2>1. /\ managedWs' = w /\ managingEmacs' = emacs
        /\ layout' = SyncLayout(lay, registry', w, "emacs-control", emacs)
    BY <1>6 DEF ManageWorkspace
  <2>2. FrameKept
    BY <1>1, <2>1, RefreshKeepsFrame
  <2>3. lay = layout \/ lay = None
    OBVIOUS
  <2> HIDE DEF emacs, lay
  <2> QED BY <2>1, <2>2, <2>3, SyncShowsNothing
<1>7. ASSUME layout' = None, \/ managedWs' = None
                             \/ UNCHANGED <<registry, managedWs, managingEmacs>>
      PROVE  VisibleClients' \subseteq VisibleClients /\ FrameKept
  BY <1>1, <1>7, RefreshKeepsFrame DEF VisibleClients, FrameKept
<1>8. ASSUME NEW w \in Workspaces, NEW c \in Clients,
             SetSelectedClient(w, c) \/ NoteOverlayFloatRequest(w, c)
      PROVE  VisibleClients' \subseteq VisibleClients /\ FrameKept
  <2>1. managingEmacs' = managingEmacs
    BY <1>8 DEF SetSelectedClient, NoteOverlayFloatRequest
  <2>2. \/ layout' = SyncLayout(layout, registry', managedWs, inputMode, managingEmacs)
        \/ layout' = layout
    BY <1>8 DEF SetSelectedClient, NoteOverlayFloatRequest
  <2> QED BY <1>3, <2>1, <2>2, SyncShowsNothing DEF FrameKept
<1>9. ASSUME NEW w \in Workspaces, NEW mode \in InputModes, SetInputMode(w, mode)
      PROVE  VisibleClients' \subseteq VisibleClients /\ FrameKept
  <2>1. managingEmacs' = managingEmacs
    BY <1>9 DEF SetInputMode
  <2>2. layout' = SyncLayout(layout, registry, w, mode, managingEmacs)
    BY <1>9 DEF SetInputMode
  <2> QED BY <2>1, <2>2, SyncShowsNothing DEF FrameKept
<1>10. ASSUME NEW c, NEW w, NEW k, NEW f, SeedClient(c, w, k, f)
       PROVE  VisibleClients' \subseteq VisibleClients /\ FrameKept
  <2> DEFINE emacs == RefreshManagingEmacs(registry', managedWs, managingEmacs, lastActive)
  <2>1. /\ managedWs' = managedWs /\ managingEmacs' = emacs
        /\ layout' = SyncLayout(layout, registry', managedWs, inputMode, emacs)
    BY <1>10 DEF SeedClient
  <2>2. FrameKept
    BY <1>1, <2>1, RefreshKeepsFrame
  <2> HIDE DEF emacs
  <2> QED BY <2>1, <2>2, SyncShowsNothing
<1>11. ASSUME NEW w, NEW visible, NEW hidden, ApplyLayout(w, visible, hidden)
       PROVE  FrameKept
  <2>1. /\ managedWs' = managedWs /\ managedWs = w /\ registry' = registry
        /\ managingEmacs' = RefreshManagingEmacs(registry, w, managingEmacs, lastActive)
    BY <1>11 DEF ApplyLayout
  <2> QED BY <1>1, <2>1, RefreshKeepsFrame
<1>12. ASSUME NEW undone, Disconnect(undone) \/ \E w \in Workspaces : UnmanageWorkspace(w, undone)
       PROVE  VisibleClients' \subseteq VisibleClients /\ FrameKept
  BY <1>7, <1>12 DEF Disconnect, UnmanageWorkspace, ClearManagement
<1>13. ASSUME Command
       PROVE  /\ \/ VisibleClients' \subseteq VisibleClients
                 \/ \E w \in Workspaces, visible \in SUBSET Clients,
                      hidden \in SUBSET Clients : ApplyLayout(w, visible, hidden)
              /\ FrameKept
  BY <1>5, <1>6, <1>8, <1>9, <1>10, <1>11, <1>12, <1>13 DEF Command, RequestState
<1>14. CASE \/ DropNotice \/ Connect
  BY <1>3, <1>14 DEF DropNotice, Connect
<1>15. CASE \E answers \in [Clients -> Answers] : AnswerNotice(answers)
  BY <1>5, <1>15 DEF AnswerNotice
<1> QED BY <1>4, <1>12, <1>13, <1>14, <1>15 DEF Next

\* Whatever the compositor and the controller do, a window is only made visible by
\* a layout that Emacs commits.
THEOREM EmacsDecidesVisibility == Spec => VisibilityComesFromEmacs
<1>1. IInv /\ [Next]_vars
        => [\/ VisibleClients' \subseteq VisibleClients
            \/ \E w \in Workspaces, visible \in SUBSET Clients,
                 hidden \in SUBSET Clients : ApplyLayout(w, visible, hidden)]_vars
  BY StepFacts
<1> QED BY <1>1, IInvAlways, PTL DEF Spec, VisibilityComesFromEmacs

\* A frame that manages the workspace is not relieved by one that has the focus.
THEOREM ManagingFrameStays == Spec => ManagingEmacsStable
<1>1. IInv /\ [Next]_vars
        => [managingEmacs # None /\ managingEmacs' # managingEmacs
              => managingEmacs \notin EmacsClients(registry', managedWs')]_vars
  BY StepFacts DEF FrameKept
<1> QED BY <1>1, IInvAlways, PTL DEF Spec, ManagingEmacsStable

-----------------------------------------------------------------------------
(* An event manages no window but its own.                                 *)

\* Apart from the managed flags, b knows the windows other than c as a does, if
\* it knows them.
SameElse(a, b, c) ==
  \A d \in Clients \ {c} :
    Known(b, d) => /\ Known(a, d)
                   /\ b.client[d].ws = a.client[d].ws
                   /\ b.client[d].kind = a.client[d].kind
                   /\ b.client[d].floating = a.client[d].floating

LEMMA SameElseTrans ==
  ASSUME NEW a, NEW b, NEW r, NEW c, SameElse(a, b, c), SameElse(b, r, c)
  PROVE  SameElse(a, r, c)
  BY DEF SameElse

\* reconcile_management touches nothing but the managed flags.
LEMMA ReconcileSame ==
  ASSUME NEW reg \in Registry, NEW w, NEW c
  PROVE  SameElse(reg, ReconcileManagement(reg, w), c)
<1> DEFINE out == ReconcileManagement(reg, w)
<1> SUFFICES ASSUME NEW d \in Clients, Known(out, d)
             PROVE  /\ Known(reg, d)
                    /\ out.client[d].ws = reg.client[d].ws
                    /\ out.client[d].kind = reg.client[d].kind
                    /\ out.client[d].floating = reg.client[d].floating
  BY DEF SameElse
<1>1. out.client[d] = IF Known(reg, d)
                      THEN [reg.client[d] EXCEPT !.managed = ShouldManage(reg.client[d], w)]
                      ELSE None
  BY DEF ReconcileManagement
<1> HIDE DEF out
<1>2. Known(reg, d)
  BY <1>1 DEF Known
<1> QED BY <1>1, <1>2, RecordOfClient DEF ClientRecord

\* The methods of one window.
LEMMA MethodsSame ==
  ASSUME NEW reg \in Registry, NEW c \in Clients
  PROVE  /\ \A w, k : SameElse(reg, UpsertOpen(reg, c, w, k), c)
         /\ SameElse(reg, Erase(reg, c), c)
         /\ \A w : SameElse(reg, UpdateWorkspace(reg, c, w), c)
         /\ \A k : SameElse(reg, UpdateTitle(reg, c, k), c)
         /\ \A f : SameElse(reg, SetFloating(reg, c, f), c)
         /\ SameElse(reg, SetFocus(reg, c), c)
  BY DEF SameElse, Known, UpsertOpen, Erase, UpdateWorkspace, UpdateTitle,
         SetFloating, SetFocus, Registry

\* A floating state that was asked for.
LEMMA QueriedSame ==
  ASSUME NEW reg \in Registry, NEW c \in Clients, NEW f \in Answers
  PROVE  SameElse(reg, Queried(reg, c, f), c)
<1>1. CASE QueryApplies(reg, c, f) /\ ~IgnoresFloat(layout, overlayPending, c, f)
  <2> DEFINE floated == SetFloating(reg, c, f)
  <2>1. f \in BOOLEAN
    BY <1>1 DEF QueryApplies, Answers
  <2>2. floated \in Registry /\ SameElse(reg, floated, c)
    BY <2>1, SetFloatingType, MethodsSame
  <2>3. Queried(reg, c, f) = ReconcileManagement(floated, managedWs)
    BY <1>1 DEF Queried
  <2> HIDE DEF floated
  <2> QED BY <2>2, <2>3, ReconcileSame, SameElseTrans
<1>2. CASE ~(QueryApplies(reg, c, f) /\ ~IgnoresFloat(layout, overlayPending, c, f))
  BY <1>2 DEF Queried, SameElse
<1> QED BY <1>1, <1>2

\* With the flags right before and after, only c can have become managed.
LEMMA OnlyItsOwn ==
  ASSUME NEW a, NEW b, NEW c, Reconciled(a, managedWs), Reconciled(b, managedWs),
         SameElse(a, b, c)
  PROVE  ManagedClients(b) \ ManagedClients(a) \subseteq {c}
  BY DEF Reconciled, SameElse, ManagedClients, ShouldManage, Eligible

\* The notice of an event that made a window managed.
LEMMA TilingNoticed ==
  ASSUME IInv, NEW c, NEW before, NEW after, NEW tokens, NEW last,
         Settle(c, before, after, tokens, last),
         Reconciled(after, managedWs), SameElse(registry, after, c),
         NEW d \in ManagedClients(registry') \ ManagedClients(registry),
         seen \subseteq ManagedClients(registry)
  PROVE  notice' = [type |-> "became-tiled", ws |-> managedWs, client |-> d]
<1>1. registry' = after /\ notice' = NoticeOf(before, after, c, TRUE)
  BY DEF Settle
<1>2. d = c
  BY <1>1, OnlyItsOwn DEF IInv
<1>3. IsManaged(after, c) /\ c \notin seen
  BY <1>1, <1>2 DEF IsManaged
<1> QED BY <1>1, <1>2, <1>3 DEF NoticeOf, BecameFloating, BecameTiled

\* Every event of the compositor.
LEMMA EventReports ==
  ASSUME IInv, CompositorEvent, seen \subseteq ManagedClients(registry),
         NEW d \in ManagedClients(registry') \ ManagedClients(registry)
  PROVE  notice' = [type |-> "became-tiled", ws |-> managedWs, client |-> d]
<1>1. registry \in Registry /\ Reconciled(registry, managedWs)
  BY DEF IInv, TypeOK
<1>2. CASE FocusNothing
  BY <1>2 DEF FocusNothing, Settle
<1>3. ASSUME NEW reg \in Registry, NEW c \in Clients, SameElse(registry, reg, c)
      PROVE  LET r == ReconcileManagement(reg, managedWs)
             IN  r \in Registry /\ Reconciled(r, managedWs) /\ SameElse(registry, r, c)
  BY <1>1, <1>3, ReconcileFacts, ReconcileSame, SameElseTrans
<1>4. ASSUME NEW reg \in Registry, NEW c \in Clients, NEW f \in Answers,
             Reconciled(reg, managedWs), SameElse(registry, reg, c)
      PROVE  Reconciled(Queried(reg, c, f), managedWs) /\ SameElse(registry, Queried(reg, c, f), c)
  BY <1>1, <1>4, QueriedFacts, QueriedSame, SameElseTrans
<1>5. ASSUME NEW c \in Clients, CloseWindow(c)
      PROVE  notice' = [type |-> "became-tiled", ws |-> managedWs, client |-> d]
  <2> DEFINE r == Erase(registry, c)
             closed == ReconcileManagement(r, managedWs)
  <2>1. r \in Registry /\ SameElse(registry, r, c)
    BY <1>1, EraseType, MethodsSame
  <2> HIDE DEF r
  <2>2. Reconciled(closed, managedWs) /\ SameElse(registry, closed, c)
    BY <1>3, <2>1
  <2>3. \E last : Settle(c, closed, closed, overlayPending \ {c}, last)
    BY <1>5 DEF CloseWindow, r
  <2> HIDE DEF closed
  <2> QED BY <2>2, <2>3, TilingNoticed
<1>6. ASSUME NEW c \in Clients, NEW target \in Workspaces \cup {HiddenWorkspace},
             MoveWindow(c, target)
      PROVE  notice' = [type |-> "became-tiled", ws |-> managedWs, client |-> d]
  <2> DEFINE r == UpdateWorkspace(registry, c, target)
             moved == ReconcileManagement(r, managedWs)
  <2>1. r \in Registry /\ SameElse(registry, r, c)
    BY <1>1, <1>6, UpdateWorkspaceType, MethodsSame DEF MoveWindow
  <2> HIDE DEF r
  <2>2. Reconciled(moved, managedWs) /\ SameElse(registry, moved, c)
    BY <1>3, <2>1
  <2>3. Settle(c, moved, moved, overlayPending, lastActive)
    BY <1>6 DEF MoveWindow, r
  <2> HIDE DEF moved
  <2> QED BY <2>2, <2>3, TilingNoticed
<1>7. ASSUME NEW c \in Clients, NEW f \in BOOLEAN, ChangeFloating(c, f)
      PROVE  notice' = [type |-> "became-tiled", ws |-> managedWs, client |-> d]
  <2> DEFINE r == SetFloating(registry, c, f)
             floated == ReconcileManagement(r, managedWs)
  <2>1. r \in Registry /\ SameElse(registry, r, c)
    BY <1>1, SetFloatingType, MethodsSame
  <2>2. \/ \E tokens : Settle(c, registry, floated, tokens, lastActive)
        \/ registry' = registry
    BY <1>7 DEF ChangeFloating
  <2> HIDE DEF r
  <2>3. Reconciled(floated, managedWs) /\ SameElse(registry, floated, c)
    BY <1>3, <2>1
  <2> HIDE DEF floated
  <2> QED BY <2>2, <2>3, TilingNoticed
<1>8. ASSUME NEW c \in Clients, NEW f \in Answers, NEW w \in Workspaces,
             NEW k \in KindsOf[c], OpenWindow(c, w, k, f)
      PROVE  notice' = [type |-> "became-tiled", ws |-> managedWs, client |-> d]
  <2> DEFINE r == UpsertOpen(registry, c, w, k)
             opened == ReconcileManagement(r, managedWs)
  <2>1. r \in Registry /\ SameElse(registry, r, c)
    BY <1>1, KindsOfAssumption, UpsertOpenType, MethodsSame
  <2>2. \E tokens : Settle(c, opened, Queried(opened, c, f), tokens, lastActive)
    BY <1>8 DEF OpenWindow
  <2> HIDE DEF r
  <2>3. /\ opened \in Registry /\ Reconciled(opened, managedWs)
        /\ SameElse(registry, opened, c)
    BY <1>3, <2>1
  <2> HIDE DEF opened
  <2> QED BY <1>4, <2>2, <2>3, TilingNoticed
<1>9. ASSUME NEW c \in Clients, NEW f \in Answers, NEW k \in KindsOf[c],
             RetitleWindow(c, k, f)
      PROVE  notice' = [type |-> "became-tiled", ws |-> managedWs, client |-> d]
  <2> DEFINE r == UpdateTitle(registry, c, k)
             titled == ReconcileManagement(r, managedWs)
  <2>1. r \in Registry /\ SameElse(registry, r, c)
    BY <1>1, KindsOfAssumption, UpdateTitleType, MethodsSame
  <2>2. \E tokens : Settle(c, titled, Queried(titled, c, f), tokens, lastActive)
    BY <1>9 DEF RetitleWindow
  <2> HIDE DEF r
  <2>3. /\ titled \in Registry /\ Reconciled(titled, managedWs)
        /\ SameElse(registry, titled, c)
    BY <1>3, <2>1
  <2> HIDE DEF titled
  <2> QED BY <1>4, <2>2, <2>3, TilingNoticed
<1>10. ASSUME NEW c \in Clients, NEW f \in Answers, FocusWindow(c, f)
       PROVE  notice' = [type |-> "became-tiled", ws |-> managedWs, client |-> d]
  <2> DEFINE r == SetFocus(registry, c)
  <2>1. r \in Registry /\ SameElse(registry, r, c) /\ Reconciled(r, managedWs)
    BY <1>1, SetFocusFacts, MethodsSame DEF Reconciled, Known
  <2>2. \E tokens : Settle(c, r, Queried(r, c, f), tokens, c)
    BY <1>10 DEF FocusWindow
  <2> HIDE DEF r
  <2> QED BY <1>4, <2>1, <2>2, TilingNoticed
<1> QED BY <1>2, <1>5, <1>6, <1>7, <1>8, <1>9, <1>10 DEF CompositorEvent

\* An event never makes a window managed in silence: the notice that makes the
\* IPC server hide it names the window, and no event makes two windows managed.
THEOREM TilingIsReported == Spec => EveryTilingReported
<1>1. IInv /\ [Next]_vars
        => [\A c \in ManagedClients(registry') \ ManagedClients(registry) :
              seen \subseteq ManagedClients(registry) /\ CompositorEvent =>
                notice' = [type |-> "became-tiled", ws |-> managedWs, client |-> c]]_vars
  BY EventReports
<1> QED BY <1>1, IInvAlways, PTL DEF Spec, EveryTilingReported

-----------------------------------------------------------------------------
(* With a compositor that answers and obeys, the policy is a function of   *)
(* the managed workspace: nothing of its history is left in it.            *)

PolicyFor(w) ==
  [option      |-> [o \in Options |-> IF w = None THEN "user" ELSE "off"],
   layout      |-> [v \in Workspaces |-> IF v = w THEN "hyprmacs" ELSE "user"],
   savedLayout |-> [v \in Workspaces |-> IF v = w THEN "user" ELSE None],
   savedOption |-> [o \in Options |-> IF w = None THEN None ELSE "user"],
   lease       |-> IF w = None THEN 0 ELSE 1]

PolicyIsOfWorkspace == policy = PolicyFor(managedWs)

\* Managing w from the user's own policy.
LEMMA ApplyFromUser ==
  ASSUME NEW w \in Workspaces
  PROVE  ApplyManagedLayout(PolicyFor(None), w, Queries, Dispatches) = PolicyFor(w)
<1> DEFINE p == PolicyFor(None)
           layouts == [p.savedLayout EXCEPT ![w] = "user"]
           saved == [p EXCEPT !.savedLayout[w] = QueryLayout(p, w, Queries)]
           set == DispatchLayout(saved, w, "hyprmacs", Dispatches)
<1>1. w # None /\ p.savedLayout[w] = None /\ QueryLayout(p, w, Queries) = "user"
  BY NoneAssumption DEF PolicyFor, QueryLayout, Queries
<1>2. saved = [p EXCEPT !.savedLayout = [v \in Workspaces |-> IF v = w THEN "user" ELSE None]]
  <2>1. saved = [p EXCEPT !.savedLayout = [p.savedLayout EXCEPT ![w] = "user"]]
    BY <1>1
  <2>2. layouts = [v \in Workspaces |-> IF v = w THEN "user" ELSE None]
    BY NoneAssumption DEF PolicyFor
  <2> QED BY <2>1, <2>2
<1>3. set = [saved EXCEPT !.layout = [v \in Workspaces |-> IF v = w THEN "hyprmacs" ELSE "user"]]
  <2>1. set = [saved EXCEPT !.layout = [saved.layout EXCEPT ![w] = "hyprmacs"]]
    BY DEF DispatchLayout, Dispatches
  <2>2. saved.layout = [v \in Workspaces |-> "user"]
    BY <1>2, NoneAssumption DEF PolicyFor
  <2>3. [saved.layout EXCEPT ![w] = "hyprmacs"]
          = [v \in Workspaces |-> IF v = w THEN "hyprmacs" ELSE "user"]
    BY <2>2
  <2> QED BY <2>1, <2>3
<1>4. ApplyManagedLayout(p, w, Queries, Dispatches) = AcquireLease(set, Queries, Dispatches)
  BY <1>1 DEF ApplyManagedLayout
<1>5. set = [option      |-> [o \in Options |-> "user"],
             layout      |-> [v \in Workspaces |-> IF v = w THEN "hyprmacs" ELSE "user"],
             savedLayout |-> [v \in Workspaces |-> IF v = w THEN "user" ELSE None],
             savedOption |-> [o \in Options |-> None],
             lease       |-> 0]
  <2>1. saved = [option      |-> [o \in Options |-> "user"],
                 layout      |-> [v \in Workspaces |-> "user"],
                 savedLayout |-> [v \in Workspaces |-> IF v = w THEN "user" ELSE None],
                 savedOption |-> [o \in Options |-> None],
                 lease       |-> 0]
    BY <1>2, NoneAssumption DEF PolicyFor
  <2> HIDE DEF saved, set
  <2> QED BY <1>3, <2>1
<1> HIDE DEF set
<1>6. AcquireLease(set, Queries, Dispatches)
        = [option      |-> [o \in Options |-> "off"],
           layout      |-> [v \in Workspaces |-> IF v = w THEN "hyprmacs" ELSE "user"],
           savedLayout |-> [v \in Workspaces |-> IF v = w THEN "user" ELSE None],
           savedOption |-> [o \in Options |-> "user"],
           lease       |-> 1]
  BY <1>5 DEF AcquireLease, Queries, Dispatches
<1> QED BY <1>1, <1>4, <1>6 DEF PolicyFor

\* Giving w back leaves the user's own policy.
LEMMA RestoreToUser ==
  ASSUME NEW w \in Workspaces
  PROVE  RestoreManagedLayout(PolicyFor(w), w, Dispatches) = PolicyFor(None)
<1> DEFINE p == PolicyFor(w)
           restored == DispatchLayout(p, w, "user", Dispatches)
           erased == [restored EXCEPT !.savedLayout[w] = None]
<1>1. w # None /\ p.savedLayout[w] = "user" /\ "user" # None
  BY NoneAssumption, NoneIsNoName DEF PolicyFor
<1>2. restored = [p EXCEPT !.layout = [v \in Workspaces |-> "user"]]
  <2>1. restored = [p EXCEPT !.layout = [p.layout EXCEPT ![w] = "user"]]
    BY DEF DispatchLayout, Dispatches
  <2>2. [p.layout EXCEPT ![w] = "user"] = [v \in Workspaces |-> "user"]
    BY DEF PolicyFor
  <2> QED BY <2>1, <2>2
<1>3. erased = [restored EXCEPT !.savedLayout = [v \in Workspaces |-> None]]
  <2>1. erased = [restored EXCEPT !.savedLayout = [restored.savedLayout EXCEPT ![w] = None]]
    BY Zenon
  <2>2. restored.savedLayout = [v \in Workspaces |-> IF v = w THEN "user" ELSE None]
    BY <1>2 DEF PolicyFor
  <2>3. [restored.savedLayout EXCEPT ![w] = None] = [v \in Workspaces |-> None]
    BY <2>2
  <2> QED BY <2>1, <2>3
<1>4. RestoreManagedLayout(p, w, Dispatches) = ReleaseLease(erased, Dispatches)
  BY <1>1 DEF RestoreManagedLayout
<1>5. erased = [option      |-> [o \in Options |-> "off"],
                layout      |-> [v \in Workspaces |-> "user"],
                savedLayout |-> [v \in Workspaces |-> None],
                savedOption |-> [o \in Options |-> "user"],
                lease       |-> 1]
  BY <1>1, <1>2, <1>3 DEF PolicyFor
<1> HIDE DEF erased
<1>6. ReleaseLease(erased, Dispatches)
        = [option      |-> [o \in Options |-> "user"],
           layout      |-> [v \in Workspaces |-> "user"],
           savedLayout |-> [v \in Workspaces |-> None],
           savedOption |-> [o \in Options |-> None],
           lease       |-> 0]
  BY <1>1, <1>5 DEF ReleaseLease, Dispatches
<1> QED BY <1>4, <1>6, NoneAssumption DEF PolicyFor

\* What the events and commands that manage no workspace do to the policy.
LEMMA PolicyUntouched ==
  ASSUME NEW answers \in [Clients -> Answers],
         \/ CompositorEvent
         \/ AnswerNotice(answers)
         \/ DropNotice
         \/ Connect
         \/ \E w \in Workspaces : RequestState(w, answers)
         \/ \E w \in Workspaces, mode \in InputModes : SetInputMode(w, mode)
         \/ \E w \in Workspaces, visible \in SUBSET Clients, hidden \in SUBSET Clients :
              ApplyLayout(w, visible, hidden)
         \/ \E c \in Clients, w \in Workspaces :
              \/ SetSelectedClient(w, c)
              \/ NoteOverlayFloatRequest(w, c)
              \/ \E k \in KindsOf[c], f \in BOOLEAN : SeedClient(c, w, k, f)
  PROVE  UNCHANGED <<managedWs, policy>>
<1>1. ASSUME NEW c, NEW before, NEW after, NEW tokens, NEW last,
             Settle(c, before, after, tokens, last)
      PROVE  UNCHANGED <<managedWs, policy>>
  BY <1>1 DEF Settle
<1>2. ASSUME CompositorEvent PROVE UNCHANGED <<managedWs, policy>>
  <2>1. CASE FocusNothing
    BY <1>1, <2>1 DEF FocusNothing
  <2>2. ASSUME NEW c \in Clients, CloseWindow(c) PROVE UNCHANGED <<managedWs, policy>>
    BY <1>1, <2>2 DEF CloseWindow
  <2>3. ASSUME NEW c \in Clients, NEW target, MoveWindow(c, target)
        PROVE  UNCHANGED <<managedWs, policy>>
    BY <1>1, <2>3 DEF MoveWindow
  <2>4. ASSUME NEW c \in Clients, NEW f \in BOOLEAN, ChangeFloating(c, f)
        PROVE  UNCHANGED <<managedWs, policy>>
    BY <1>1, <2>4 DEF ChangeFloating
  <2>5. ASSUME NEW c \in Clients, NEW w, NEW k, NEW f,
               \/ OpenWindow(c, w, k, f)
               \/ RetitleWindow(c, k, f)
               \/ FocusWindow(c, f)
        PROVE  UNCHANGED <<managedWs, policy>>
    BY <1>1, <2>5 DEF OpenWindow, RetitleWindow, FocusWindow
  <2> QED BY <1>2, <2>1, <2>2, <2>3, <2>4, <2>5 DEF CompositorEvent
<1> QED
  BY <1>2
  DEF AnswerNotice, DropNotice, Connect, RequestState, RefreshFloating, SetInputMode,
      ApplyLayout, SetSelectedClient, NoteOverlayFloatRequest, SeedClient

\* Every step leaves the policy of the workspace that is managed then.
LEMMA PolicyForStep ==
  ASSUME "query" \notin Faults, "dispatch" \notin Faults,
         TypeOK, policy = PolicyFor(managedWs), [Next]_vars
  PROVE  policy' = PolicyFor(managedWs')
<1>1. Done = {Dispatches} /\ Answered = {Queries}
  BY DEF Done, Answered
<1>2. managedWs # None => managedWs \in Workspaces
  BY DEF TypeOK, Maybe
<1>3. ASSUME UNCHANGED <<managedWs, policy>> PROVE policy' = PolicyFor(managedWs')
  BY <1>3
<1>4. ASSUME NEW w \in Workspaces, NEW answers,
             ManageWorkspace(w, answers, Dispatches, Queries, Dispatches)
      PROVE  policy' = PolicyFor(managedWs')
  <2>1. managedWs' = w
    BY <1>4 DEF ManageWorkspace
  <2>2. CASE managedWs = w
    BY <1>4, <2>1, <2>2 DEF ManageWorkspace
  <2>3. CASE managedWs # w /\ managedWs = None
    BY <1>4, <2>1, <2>3, ApplyFromUser DEF ManageWorkspace
  <2>4. CASE managedWs # w /\ managedWs # None
    <3>1. policy' = ApplyManagedLayout(RestoreManagedLayout(policy, managedWs, Dispatches),
                                       w, Queries, Dispatches)
      BY <1>4, <2>4 DEF ManageWorkspace
    <3> QED BY <1>2, <2>1, <2>4, <3>1, ApplyFromUser, RestoreToUser
  <2> QED BY <2>2, <2>3, <2>4
<1>5. ASSUME NEW w \in Workspaces, managedWs = w, ClearManagement(w, Dispatches)
      PROVE  policy' = PolicyFor(managedWs')
  BY <1>5, RestoreToUser DEF ClearManagement
<1>6. ASSUME Disconnect(Dispatches) PROVE policy' = PolicyFor(managedWs')
  <2>1. CASE managedWs # None /\ ClearManagement(managedWs, Dispatches)
    BY <1>2, <1>5, <2>1
  <2>2. CASE UNCHANGED <<managedWs, policy>>
    BY <1>3, <2>2
  <2> QED BY <1>6, <2>1, <2>2 DEF Disconnect
<1>7. CASE Command
  <2>1. ASSUME NEW w \in Workspaces, NEW undone \in Done, UnmanageWorkspace(w, undone)
        PROVE  policy' = PolicyFor(managedWs')
    BY <1>1, <1>5, <2>1 DEF UnmanageWorkspace
  <2>2. ASSUME NEW w \in Workspaces, NEW answers \in [Clients -> Answers],
               NEW undone \in Done, NEW done \in Done, NEW answered \in Answered,
               ManageWorkspace(w, answers, undone, answered, done)
        PROVE  policy' = PolicyFor(managedWs')
    BY <1>1, <1>4, <2>2
  <2>3. [c \in Clients |-> None] \in [Clients -> Answers]
    BY DEF Answers
  <2> QED BY <1>3, <1>7, <2>1, <2>2, <2>3, PolicyUntouched DEF Command
<1>8. CASE UNCHANGED vars
  BY <1>3, <1>8 DEF vars
<1>9. [c \in Clients |-> None] \in [Clients -> Answers]
  BY DEF Answers
<1> QED BY <1>1, <1>3, <1>6, <1>7, <1>8, <1>9, PolicyUntouched DEF Next

\* As long as the compositor answers the queries and obeys the dispatches,
\* exactly the managed workspace has the hyprmacs layout, the options are off
\* exactly while there is one, and the user's own values are in force otherwise.
THEOREM PolicyInForce ==
  ASSUME "query" \notin Faults, "dispatch" \notin Faults
  PROVE  Spec => []PolicyFollowsManagement
<1>1. Init => PolicyIsOfWorkspace
  BY NoneAssumption DEF Init, InitPolicy, PolicyFor, PolicyIsOfWorkspace
<1>2. TypeOK /\ PolicyIsOfWorkspace /\ [Next]_vars => PolicyIsOfWorkspace'
  BY PolicyForStep DEF PolicyIsOfWorkspace
<1>3. PolicyIsOfWorkspace => PolicyFollowsManagement
  BY DEF PolicyFor, PolicyFollowsManagement, PolicyIsOfWorkspace
<1> QED BY <1>1, <1>2, <1>3, TypeCorrect, PTL DEF Spec
=============================================================================
