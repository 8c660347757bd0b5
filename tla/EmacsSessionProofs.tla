------------------------- MODULE EmacsSessionProofs -------------------------
(***************************************************************************)
(* The types of the session that Emacs keeps, and that the plugin ends up  *)
(* with the arrangement of the windows: for every set of clients and       *)
(* windows, any number of commands, and whatever is under way on the       *)
(* socket.                                                                 *)
(*                                                                         *)
(* What the plugin still has to read decides what its layout will be: the  *)
(* last set-layout, or the end of the connection if that comes after it.   *)
(* SessionInv says that this last word agrees with the windows, unless a   *)
(* change or a timer of Emacs will make it say another one.                *)
(***************************************************************************)
EXTENDS EmacsSession, SequenceTheorems, TLAPS

-----------------------------------------------------------------------------
(* The types of what is on the socket.                                     *)

Requests ==
  [type: {"manage-workspace", "unmanage-workspace", "request-state", "eof"}]
    \cup [type: {"set-selected-client"}, selected: Clients]
    \cup [type: {"set-layout"}, visible: SUBSET Clients, hidden: SUBSET Clients,
          selected: Clients \cup {None}]

Dumps == [type: {"state-dump"}, managed: BOOLEAN, clients: SUBSET Clients,
          selected: Clients \cup {None}]

Frames == [type: {"workspace-managed", "workspace-unmanaged", "eof"}]
            \cup [type: {"layout-applied"}, selected: Clients \cup {None}]
            \cup Dumps

SessionTyped ==
  /\ EmacsTypeOK
  /\ window \in [Windows -> Clients \cup {None}]
  /\ toPlugin \in Seq(Requests) /\ toEmacs \in Seq(Frames)
  /\ built \in Dumps \cup {None}

-----------------------------------------------------------------------------
(* The last word of the requests q.                                        *)

\* After a layout the earlier ones do not matter, nor after the end of the
\* connection.
Decides(m) == m.type \in {"set-layout", "eof"}

\* No request after the i-th one decides.
Undecided(q, i) == \A j \in 1 .. Len(q) : i < j => ~Decides(q[j])

\* A layout follows every request to manage the workspace, or it is due.
Follows(q, due) ==
  \A i \in 1 .. Len(q) : q[i].type = "manage-workspace" /\ Undecided(q, i) => due

\* Two arrangements differ in the clients u only.
AgreeBut(shown, visible, u) == shown \ u = visible \ u

\* The last word, if it is a layout, agrees with the windows.
Offers(q, shown, u) ==
  \A i \in 1 .. Len(q) :
    q[i].type = "set-layout" /\ Undecided(q, i) => AgreeBut(shown, q[i].visible, u)

Ended(q) == q # <<>> /\ q[Len(q)].type = "eof"

\* No layout will be in force when the requests are served.
Over(q, own) == (q = <<>> /\ ~own) \/ Ended(q)

\* What is known of a list of requests and of the first one.
LEMMA FirstOfMany ==
  ASSUME NEW S, NEW q \in Seq(S), q # <<>>
  PROVE  /\ Len(q) \in Nat \ {0} /\ DOMAIN q = 1 .. Len(q)
         /\ Head(q) \in S /\ Head(q) = q[1]
         /\ Tail(q) \in Seq(S) /\ Len(Tail(q)) = Len(q) - 1
         /\ \A i \in 1 .. Len(q) - 1 : Tail(q)[i] = q[i + 1]
         /\ Range(q) = {Head(q)} \cup Range(Tail(q))
<1>1. /\ Len(q) \in Nat \ {0} /\ DOMAIN q = 1 .. Len(q)
      /\ Tail(q) \in Seq(S) /\ Head(q) \in S
      /\ Len(Tail(q)) = Len(q) - 1
      /\ \A i \in 1 .. Len(Tail(q)) : Tail(q)[i] = q[i + 1]
  BY EmptySeq, LenProperties, HeadTailProperties
<1>2. Head(q) = q[1]
  BY <1>1
<1>3. DOMAIN Tail(q) = 1 .. (Len(q) - 1)
  BY <1>1, LenProperties
<1>4. Range(q) = {Head(q)} \cup Range(Tail(q))
  <2>1. ASSUME NEW i \in 1 .. Len(q) PROVE q[i] \in {Head(q)} \cup Range(Tail(q))
    <3>1. CASE i = 1
      BY <1>2, <3>1
    <3>2. CASE i # 1
      <4>1. i - 1 \in 1 .. Len(q) - 1 /\ (i - 1) + 1 = i
        BY <1>1, <3>2
      <4>2. Tail(q)[i - 1] = q[i]
        BY <1>1, <4>1
      <4> QED BY <1>3, <4>1, <4>2 DEF Range
    <3> QED BY <3>1, <3>2
  <2>2. ASSUME NEW i \in 1 .. Len(q) - 1 PROVE Tail(q)[i] \in Range(q)
    <3>1. i + 1 \in 1 .. Len(q) /\ Tail(q)[i] = q[i + 1]
      BY <1>1, <2>2
    <3> QED BY <1>1, <3>1 DEF Range
  <2>3. Head(q) \in Range(q)
    BY <1>1, <1>2 DEF Range
  <2> QED BY <1>1, <1>3, <2>1, <2>2, <2>3 DEF Range
<1> QED BY <1>1, <1>2, <1>4

\* Serving the first request changes nothing of what the others say.
LEMMA ServedFirst ==
  ASSUME NEW q \in Seq(Requests), q # <<>>
  PROVE  /\ \A due : Follows(q, due) => Follows(Tail(q), due)
         /\ \A shown, u : Offers(q, shown, u) => Offers(Tail(q), shown, u)
         /\ Undecided(q, 0) <=> ~Decides(Head(q)) /\ Undecided(Tail(q), 0)
         /\ \A due : Head(q).type = "manage-workspace" /\ Undecided(Tail(q), 0)
                       /\ Follows(q, due) => due
         /\ \A shown, u : Head(q).type = "set-layout" /\ Undecided(Tail(q), 0)
                            /\ Offers(q, shown, u) => AgreeBut(shown, Head(q).visible, u)
         /\ Ended(q) => Ended(Tail(q)) \/ (Tail(q) = <<>> /\ Head(q).type = "eof")
<1> DEFINE r == Tail(q)
<1>1. /\ Len(q) \in Nat \ {0} /\ Head(q) = q[1] /\ r \in Seq(Requests)
      /\ Len(r) = Len(q) - 1
      /\ \A i \in 1 .. Len(q) - 1 : r[i] = q[i + 1]
  BY FirstOfMany
<1> HIDE DEF r
<1>2. ASSUME NEW i \in 0 .. Len(r) PROVE Undecided(r, i) <=> Undecided(q, i + 1)
  <2>1. ASSUME Undecided(r, i), NEW j \in 1 .. Len(q), i + 1 < j PROVE ~Decides(q[j])
    <3>1. j - 1 \in 1 .. Len(r) /\ i < j - 1 /\ r[j - 1] = q[(j - 1) + 1] /\ (j - 1) + 1 = j
      BY <1>1, <2>1
    <3> QED BY <2>1, <3>1 DEF Undecided
  <2>2. ASSUME Undecided(q, i + 1), NEW j \in 1 .. Len(r), i < j PROVE ~Decides(r[j])
    <3>1. j + 1 \in 1 .. Len(q) /\ i + 1 < j + 1 /\ r[j] = q[j + 1]
      BY <1>1, <2>2
    <3> QED BY <2>2, <3>1 DEF Undecided
  <2> QED BY <2>1, <2>2 DEF Undecided
<1>3. Undecided(r, 0) <=> Undecided(q, 1)
  BY <1>1, <1>2
<1>4. \A i \in 1 .. Len(r) : /\ i + 1 \in 1 .. Len(q) /\ r[i] = q[i + 1]
                             /\ Undecided(r, i) <=> Undecided(q, i + 1)
  BY <1>1, <1>2
<1>5. /\ \A due : Follows(q, due) => Follows(r, due)
      /\ \A shown, u : Offers(q, shown, u) => Offers(r, shown, u)
  BY <1>4 DEF Follows, Offers
<1>6. Undecided(q, 0) <=> ~Decides(Head(q)) /\ Undecided(r, 0)
  <2>1. Undecided(q, 0) <=> ~Decides(q[1]) /\ Undecided(q, 1)
    BY <1>1 DEF Undecided
  <2> QED BY <1>1, <1>3, <2>1
<1>7. 1 \in 1 .. Len(q)
  BY <1>1
<1>8. /\ \A due : Head(q).type = "manage-workspace" /\ Undecided(r, 0)
                    /\ Follows(q, due) => due
      /\ \A shown, u : Head(q).type = "set-layout" /\ Undecided(r, 0)
                         /\ Offers(q, shown, u) => AgreeBut(shown, Head(q).visible, u)
  BY <1>1, <1>3, <1>7 DEF Follows, Offers
<1>9. ASSUME Ended(q) PROVE Ended(r) \/ (r = <<>> /\ Head(q).type = "eof")
  <2>1. CASE r = <<>>
    <3>1. Len(q) = 1
      BY <1>1, <2>1, EmptySeq
    <3> QED BY <1>1, <1>9, <2>1, <3>1 DEF Ended
  <2>2. CASE r # <<>>
    <3>1. Len(r) \in 1 .. Len(q) - 1 /\ Len(r) + 1 = Len(q)
      BY <1>1, <2>2, EmptySeq
    <3> QED BY <1>1, <1>9, <2>2, <3>1 DEF Ended
  <2> QED BY <2>1, <2>2
<1> QED BY <1>5, <1>6, <1>8, <1>9 DEF r

\* A request that does not decide, behind the others.
LEMMA SentRequest ==
  ASSUME NEW q \in Seq(Requests), NEW m \in Requests,
         m.type \notin {"manage-workspace", "set-layout", "eof"}
  PROVE  /\ q \o <<m>> \in Seq(Requests)
         /\ \A due : Follows(q, due) => Follows(q \o <<m>>, due)
         /\ \A shown, u : Offers(q, shown, u) => Offers(q \o <<m>>, shown, u)
         /\ Undecided(q \o <<m>>, 0) <=> Undecided(q, 0)
<1> DEFINE s == q \o <<m>>
<1>1. <<m>> \in Seq(Requests) /\ Len(<<m>>) = 1 /\ <<m>>[1] = m
  OBVIOUS
<1>2. /\ s \in Seq(Requests) /\ Len(q) \in Nat /\ Len(s) = Len(q) + 1
      /\ \A i \in 1 .. Len(q) : s[i] = q[i]
      /\ s[Len(q) + 1] = m
  BY <1>1, ConcatProperties, LenProperties
<1> HIDE DEF s
<1>3. ASSUME NEW i \in 0 .. Len(q) PROVE Undecided(s, i) <=> Undecided(q, i)
  BY <1>2 DEF Undecided, Decides
<1>4. \A i \in 1 .. Len(s) : \/ i \in 1 .. Len(q) /\ s[i] = q[i] /\ (Undecided(s, i) <=> Undecided(q, i))
                             \/ s[i] = m
  <2> SUFFICES ASSUME NEW i \in 1 .. Len(s), i \notin 1 .. Len(q) PROVE s[i] = m
    BY <1>2, <1>3
  <2> QED BY <1>2
<1>5. /\ \A due : Follows(q, due) => Follows(s, due)
      /\ \A shown, u : Offers(q, shown, u) => Offers(s, shown, u)
  BY <1>4 DEF Follows, Offers
<1>6. Undecided(s, 0) <=> Undecided(q, 0)
  BY <1>2, <1>3
<1> QED BY <1>2, <1>5, <1>6 DEF s

\* A request that decides, behind the others: it is the last word.
LEMMA SentLastWord ==
  ASSUME NEW q \in Seq(Requests), NEW m \in Requests, Decides(m)
  PROVE  /\ q \o <<m>> \in Seq(Requests)
         /\ \A due : Follows(q \o <<m>>, due)
         /\ \A shown, u : m.type = "set-layout" /\ AgreeBut(shown, m.visible, u)
                            => Offers(q \o <<m>>, shown, u)
         /\ ~Undecided(q \o <<m>>, 0)
         /\ m.type = "eof" => Ended(q \o <<m>>)
<1> DEFINE s == q \o <<m>>
<1>1. <<m>> \in Seq(Requests) /\ Len(<<m>>) = 1 /\ <<m>>[1] = m
  OBVIOUS
<1>2. /\ s \in Seq(Requests) /\ Len(q) \in Nat /\ Len(s) = Len(q) + 1
      /\ s[Len(s)] = m
  BY <1>1, ConcatProperties, LenProperties
<1> HIDE DEF s
<1>3. ASSUME NEW i \in 0 .. Len(q) PROVE ~Undecided(s, i)
  BY <1>2 DEF Undecided
<1>4. \A i \in 1 .. Len(s) : Undecided(s, i) => s[i] = m
  <2> SUFFICES ASSUME NEW i \in 1 .. Len(s), i # Len(s) PROVE ~Undecided(s, i)
    BY <1>2
  <2> QED BY <1>2, <1>3
<1>5. \A due : Follows(s, due)
  BY <1>4 DEF Follows, Decides
<1>6. \A shown, u : m.type = "set-layout" /\ AgreeBut(shown, m.visible, u) => Offers(s, shown, u)
  BY <1>4 DEF Offers
<1>7. ~Undecided(s, 0)
  BY <1>2, <1>3
<1>8. m.type = "eof" => Ended(s)
  BY <1>2, EmptySeq DEF Ended
<1> QED BY <1>2, <1>5, <1>6, <1>7, <1>8 DEF s

\* When the connection has ended nothing remains to be said.
LEMMA NothingAfterEnd ==
  ASSUME NEW q \in Seq(Requests), Ended(q)
  PROVE  /\ \A due : Follows(q, due)
         /\ \A shown, u : Offers(q, shown, u)
         /\ ~Undecided(q, 0)
<1>1. Len(q) \in Nat \ {0}
  BY FirstOfMany DEF Ended
<1>2. \A i \in 1 .. Len(q) : Undecided(q, i) => i = Len(q)
  BY <1>1 DEF Undecided, Ended, Decides
<1>3. ~Undecided(q, 0)
  BY <1>1 DEF Undecided, Ended, Decides
<1> QED BY <1>2, <1>3 DEF Follows, Offers, Ended

-----------------------------------------------------------------------------
(* The invariant.                                                          *)

\* What Emacs sends is lost only when the plugin's side of the connection is
\* over, or is about to be when the requests are served.
CutOff ==
  /\ process # "live" => toEmacs = <<>>
  /\ ~Reaches => Over(toPlugin, owner)

\* Emacs has no reason to publish the windows again.
Settled == ~changed /\ ~syncTimer /\ ~initialTimer /\ syncEnabled

\* Then the last word agrees with the windows, and if all is said the layout.
LastWordAgrees ==
  Settled =>
    /\ Offers(toPlugin, Shown, unpublished)
    /\ Undecided(toPlugin, 0) /\ owner /\ ~refused => AgreeBut(Shown, Arranged, unpublished)

SessionInv ==
  /\ SessionTyped
  /\ CutOff
  /\ Follows(toPlugin, initialTimer)
  /\ LastWordAgrees

\* Nothing is on the screen or in the layout that is no client.
LEMMA OnlyClients ==
  ASSUME SessionTyped
  PROVE  Shown \subseteq Clients /\ Arranged \subseteq Clients
  BY DEF SessionTyped, EmacsTypeOK, Arranged

\* When all will be over the rest of the invariant holds.
LEMMA OverSuffices ==
  ASSUME toPlugin' \in Seq(Requests), Over(toPlugin', owner'),
         process' # "live" => toEmacs' = <<>>
  PROVE  CutOff' /\ Follows(toPlugin', initialTimer') /\ LastWordAgrees'
<1>1. CASE toPlugin' = <<>> /\ ~owner'
  <2>1. Len(toPlugin') = 0
    BY <1>1
  <2>2. Follows(toPlugin', initialTimer') /\ Offers(toPlugin', Shown', unpublished')
    BY <2>1 DEF Follows, Offers
  <2> QED BY <1>1, <2>2 DEF CutOff, LastWordAgrees, Over
<1>2. CASE Ended(toPlugin')
  BY <1>2, NothingAfterEnd DEF CutOff, LastWordAgrees, Over
<1> QED BY <1>1, <1>2 DEF Over

\* Steps that neither send nor serve a request, and that leave the windows as
\* they were or will make Emacs publish them.
LEMMA NothingSaid ==
  ASSUME SessionInv, UNCHANGED <<toPlugin, owner, layout, refused>>,
         ~Reaches' => ~Reaches, process' # "live" => toEmacs' = <<>>,
         initialTimer => initialTimer',
         Settled' => \/ Settled /\ Shown' = Shown /\ unpublished' = unpublished
                     \/ Shown' \subseteq Clients /\ unpublished' = Clients
  PROVE  CutOff' /\ Follows(toPlugin', initialTimer') /\ LastWordAgrees'
<1>1. CutOff'
  BY DEF SessionInv, CutOff
<1>2. Follows(toPlugin', initialTimer')
  BY DEF SessionInv, Follows
<1>3. Arranged' = Arranged
  BY DEF Arranged
<1>4. ASSUME Settled' PROVE Offers(toPlugin', Shown', unpublished')
                            /\ (Undecided(toPlugin', 0) /\ owner' /\ ~refused'
                                  => AgreeBut(Shown', Arranged', unpublished'))
  <2>1. CASE Settled /\ Shown' = Shown /\ unpublished' = unpublished
    BY <1>3, <2>1 DEF SessionInv, LastWordAgrees
  <2>2. CASE Shown' \subseteq Clients /\ unpublished' = Clients
    <3>1. /\ toPlugin' \in Seq(Requests) /\ Arranged' \subseteq Clients
      BY <1>3, OnlyClients DEF SessionInv, SessionTyped
    <3>2. \A i \in 1 .. Len(toPlugin') : toPlugin'[i] \in Requests
      BY <3>1
    <3>3. \A i \in 1 .. Len(toPlugin') :
            toPlugin'[i].type = "set-layout" => toPlugin'[i].visible \subseteq Clients
      BY <3>2 DEF Requests
    <3> QED BY <2>2, <3>1, <3>3 DEF Offers, AgreeBut
  <2> QED BY <1>4, <2>1, <2>2
<1> QED BY <1>1, <1>2, <1>4 DEF LastWordAgrees

\* A change of what a window shows is not forgotten.
LEMMA DisplayNoticed ==
  ASSUME SessionTyped, NEW win \in [Windows -> Clients \cup {None}],
         NEW w \in Windows, Display(win, w)
  PROVE  /\ window' \in [Windows -> Clients \cup {None}] /\ point' \in Windows
         /\ changed' \in BOOLEAN
         /\ Shown' = {win[v] : v \in Windows} \ {None}
         /\ Shown' \subseteq Clients
         /\ ~changed' => ~changed /\ Shown' = Shown
<1>1. window' = win /\ point' = w /\ changed' = (changed \/ win # window \/ w # point)
  BY DEF Display
<1>2. ~changed' => ~changed /\ window' = window
  BY <1>1
<1> QED BY <1>1, <1>2 DEF Shown

\* A client's buffer that a window shows is activated in a window that exists.
LEMMA ActivatedWindow ==
  ASSUME SessionTyped, NEW c, NEW win, NEW live, NEW w \in ActivateSelected(c, win, live)
  PROVE  w \in Windows
  BY DEF ActivateSelected, Showing, SessionTyped, EmacsTypeOK

\* Frames that are handled or sent do not end the connection.
LEMMA FrameHandled ==
  ASSUME SessionTyped, toEmacs # <<>>, Head(toEmacs).type # "eof",
         toEmacs' = Tail(toEmacs), UNCHANGED <<process, pluginUp>>
  PROVE  toEmacs' \in Seq(Frames) /\ (Reaches' <=> Reaches) /\ Head(toEmacs) \in Frames
<1>1. /\ Tail(toEmacs) \in Seq(Frames) /\ Head(toEmacs) \in Frames
      /\ Range(toEmacs) = {Head(toEmacs)} \cup Range(Tail(toEmacs))
  BY FirstOfMany DEF SessionTyped
<1>2. Head(toEmacs) # Frame("eof")
  BY DEF Frame
<1>3. Frame("eof") \in Range(toEmacs) <=> Frame("eof") \in Range(toEmacs')
  BY <1>1, <1>2
<1> QED BY <1>1, <1>3 DEF Reaches

\* Frames that hold no end of the connection leave it open, and reach Emacs if it
\* has one.
LEMMA FramesSent ==
  ASSUME SessionTyped, NEW rest, NEW frames \in Seq(Frames),
         Frame("eof") \notin Range(frames),
         Answer(rest, frames), UNCHANGED <<process, pluginUp>>
  PROVE  /\ toEmacs' \in Seq(Frames) /\ (Reaches' <=> Reaches)
         /\ process # "live" => toEmacs' = toEmacs
<1>1. toEmacs \in Seq(Frames)
  BY DEF SessionTyped
<1>2. toEmacs \o frames \in Seq(Frames)
  BY <1>1, ConcatProperties
<1>3. Range(toEmacs \o frames) = Range(toEmacs) \cup Range(frames)
  BY <1>1, RangeConcatenation, Zenon
<1>4. \/ toEmacs' = toEmacs \o frames /\ process = "live"
      \/ toEmacs' = toEmacs
  BY DEF Answer
<1>5. Frame("eof") \in Range(toEmacs) <=> Frame("eof") \in Range(toEmacs')
  BY <1>3, <1>4
<1> QED BY <1>1, <1>2, <1>4, <1>5 DEF Reaches

\* Answers of one frame and of two.
LEMMA AnswerFrames ==
  ASSUME NEW f \in Frames, f # Frame("eof")
  PROVE  /\ <<f>> \in Seq(Frames) /\ Frame("eof") \notin Range(<<f>>)
         /\ \A g \in Frames : g # Frame("eof") =>
              <<f, g>> \in Seq(Frames) /\ Frame("eof") \notin Range(<<f, g>>)
<1>1. Range(<<f>>) = {f} /\ \A g : Range(<<f, g>>) = {f, g}
  BY DEF Range
<1> QED BY <1>1

\* The frames that the plugin answers with.
LEMMA DumpFrame ==
  ASSUME NEW own \in BOOLEAN, NEW clients \in SUBSET Clients, NEW foc \in Clients \cup {None}
  PROVE  /\ Dump(own, clients, foc) \in Dumps
         /\ Dump(own, clients, foc) \in Frames
         /\ Dump(own, clients, foc) # Frame("eof")
<1>1. /\ (IF own THEN clients ELSE {}) \in SUBSET Clients
      /\ (IF own /\ foc \in clients THEN foc ELSE None) \in Clients \cup {None}
  OBVIOUS
<1>2. Dump(own, clients, foc) \in Dumps
  BY <1>1 DEF Dump, Dumps
<1>3. Dump(own, clients, foc).type # Frame("eof").type
  BY DEF Dump, Frame
<1> QED BY <1>2, <1>3 DEF Frames

\* The answer to a selection or to a layout.
LEMMA AppliedFrame ==
  ASSUME NEW c \in Clients \cup {None}
  PROVE  Applied(c) \in Frames /\ Applied(c) # Frame("eof")
<1>1. Applied(c) \in Frames
  BY DEF Applied, Frames
<1>2. Applied(c).type # Frame("eof").type
  BY DEF Applied, Frame
<1> QED BY <1>1, <1>2

\* The answers without a content.
LEMMA PlainFrame ==
  ASSUME NEW type \in {"workspace-managed", "workspace-unmanaged"}
  PROVE  Frame(type) \in Frames /\ Frame(type) # Frame("eof")
<1>1. Frame(type) \in Frames
  BY DEF Frame, Frames
<1>2. Frame(type).type # Frame("eof").type
  BY DEF Frame
<1> QED BY <1>1, <1>2

-----------------------------------------------------------------------------
(* Emacs.                                                                  *)

\* A step of Emacs that sends nothing and goes through redisplay.
LEMMA MirrorStep ==
  ASSUME SessionInv, NEW win \in [Windows -> Clients \cup {None}], NEW w \in Windows,
         Display(win, w),
         managed' \in BOOLEAN, managedClients' \subseteq Clients,
         selected' \in Clients \cup {None}, buffers' \subseteq managedClients',
         {win[v] : v \in Windows} \ {None} \subseteq buffers',
         toEmacs' \in Seq(Frames), ~Reaches' => ~Reaches,
         process' # "live" => toEmacs' = <<>>,
         process' \in {"none", "live", "dead"},
         UNCHANGED <<syncVars, toPlugin, pluginVars, unpublished>>
  PROVE  SessionInv'
<1>1. /\ window' \in [Windows -> Clients \cup {None}] /\ point' \in Windows
      /\ changed' \in BOOLEAN
      /\ Shown' = {win[v] : v \in Windows} \ {None}
      /\ ~changed' => ~changed /\ Shown' = Shown
  BY DisplayNoticed DEF SessionInv
<1>2. SessionTyped'
  BY <1>1 DEF SessionInv, SessionTyped, EmacsTypeOK, syncVars, pluginVars
<1>3. CutOff' /\ Follows(toPlugin', initialTimer') /\ LastWordAgrees'
  BY <1>1, NothingSaid DEF syncVars, pluginVars, Settled
<1> QED BY <1>2, <1>3 DEF SessionInv

\* What the windows show when buffers are killed.
LEMMA BuffersLeft ==
  ASSUME NEW rest \in SUBSET Clients, NEW win \in WithoutBuffers(rest)
  PROVE  /\ win \in [Windows -> Clients \cup {None}]
         /\ {win[v] : v \in Windows} \ {None} \subseteq rest
  BY DEF WithoutBuffers

\* What the windows show when there is no buffer.
LEMMA NoBuffers ==
  LET win == [v \in Windows |-> None]
  IN  /\ win \in [Windows -> Clients \cup {None}]
      /\ {win[v] : v \in Windows} \ {None} = {}
  OBVIOUS

\* Emacs handles a frame: the mirror, the buffers and the windows follow it, and
\* redisplay is due if the windows change.
LEMMA HandleFrameStep == ASSUME SessionInv, HandleFrame PROVE SessionInv'
<1>1. /\ SessionTyped /\ EmacsTypeOK
      /\ process # "live" => toEmacs = <<>>
      /\ window \in [Windows -> Clients \cup {None}] /\ point \in Windows
      /\ managed \in BOOLEAN /\ process \in {"none", "live", "dead"}
      /\ managedClients \subseteq Clients /\ selected \in Clients \cup {None}
      /\ buffers \subseteq managedClients /\ Shown \subseteq buffers
  BY DEF SessionInv, SessionTyped, EmacsTypeOK, CutOff
<1>2. ASSUME toEmacs # <<>>, Head(toEmacs).type # "eof",
             toEmacs' = Tail(toEmacs), UNCHANGED <<process, pluginVars>>
      PROVE  /\ toEmacs' \in Seq(Frames) /\ Head(toEmacs) \in Frames
             /\ ~Reaches' => ~Reaches
             /\ process' # "live" => toEmacs' = <<>>
  <2>1. pluginUp' = pluginUp
    BY <1>2 DEF pluginVars
  <2>2. process = "live"
    BY <1>1, <1>2
  <2> QED BY <1>1, <1>2, <2>1, <2>2, FrameHandled
<1>3. CASE WorkspaceManaged
  <2>1. /\ toEmacs # <<>> /\ Head(toEmacs).type = "workspace-managed"
        /\ toEmacs' = Tail(toEmacs) /\ managed' = TRUE
        /\ UNCHANGED <<process, managedClients, selected, buffers, displayVars,
                       syncVars, toPlugin, pluginVars, historyVars>>
    BY <1>3 DEF WorkspaceManaged, Receives
  <2>2. Display(window, point)
    BY <1>1, <2>1 DEF Display, displayVars, EmacsTypeOK
  <2>3. {window[v] : v \in Windows} \ {None} \subseteq buffers
    BY <1>1 DEF Shown
  <2>4. unpublished' = unpublished
    BY <2>1 DEF historyVars
  <2> QED BY <1>1, <1>2, <2>1, <2>2, <2>3, <2>4, MirrorStep
<1>4. CASE WorkspaceUnmanaged
  <2> DEFINE none == [v \in Windows |-> None]
  <2>1. /\ toEmacs # <<>> /\ Head(toEmacs).type = "workspace-unmanaged"
        /\ toEmacs' = Tail(toEmacs)
        /\ managed' = FALSE /\ managedClients' = {} /\ buffers' = {}
        /\ Display(none, point)
        /\ UNCHANGED <<process, selected, syncVars, toPlugin, pluginVars, historyVars>>
    BY <1>4 DEF WorkspaceUnmanaged, Receives
  <2>2. /\ none \in [Windows -> Clients \cup {None}]
        /\ {none[v] : v \in Windows} \ {None} = {}
    BY NoBuffers
  <2> HIDE DEF none
  <2>3. unpublished' = unpublished
    BY <2>1 DEF historyVars
  <2> QED BY <1>1, <1>2, <2>1, <2>2, <2>3, MirrorStep
<1>5. CASE LayoutApplied
  <2>1. /\ toEmacs # <<>> /\ Head(toEmacs).type = "layout-applied"
        /\ toEmacs' = Tail(toEmacs) /\ selected' = Head(toEmacs).selected
        /\ UNCHANGED <<process, managed, managedClients, buffers, syncVars, toPlugin,
                       pluginVars, historyVars>>
    BY <1>5 DEF LayoutApplied, Receives
  <2>2. PICK w \in ActivateSelected(Head(toEmacs).selected, window, buffers) :
               Display(window, w)
    BY <1>5, <2>1 DEF LayoutApplied
  <2>3. w \in Windows
    BY <1>1, ActivatedWindow
  <2>4. Head(toEmacs).selected \in Clients \cup {None}
    BY <1>2, <2>1 DEF Frames, Dumps
  <2>5. {window[v] : v \in Windows} \ {None} \subseteq buffers
    BY <1>1 DEF Shown
  <2>6. unpublished' = unpublished
    BY <2>1 DEF historyVars
  <2> QED BY <1>1, <1>2, <2>1, <2>2, <2>3, <2>4, <2>5, <2>6, MirrorStep
<1>6. CASE StateDump
  <2> DEFINE dump == Head(toEmacs)
  <2>1. /\ toEmacs # <<>> /\ dump.type = "state-dump"
        /\ toEmacs' = Tail(toEmacs)
        /\ managed' = dump.managed /\ managedClients' = dump.clients
        /\ selected' = dump.selected /\ buffers' = dump.clients
        /\ UNCHANGED <<process, syncVars, toPlugin, pluginVars, historyVars>>
    BY <1>6 DEF StateDump, Receives, SyncManaged
  <2>2. PICK win \in WithoutBuffers(dump.clients) :
          \E w \in ActivateSelected(dump.selected, win, dump.clients) : Display(win, w)
    BY <1>6, <2>1 DEF StateDump
  <2>3. PICK w \in ActivateSelected(dump.selected, win, dump.clients) : Display(win, w)
    BY <2>2
  <2>4. w \in Windows
    BY <1>1, ActivatedWindow
  <2>5. dump \in Dumps
    BY <1>2, <2>1 DEF Frames
  <2>6. /\ dump.managed \in BOOLEAN /\ dump.clients \in SUBSET Clients
        /\ dump.selected \in Clients \cup {None}
    BY <2>5 DEF Dumps
  <2>7. /\ win \in [Windows -> Clients \cup {None}]
        /\ {win[v] : v \in Windows} \ {None} \subseteq dump.clients
    BY <2>6, BuffersLeft
  <2>8. unpublished' = unpublished
    BY <2>1 DEF historyVars
  <2>9. /\ toEmacs' \in Seq(Frames) /\ (~Reaches' => ~Reaches)
        /\ process' # "live" => toEmacs' = <<>>
    BY <1>2, <2>1
  <2> HIDE DEF dump
  <2> QED BY <1>1, <2>1, <2>3, <2>4, <2>6, <2>7, <2>8, <2>9, MirrorStep
<1>7. CASE PeerClosed
  <2>1. /\ toEmacs # <<>> /\ Head(toEmacs).type = "eof"
        /\ toEmacs' = <<>> /\ process' = "dead"
        /\ UNCHANGED <<mirrorVars, displayVars, syncVars, toPlugin, pluginVars, historyVars>>
    BY <1>7 DEF PeerClosed, Receives
  <2>2. Head(toEmacs) \in Frames /\ Head(toEmacs) \in Range(toEmacs)
    BY <1>1, <2>1, FirstOfMany DEF SessionTyped
  <2>3. Head(toEmacs) = Frame("eof")
    BY <2>1, <2>2 DEF Frames, Dumps, Frame
  <2>4. ~Reaches
    BY <2>2, <2>3 DEF Reaches
  <2>5. Over(toPlugin', owner') /\ toPlugin' \in Seq(Requests)
    BY <2>1, <2>4 DEF SessionInv, CutOff, SessionTyped, pluginVars
  <2>6. SessionTyped'
    BY <1>1, <2>1
    DEF SessionTyped, EmacsTypeOK, mirrorVars, displayVars, syncVars, pluginVars,
        historyVars, Shown
  <2> QED BY <2>1, <2>5, <2>6, OverSuffices DEF SessionInv
<1> QED BY <1>3, <1>4, <1>5, <1>6, <1>7 DEF HandleFrame

\* Redisplay arms the timer, or leaves all clients unpublished.
LEMMA RedisplayStep == ASSUME SessionInv, Redisplay PROVE SessionInv'
<1>1. /\ changed' = FALSE /\ syncTimer' = (syncTimer \/ Eligible)
      /\ unpublished' = IF Eligible THEN unpublished ELSE Clients
      /\ UNCHANGED <<process, toEmacs, mirrorVars, window, point, syncEnabled,
                     initialTimer, toPlugin, pluginVars, countVars>>
  BY DEF Redisplay, connectionVars
<1>2. Shown' = Shown /\ Shown \subseteq Clients /\ (Reaches' <=> Reaches)
  BY <1>1, OnlyClients DEF Shown, Reaches, SessionInv, pluginVars
<1>3. SessionTyped'
  BY <1>1, <1>2 DEF SessionInv, SessionTyped, EmacsTypeOK, mirrorVars, pluginVars
<1>4. Settled' => unpublished' = Clients
  BY <1>1 DEF Settled
<1>5. CutOff' /\ Follows(toPlugin', initialTimer') /\ LastWordAgrees'
  BY <1>1, <1>2, <1>4, NothingSaid DEF SessionInv, CutOff, pluginVars
<1> QED BY <1>3, <1>5 DEF SessionInv

\* The layout that Emacs publishes shows what the windows show.
LEMMA LayoutRequest ==
  ASSUME SessionTyped
  PROVE  /\ SetLayout \in Requests /\ SetLayout.type = "set-layout"
         /\ SetLayout.visible = Shown
<1>1. Shown \subseteq Clients /\ managedClients \subseteq Clients
  BY OnlyClients DEF SessionTyped, EmacsTypeOK
<1> QED BY <1>1 DEF SetLayout, VisibleClients, Requests

\* What Emacs publishes is the last word.
LEMMA PublishStep ==
  ASSUME SessionInv, Publish,
         UNCHANGED <<connectionVars, mirrorVars, displayVars, syncEnabled, pluginVars>>,
         syncTimer' \in BOOLEAN, initialTimer' \in BOOLEAN
  PROVE  SessionInv'
<1>1. /\ unpublished' = {} /\ toPlugin \in Seq(Requests)
      /\ toPlugin' = IF Reaches THEN toPlugin \o <<SetLayout>> ELSE toPlugin
  BY DEF Publish, Send, SessionInv, SessionTyped
<1>2. /\ SetLayout \in Requests /\ Decides(SetLayout) /\ SetLayout.type = "set-layout"
      /\ SetLayout.visible = Shown
  BY LayoutRequest DEF SessionInv, Decides
<1>3. toPlugin' \in Seq(Requests)
  BY <1>1, <1>2, SentLastWord
<1>4. Shown' = Shown /\ (Reaches' <=> Reaches)
  BY DEF Shown, Reaches, displayVars, connectionVars, pluginVars
<1>5. SessionTyped'
  BY <1>1, <1>3, <1>4
  DEF SessionInv, SessionTyped, EmacsTypeOK, connectionVars, mirrorVars, displayVars, pluginVars
<1>6. CASE Reaches
  <2>1. AgreeBut(Shown', SetLayout.visible, unpublished')
    BY <1>2, <1>4 DEF AgreeBut
  <2>2. toPlugin' = toPlugin \o <<SetLayout>>
    BY <1>1, <1>6
  <2>3. /\ Follows(toPlugin', initialTimer')
        /\ Offers(toPlugin', Shown', unpublished')
        /\ ~Undecided(toPlugin', 0)
    BY <1>1, <1>2, <2>1, <2>2, SentLastWord
  <2>4. CutOff'
    BY <1>4, <1>6 DEF SessionInv, CutOff, connectionVars
  <2> QED BY <1>5, <2>3, <2>4 DEF SessionInv, LastWordAgrees
<1>7. CASE ~Reaches
  <2>1. Over(toPlugin', owner') /\ (process' # "live" => toEmacs' = <<>>)
    BY <1>1, <1>7 DEF SessionInv, CutOff, pluginVars, connectionVars
  <2> QED BY <1>3, <1>5, <2>1, OverSuffices DEF SessionInv
<1> QED BY <1>6, <1>7

\* Either timer publishes the windows, or leaves all clients unpublished.
LEMMA TimerStep == ASSUME SessionInv, RunAutoSyncLayout \/ InitialSync PROVE SessionInv'
<1>1. syncTimer \in BOOLEAN /\ initialTimer \in BOOLEAN
  BY DEF SessionInv, SessionTyped, EmacsTypeOK
<1>2. CASE InitialSync
  BY <1>1, <1>2, PublishStep DEF InitialSync
<1>3. CASE RunAutoSyncLayout /\ Eligible
  BY <1>1, <1>3, PublishStep DEF RunAutoSyncLayout
<1>4. CASE RunAutoSyncLayout /\ ~Eligible
  <2>1. /\ syncTimer' = FALSE /\ unpublished' = Clients
        /\ UNCHANGED <<process, toEmacs, mirrorVars, displayVars, syncEnabled,
                       initialTimer, toPlugin, pluginVars, countVars>>
    BY <1>4 DEF RunAutoSyncLayout, connectionVars
  <2>2. Shown' = Shown /\ Shown \subseteq Clients /\ (Reaches' <=> Reaches)
    BY <2>1, OnlyClients DEF Shown, Reaches, SessionInv, pluginVars, displayVars
  <2>3. SessionTyped'
    BY <2>1, <2>2
    DEF SessionInv, SessionTyped, EmacsTypeOK, mirrorVars, displayVars, pluginVars
  <2>4. CutOff' /\ Follows(toPlugin', initialTimer') /\ LastWordAgrees'
    BY <2>1, <2>2, NothingSaid DEF SessionInv, CutOff, pluginVars
  <2> QED BY <2>3, <2>4 DEF SessionInv
<1> QED BY <1>2, <1>3, <1>4

-----------------------------------------------------------------------------
(* Commands of the user.                                                   *)

\* Connecting and disconnecting end the connection that there was.
LEMMA CloseOwnStep ==
  ASSUME SessionInv, CloseOwn, process' \in {"none", "live"},
         UNCHANGED <<syncVars, pluginVars, unpublished>>
  PROVE  SessionInv'
<1>1. /\ SessionTyped /\ EmacsTypeOK /\ toPlugin \in Seq(Requests)
      /\ window \in [Windows -> Clients \cup {None}] /\ point \in Windows
  BY DEF SessionInv, SessionTyped, EmacsTypeOK
<1>2. /\ toEmacs' = <<>>
      /\ toPlugin' = IF Reaches THEN toPlugin \o <<Request("eof")>> ELSE toPlugin
      /\ IF process = "live" THEN TransportDrop ELSE UNCHANGED <<mirrorVars, displayVars>>
  BY DEF CloseOwn, Send
<1>3. Request("eof") \in Requests /\ Decides(Request("eof")) /\ Request("eof").type = "eof"
  BY DEF Request, Requests, Decides
<1>4. toPlugin' \in Seq(Requests) /\ Over(toPlugin', owner')
  <2>1. CASE Reaches
    BY <1>1, <1>2, <1>3, <2>1, SentLastWord DEF Over
  <2>2. CASE ~Reaches
    BY <1>1, <1>2, <2>2 DEF SessionInv, CutOff, pluginVars
  <2> QED BY <2>1, <2>2
<1>5. toEmacs' \in Seq(Frames)
  BY <1>2
<1>6. SessionTyped'
  <2>1. CASE process = "live"
    <3> DEFINE none == [v \in Windows |-> None]
    <3>1. /\ managed' = FALSE /\ managedClients' = {} /\ selected' = None
          /\ buffers' = {} /\ Display(none, point)
      BY <1>2, <2>1 DEF TransportDrop
    <3>2. /\ none \in [Windows -> Clients \cup {None}]
          /\ {none[v] : v \in Windows} \ {None} = {}
      BY NoBuffers
    <3> HIDE DEF none
    <3>3. /\ window' \in [Windows -> Clients \cup {None}] /\ point' \in Windows
          /\ changed' \in BOOLEAN /\ Shown' = {}
      BY <1>1, <3>1, <3>2, DisplayNoticed
    <3> QED BY <1>1, <1>4, <1>5, <3>1, <3>3 DEF SessionTyped, EmacsTypeOK, syncVars, pluginVars
  <2>2. CASE process # "live"
    <3>1. UNCHANGED <<mirrorVars, displayVars>>
      BY <1>2, <2>2
    <3> QED BY <1>1, <1>4, <1>5, <3>1
            DEF SessionTyped, EmacsTypeOK, mirrorVars, displayVars, syncVars, pluginVars, Shown
  <2> QED BY <2>1, <2>2
<1> QED BY <1>2, <1>4, <1>6, OverSuffices DEF SessionInv

\* A request that decides nothing.
LEMMA RequestStep ==
  ASSUME SessionInv, Reaches, NEW m \in Requests,
         m.type \notin {"manage-workspace", "set-layout", "eof"},
         Send(<<m>>),
         UNCHANGED <<connectionVars, mirrorVars, displayVars, syncVars, pluginVars,
                     unpublished>>
  PROVE  SessionInv'
<1>1. toPlugin' = toPlugin \o <<m>> /\ toPlugin \in Seq(Requests)
  BY DEF Send, SessionInv, SessionTyped
<1>2. /\ toPlugin' \in Seq(Requests)
      /\ \A due : Follows(toPlugin, due) => Follows(toPlugin', due)
      /\ \A shown, u : Offers(toPlugin, shown, u) => Offers(toPlugin', shown, u)
      /\ Undecided(toPlugin', 0) <=> Undecided(toPlugin, 0)
  BY <1>1, SentRequest
<1>3. /\ Shown' = Shown /\ Arranged' = Arranged /\ (Reaches' <=> Reaches)
      /\ (Settled' <=> Settled)
      /\ UNCHANGED <<owner, refused, unpublished, initialTimer, process, toEmacs>>
  BY DEF Shown, Arranged, Reaches, Settled, displayVars, connectionVars, pluginVars, syncVars
<1>4. SessionTyped'
  BY <1>2, <1>3
  DEF SessionInv, SessionTyped, EmacsTypeOK, connectionVars, mirrorVars, displayVars,
      syncVars, pluginVars
<1>5. CutOff'
  BY <1>3 DEF SessionInv, CutOff
<1>6. Follows(toPlugin', initialTimer')
  BY <1>2, <1>3 DEF SessionInv
<1>7. LastWordAgrees'
  BY <1>2, <1>3 DEF SessionInv, LastWordAgrees
<1> QED BY <1>4, <1>5, <1>6, <1>7 DEF SessionInv

\* After the request to manage the workspace a layout is due.
LEMMA ManageStep == ASSUME SessionInv, ManageCurrentWorkspace PROVE SessionInv'
<1> DEFINE two == <<Request("manage-workspace"), Request("request-state")>>
<1>1. /\ process # "none" \/ pluginUp
      /\ process' = IF process = "none" THEN "live" ELSE process
      /\ toPlugin' = IF Reaches \/ process = "none" THEN toPlugin \o two ELSE toPlugin
      /\ syncEnabled' = TRUE /\ initialTimer' = TRUE
      /\ unpublished' = unpublished
      /\ UNCHANGED <<mirrorVars, displayVars, syncTimer, toEmacs, pluginVars>>
  BY DEF ManageCurrentWorkspace, Command
<1>2. two \in Seq(Requests) /\ toPlugin \in Seq(Requests)
  BY DEF Request, Requests, SessionInv, SessionTyped
<1> HIDE DEF two
<1>3. toPlugin' \in Seq(Requests)
  BY <1>1, <1>2, ConcatProperties
<1>4. SessionTyped'
  BY <1>1, <1>3
  DEF SessionInv, SessionTyped, EmacsTypeOK, mirrorVars, displayVars, pluginVars, Shown
<1>5. CutOff'
  <2>1. CASE process = "none"
    <3>1. toEmacs' = <<>> /\ pluginUp' /\ process' = "live"
      BY <1>1, <2>1 DEF SessionInv, CutOff, pluginVars
    <3>2. Frame("eof") \notin Range(<<>>)
      BY DEF Range
    <3>3. Reaches'
      BY <3>1, <3>2 DEF Reaches
    <3> QED BY <3>1, <3>3 DEF CutOff
  <2>2. CASE process # "none" /\ Reaches
    <3>1. Reaches'
      BY <1>1, <2>2 DEF Reaches, pluginVars
    <3> QED BY <1>1, <2>2, <3>1 DEF CutOff, SessionInv
  <2>3. CASE process # "none" /\ ~Reaches
    <3>1. ~Reaches' /\ toPlugin' = toPlugin /\ owner' = owner
      BY <1>1, <2>3 DEF Reaches, pluginVars
    <3> QED BY <1>1, <2>3, <3>1 DEF CutOff, SessionInv
  <2> QED BY <2>1, <2>2, <2>3
<1>6. Follows(toPlugin', initialTimer') /\ LastWordAgrees'
  BY <1>1 DEF Follows, LastWordAgrees, Settled
<1> QED BY <1>4, <1>5, <1>6 DEF SessionInv

\* A command of the user.
LEMMA UserStepStep == ASSUME SessionInv, UserStep PROVE SessionInv'
<1>1. /\ SessionTyped /\ EmacsTypeOK
      /\ process # "live" => toEmacs = <<>>
      /\ toEmacs \in Seq(Frames)
      /\ window \in [Windows -> Clients \cup {None}] /\ point \in Windows
      /\ managed \in BOOLEAN /\ process \in {"none", "live", "dead"}
      /\ managedClients \subseteq Clients /\ selected \in Clients \cup {None}
      /\ buffers \subseteq managedClients /\ Shown \subseteq buffers
  BY DEF SessionInv, SessionTyped, EmacsTypeOK, CutOff
<1>2. CASE Connect \/ Disconnect
  <2>1. process' \in {"none", "live"}
    BY <1>2 DEF Connect, Disconnect
  <2>2. CloseOwn /\ UNCHANGED <<syncVars, pluginVars, unpublished>>
    BY <1>2 DEF Connect, Disconnect, Command
  <2> QED BY <2>1, <2>2, CloseOwnStep
<1>3. ASSUME NEW type \in {"unmanage-workspace", "request-state"}, SendRequest(type)
      PROVE  SessionInv'
  <2>1. Request(type) \in Requests /\ Request(type).type = type
    BY DEF Request, Requests
  <2> QED BY <1>3, <2>1, RequestStep DEF SendRequest, Command
<1>4. ASSUME NEW c \in Clients, SelectManagedClient(c) PROVE SessionInv'
  <2> DEFINE m == [type |-> "set-selected-client", selected |-> c]
  <2>1. m \in Requests /\ m.type = "set-selected-client"
    BY DEF Requests
  <2>2. /\ Reaches /\ Send(<<m>>)
        /\ UNCHANGED <<connectionVars, mirrorVars, displayVars, syncVars, pluginVars,
                       unpublished>>
    BY <1>4 DEF SelectManagedClient, Command
  <2> HIDE DEF m
  <2> QED BY <2>1, <2>2, RequestStep
<1>5. ASSUME NEW win \in [Windows -> Clients \cup {None}], NEW w \in Windows,
             Display(win, w), buffers' \subseteq managedClients,
             {win[v] : v \in Windows} \ {None} \subseteq buffers',
             UNCHANGED <<connectionVars, managed, managedClients, selected, syncVars,
                         toPlugin, pluginVars, unpublished>>
      PROVE  SessionInv'
  <2>1. (Reaches' <=> Reaches) /\ UNCHANGED <<process, toEmacs>>
    BY <1>5 DEF Reaches, connectionVars, pluginVars
  <2> QED BY <1>1, <1>5, <2>1, MirrorStep
<1>6. ASSUME NEW w \in Windows, NEW c \in Clients \cup {None}, ShowBuffer(c, w)
      PROVE  SessionInv'
  <2> DEFINE win == [window EXCEPT ![w] = c]
  <2>1. /\ c \in buffers \cup {None} /\ Display(win, point)
        /\ UNCHANGED <<connectionVars, mirrorVars, syncVars, toPlugin, pluginVars, unpublished>>
    BY <1>6 DEF ShowBuffer, Command
  <2>2. win \in [Windows -> Clients \cup {None}]
    BY <1>1
  <2>3. {win[v] : v \in Windows} \ {None} \subseteq buffers
    BY <1>1, <2>1 DEF Shown
  <2> HIDE DEF win
  <2> QED BY <1>1, <1>5, <2>1, <2>2, <2>3 DEF mirrorVars
<1>7. ASSUME NEW w \in Windows, SelectWindow(w) PROVE SessionInv'
  <2>1. /\ Display(window, w)
        /\ UNCHANGED <<connectionVars, mirrorVars, syncVars, toPlugin, pluginVars, unpublished>>
    BY <1>7 DEF SelectWindow, Command
  <2>2. {window[v] : v \in Windows} \ {None} \subseteq buffers
    BY <1>1 DEF Shown
  <2> QED BY <1>1, <1>5, <2>1, <2>2 DEF mirrorVars
<1>8. ASSUME NEW c \in Clients, KillBuffer(c) PROVE SessionInv'
  <2>1. /\ buffers' = buffers \ {c}
        /\ UNCHANGED <<connectionVars, managed, managedClients, selected, syncVars,
                       toPlugin, pluginVars, unpublished>>
    BY <1>8 DEF KillBuffer, Command
  <2>2. PICK win \in WithoutBuffers(buffers \ {c}) : Display(win, point)
    BY <1>8, <2>1 DEF KillBuffer
  <2>3. /\ win \in [Windows -> Clients \cup {None}]
        /\ {win[v] : v \in Windows} \ {None} \subseteq buffers \ {c}
    BY <1>1, BuffersLeft
  <2>4. buffers' \subseteq managedClients
    BY <1>1, <2>1
  <2> QED BY <1>1, <1>5, <2>1, <2>2, <2>3, <2>4
<1>9. CASE DisableLayoutSync
  <2>1. /\ syncEnabled' = FALSE /\ syncTimer' = FALSE
        /\ UNCHANGED <<process, toEmacs, mirrorVars, displayVars, initialTimer, toPlugin,
                       pluginVars, unpublished>>
    BY <1>9 DEF DisableLayoutSync, Command, connectionVars
  <2>2. SessionTyped'
    BY <1>1, <2>1
    DEF SessionInv, SessionTyped, EmacsTypeOK, mirrorVars, displayVars, pluginVars, Shown
  <2>3. ~Settled' /\ (Reaches' <=> Reaches)
    BY <2>1 DEF Settled, Reaches, pluginVars
  <2>4. CutOff' /\ Follows(toPlugin', initialTimer') /\ LastWordAgrees'
    BY <1>1, <2>1, <2>3, NothingSaid DEF pluginVars
  <2> QED BY <2>2, <2>4 DEF SessionInv
<1> QED BY <1>2, <1>3, <1>4, <1>6, <1>7, <1>8, <1>9, ManageStep DEF UserStep

-----------------------------------------------------------------------------
(* The plugin.                                                             *)

\* The layout and the owner after one more request has been served: what the
\* request says is the last word if no other one follows.
LEMMA ServedStep ==
  ASSUME SessionInv, toPlugin # <<>>, toPlugin' = Tail(toPlugin),
         toEmacs' \in Seq(Frames), Reaches' <=> Reaches,
         process # "live" => toEmacs' = toEmacs,
         owner' \in BOOLEAN, refused' \in BOOLEAN,
         layout' = None \/ layout' \subseteq tiled, focus' \in Clients \cup {None},
         notify' \in BOOLEAN, built' \in Dumps \cup {None},
         Head(toPlugin).type = "eof" => ~owner',
         LET h == Head(toPlugin)
         IN  \/ ~owner'
             \/ UNCHANGED <<owner, layout, refused>> /\ ~Decides(h)
             \/ h.type = "manage-workspace"
             \/ h.type = "set-layout" /\ (refused' \/ layout' = h.visible),
         UNCHANGED <<process, mirrorVars, displayVars, syncVars, historyVars, pluginUp,
                     tiled>>
  PROVE  SessionInv'
<1>1. toPlugin \in Seq(Requests) /\ SessionTyped
  BY DEF SessionInv, SessionTyped
<1>2. /\ toPlugin' \in Seq(Requests) /\ Head(toPlugin) \in Requests
  BY <1>1, FirstOfMany
<1>3. /\ Shown' = Shown /\ (Settled' <=> Settled) /\ initialTimer' = initialTimer
      /\ unpublished' = unpublished
  BY DEF Shown, Settled, displayVars, syncVars, historyVars
<1>4. SessionTyped'
  BY <1>1, <1>2, <1>3
  DEF SessionTyped, EmacsTypeOK, mirrorVars, displayVars, syncVars, historyVars
<1>5. CutOff'
  <2>1. process' # "live" => toEmacs' = <<>>
    BY DEF SessionInv, CutOff
  <2>2. ASSUME ~Reaches' PROVE Over(toPlugin', owner')
    <3>1. Ended(toPlugin)
      BY <2>2 DEF SessionInv, CutOff, Over
    <3> QED BY <1>1, <3>1, ServedFirst DEF Over
  <2> QED BY <2>1, <2>2 DEF CutOff
<1>6. Follows(toPlugin', initialTimer')
  BY <1>1, <1>3, ServedFirst DEF SessionInv
<1>7. ASSUME Settled
      PROVE  /\ Offers(toPlugin', Shown, unpublished)
             /\ Undecided(toPlugin', 0) /\ owner' /\ ~refused'
                  => AgreeBut(Shown, Arranged', unpublished)
  <2>1. Offers(toPlugin, Shown, unpublished)
    BY <1>7 DEF SessionInv, LastWordAgrees
  <2>2. Offers(toPlugin', Shown, unpublished)
    BY <1>1, <2>1, ServedFirst
  <2>3. ASSUME Undecided(toPlugin', 0), owner', ~refused'
        PROVE  AgreeBut(Shown, Arranged', unpublished)
    <3>1. CASE UNCHANGED <<owner, layout, refused>> /\ ~Decides(Head(toPlugin))
      <4>1. Undecided(toPlugin, 0)
        BY <1>1, <2>3, <3>1, ServedFirst
      <4>2. AgreeBut(Shown, Arranged, unpublished)
        BY <1>7, <2>3, <3>1, <4>1 DEF SessionInv, LastWordAgrees
      <4> QED BY <3>1, <4>2 DEF Arranged
    <3>2. CASE Head(toPlugin).type = "manage-workspace"
      <4>1. initialTimer
        BY <1>1, <2>3, <3>2, ServedFirst DEF SessionInv
      <4> QED BY <1>7, <4>1 DEF Settled
    <3>3. CASE Head(toPlugin).type = "set-layout" /\ layout' = Head(toPlugin).visible
      <4>1. AgreeBut(Shown, Head(toPlugin).visible, unpublished)
        BY <1>1, <2>1, <2>3, <3>3, ServedFirst
      <4>2. Arranged' \in {{}, Head(toPlugin).visible}
        BY <3>3 DEF Arranged
      <4>3. Head(toPlugin).visible \in SUBSET Clients
        BY <1>2, <3>3 DEF Requests
      <4>4. Head(toPlugin).visible # None
        BY <4>3, EmacsAssumption
      <4>5. Arranged' = Head(toPlugin).visible
        BY <3>3, <4>4 DEF Arranged
      <4> QED BY <4>1, <4>5
    <3> QED BY <2>3, <3>1, <3>2, <3>3
  <2> QED BY <2>2, <2>3
<1>8. LastWordAgrees'
  BY <1>3, <1>7 DEF LastWordAgrees
<1> QED BY <1>4, <1>5, <1>6, <1>8 DEF SessionInv

\* The plugin serves a request.
LEMMA ServeStep == ASSUME SessionInv, Serve PROVE SessionInv'
<1>1. /\ toPlugin \in Seq(Requests) /\ SessionTyped /\ EmacsTypeOK
      /\ owner \in BOOLEAN /\ refused \in BOOLEAN /\ notify \in BOOLEAN
      /\ layout = None \/ layout \subseteq tiled
      /\ tiled \in SUBSET Clients /\ focus \in Clients \cup {None}
      /\ built \in Dumps \cup {None}
  BY DEF SessionInv, SessionTyped, EmacsTypeOK
<1>2. UNCHANGED <<process, mirrorVars, displayVars, syncVars, historyVars>>
  BY DEF Serve
<1>3. ASSUME toPlugin # <<>> PROVE Head(toPlugin) \in Requests
  BY <1>1, <1>3, FirstOfMany
<1>4. ASSUME NEW rest, NEW f \in Frames, NEW g \in Frames,
             f # Frame("eof"), g # Frame("eof"), pluginUp' = pluginUp,
             Answer(rest, <<f>>) \/ Answer(rest, <<f, g>>)
      PROVE  /\ toEmacs' \in Seq(Frames) /\ (Reaches' <=> Reaches)
             /\ process # "live" => toEmacs' = toEmacs
  <2>1. /\ <<f>> \in Seq(Frames) /\ Frame("eof") \notin Range(<<f>>)
        /\ <<f, g>> \in Seq(Frames) /\ Frame("eof") \notin Range(<<f, g>>)
    BY <1>4, AnswerFrames
  <2> QED BY <1>1, <1>2, <1>4, <2>1, FramesSent
<1>5. CASE ServeManage
  <2>1. /\ toPlugin # <<>> /\ Head(toPlugin).type = "manage-workspace"
        /\ toPlugin' = Tail(toPlugin) /\ owner' = TRUE
        /\ UNCHANGED <<pluginUp, tiled, focus, layout, refused, notify, built>>
        /\ Answer(toPlugin', <<Frame("workspace-managed"), Dump(TRUE, tiled, focus)>>)
    BY <1>5 DEF ServeManage, Serves
  <2>2. /\ toEmacs' \in Seq(Frames) /\ (Reaches' <=> Reaches)
        /\ process # "live" => toEmacs' = toEmacs
    BY <1>1, <1>4, <2>1, PlainFrame, DumpFrame
  <2> QED BY <1>1, <1>2, <2>1, <2>2, ServedStep
<1>6. CASE ServeUnmanage
  <2>1. /\ toPlugin # <<>> /\ Head(toPlugin).type = "unmanage-workspace"
        /\ toPlugin' = Tail(toPlugin) /\ owner' = FALSE /\ layout' = None
        /\ UNCHANGED <<pluginUp, tiled, focus, refused, notify, built>>
        /\ Answer(toPlugin', <<Frame("workspace-unmanaged"), Dump(FALSE, tiled, focus)>>)
    BY <1>6 DEF ServeUnmanage, Serves
  <2>2. /\ toEmacs' \in Seq(Frames) /\ (Reaches' <=> Reaches)
        /\ process # "live" => toEmacs' = toEmacs
    BY <1>1, <1>4, <2>1, PlainFrame, DumpFrame
  <2> QED BY <1>1, <1>2, <2>1, <2>2, ServedStep
<1>7. CASE ServeState
  <2>1. /\ toPlugin # <<>> /\ Head(toPlugin).type = "request-state"
        /\ toPlugin' = Tail(toPlugin)
        /\ UNCHANGED pluginVars
        /\ Answer(toPlugin', <<Dump(owner, tiled, focus)>>)
    BY <1>7 DEF ServeState, Serves
  <2>2. UNCHANGED <<pluginUp, owner, tiled, focus, layout, refused, notify, built>>
    BY <2>1 DEF pluginVars
  <2>3. /\ toEmacs' \in Seq(Frames) /\ (Reaches' <=> Reaches)
        /\ process # "live" => toEmacs' = toEmacs
    BY <1>1, <1>4, <2>1, <2>2, DumpFrame
  <2>4. ~Decides(Head(toPlugin))
    BY <2>1 DEF Decides
  <2> QED BY <1>1, <1>2, <2>1, <2>2, <2>3, <2>4, ServedStep
<1>8. CASE ServeSelected
  <2> DEFINE c == Head(toPlugin).selected
             foc == IF owner /\ c \in tiled THEN c ELSE focus
  <2>1. /\ toPlugin # <<>> /\ Head(toPlugin).type = "set-selected-client"
        /\ toPlugin' = Tail(toPlugin) /\ focus' = foc
        /\ UNCHANGED <<pluginUp, owner, tiled, layout, refused, notify, built>>
        /\ Answer(toPlugin', <<Applied(c), Dump(owner, tiled, foc)>>)
    BY <1>8 DEF ServeSelected, Serves
  <2>2. c \in Clients
    BY <1>3, <2>1 DEF Requests
  <2>3. foc \in Clients \cup {None}
    BY <1>1, <2>2
  <2> HIDE DEF c, foc
  <2>4. /\ toEmacs' \in Seq(Frames) /\ (Reaches' <=> Reaches)
        /\ process # "live" => toEmacs' = toEmacs
    BY <1>1, <1>4, <2>1, <2>2, <2>3, AppliedFrame, DumpFrame
  <2>5. ~Decides(Head(toPlugin))
    BY <2>1 DEF Decides
  <2> QED BY <1>1, <1>2, <2>1, <2>3, <2>4, <2>5, ServedStep
<1>9. CASE ServeLayout
  <2> DEFINE m == Head(toPlugin)
             ok == owner /\ m.visible \cup m.hidden \subseteq tiled
             foc == IF ok /\ m.selected \in tiled THEN m.selected ELSE focus
             dump == Dump(owner, tiled, foc)
  <2>1. /\ toPlugin # <<>> /\ m.type = "set-layout"
        /\ toPlugin' = Tail(toPlugin)
        /\ layout' = IF ok THEN m.visible ELSE layout
        /\ focus' = foc /\ refused' = ~ok
        /\ UNCHANGED <<pluginUp, owner, tiled, notify, built>>
        /\ Answer(toPlugin', <<Applied(dump.selected), dump>>)
    BY <1>9 DEF ServeLayout, Serves
  <2>2. m \in Requests /\ m.visible \subseteq Clients
    BY <1>3, <2>1 DEF Requests
  <2>3. foc \in Clients \cup {None}
    BY <1>1
  <2>4. layout' = None \/ layout' \subseteq tiled
    BY <1>1, <2>1
  <2>5. refused' \/ layout' = m.visible
    BY <2>1
  <2> HIDE DEF ok, foc
  <2>6. /\ dump \in Frames /\ dump # Frame("eof")
        /\ dump.selected \in Clients \cup {None}
    <3>1. dump \in Dumps /\ dump \in Frames /\ dump # Frame("eof")
      BY <1>1, <2>3, DumpFrame
    <3> HIDE DEF dump
    <3> QED BY <3>1 DEF Dumps
  <2> HIDE DEF dump
  <2>7. /\ toEmacs' \in Seq(Frames) /\ (Reaches' <=> Reaches)
        /\ process # "live" => toEmacs' = toEmacs
    BY <1>1, <1>4, <2>1, <2>6, AppliedFrame
  <2>8. refused' \in BOOLEAN
    BY <2>1
  <2> QED BY <1>1, <1>2, <2>1, <2>3, <2>4, <2>5, <2>7, <2>8, ServedStep
<1>10. CASE ServeEof
  <2>1. /\ toPlugin # <<>> /\ toPlugin' = Tail(toPlugin)
        /\ owner' = FALSE /\ layout' = None /\ notify' = FALSE /\ built' = None
        /\ UNCHANGED <<toEmacs, pluginUp, tiled, focus, refused>>
    BY <1>10 DEF ServeEof, Serves
  <2>2. toEmacs' \in Seq(Frames) /\ (Reaches' <=> Reaches)
    BY <1>1, <1>2, <2>1 DEF SessionTyped, Reaches
  <2> QED BY <1>1, <1>2, <2>1, <2>2, ServedStep
<1> QED BY <1>5, <1>6, <1>7, <1>8, <1>9, <1>10 DEF Serve

\* The plugin's part and the socket have their types, and Emacs does nothing.
LEMMA StillTyped ==
  ASSUME SessionTyped, UNCHANGED <<process, mirrorVars, displayVars, syncVars>>,
         toPlugin' \in Seq(Requests), toEmacs' \in Seq(Frames),
         pluginUp' \in BOOLEAN, owner' \in BOOLEAN, refused' \in BOOLEAN,
         notify' \in BOOLEAN, built' \in Dumps \cup {None},
         tiled' \subseteq Clients, focus' \in Clients \cup {None},
         layout' = None \/ layout' \subseteq tiled', unpublished' \subseteq Clients
  PROVE  SessionTyped'
<1>1. UNCHANGED <<process, managed, managedClients, selected, buffers, window, point,
                  changed, syncEnabled, syncTimer, initialTimer>>
  BY DEF mirrorVars, displayVars, syncVars
<1>2. Shown' = Shown
  BY <1>1 DEF Shown
<1>3. EmacsTypeOK'
  BY <1>1, <1>2 DEF SessionTyped, EmacsTypeOK
<1>4. window' \in [Windows -> Clients \cup {None}]
  BY <1>1 DEF SessionTyped
<1> QED BY <1>3, <1>4 DEF SessionTyped

\* A notice carries no last word.
LEMMA NoticeStep == ASSUME SessionInv, BuildNotice \/ SendNotice PROVE SessionInv'
<1>1. /\ SessionTyped /\ EmacsTypeOK /\ (process # "live" => toEmacs = <<>>)
      /\ owner \in BOOLEAN /\ tiled \in SUBSET Clients /\ focus \in Clients \cup {None}
      /\ built \in Dumps \cup {None} /\ notify \in BOOLEAN /\ toEmacs \in Seq(Frames)
  BY DEF SessionInv, SessionTyped, EmacsTypeOK, CutOff
<1>2. /\ UNCHANGED <<process, mirrorVars, displayVars, syncVars, toPlugin, pluginUp, owner,
                     tiled, focus, layout, refused, unpublished>>
      /\ built' \in Dumps \cup {None} /\ notify' \in BOOLEAN
      /\ toEmacs' \in Seq(Frames) /\ (Reaches' <=> Reaches)
      /\ process # "live" => toEmacs' = toEmacs
  <2>1. CASE BuildNotice
    <3>1. /\ notify' = FALSE /\ built' = Dump(owner, tiled, focus)
          /\ UNCHANGED <<process, mirrorVars, displayVars, syncVars, toPlugin, toEmacs,
                         pluginUp, owner, tiled, focus, layout, refused, unpublished>>
      BY <2>1 DEF BuildNotice, historyVars
    <3>2. UNCHANGED <<process, pluginUp, toEmacs>>
      BY <3>1
    <3>3. built' \in Dumps /\ notify' \in BOOLEAN
      BY <1>1, <3>1, DumpFrame
    <3>4. toEmacs' \in Seq(Frames) /\ (Reaches' <=> Reaches)
      BY <1>1, <3>2 DEF Reaches
    <3> QED BY <3>1, <3>2, <3>3, <3>4
  <2>2. CASE SendNotice
    <3>1. /\ built # None /\ built' = None /\ Answer(toPlugin, <<built>>)
          /\ UNCHANGED <<process, mirrorVars, displayVars, syncVars, toPlugin, pluginUp,
                         owner, tiled, focus, layout, refused, notify, unpublished>>
      BY <2>2 DEF SendNotice, historyVars
    <3>2. built \in Frames /\ built.type = "state-dump"
      BY <1>1, <3>1 DEF Frames, Dumps
    <3>3. built # Frame("eof")
      BY <3>2 DEF Frame
    <3>4. <<built>> \in Seq(Frames) /\ Frame("eof") \notin Range(<<built>>)
      BY <3>2, <3>3, AnswerFrames
    <3>5. /\ UNCHANGED <<process, pluginUp>> /\ Answer(toPlugin, <<built>>)
          /\ notify' \in BOOLEAN /\ built' \in Dumps \cup {None}
      BY <1>1, <3>1
    <3>6. /\ toEmacs' \in Seq(Frames) /\ (Reaches' <=> Reaches)
          /\ process # "live" => toEmacs' = toEmacs
      BY <1>1, <3>4, <3>5, FramesSent
    <3> QED BY <3>1, <3>5, <3>6
  <2> QED BY <2>1, <2>2
<1>3. Shown' = Shown /\ (Settled' <=> Settled) /\ initialTimer' = initialTimer
  BY <1>2 DEF Shown, Settled, displayVars, syncVars
<1>4. SessionTyped'
  <2>1. /\ UNCHANGED <<process, mirrorVars, displayVars, syncVars>>
        /\ UNCHANGED <<toPlugin, pluginUp, owner, refused, tiled, focus, layout, unpublished>>
    BY <1>2
  <2>2. /\ toPlugin \in Seq(Requests) /\ pluginUp \in BOOLEAN /\ refused \in BOOLEAN
        /\ tiled \subseteq Clients /\ unpublished \subseteq Clients
        /\ layout = None \/ layout \subseteq tiled
    BY <1>1 DEF SessionTyped, EmacsTypeOK
  <2>3. toEmacs' \in Seq(Frames) /\ built' \in Dumps \cup {None} /\ notify' \in BOOLEAN
    BY <1>2
  <2> QED BY <1>1, <2>1, <2>2, <2>3, StillTyped
<1>5. CutOff' /\ Follows(toPlugin', initialTimer') /\ LastWordAgrees'
  <2>1. /\ UNCHANGED <<toPlugin, owner, layout, refused>> /\ unpublished' = unpublished
        /\ process' = process /\ (process # "live" => toEmacs' = toEmacs)
    BY <1>2
  <2>2. ~Reaches' => ~Reaches
    BY <1>2
  <2> QED BY <1>1, <1>3, <2>1, <2>2, NothingSaid
<1> QED BY <1>4, <1>5 DEF SessionInv

-----------------------------------------------------------------------------
(* The clients, and the plugin as a whole.                                 *)

\* A client that leaves the layout leaves it unpublished.
LEMMA LeaveStep == ASSUME SessionInv, NEW c \in Clients, Leave(c) PROVE SessionInv'
<1>1. /\ tiled' = tiled \ {c}
      /\ layout' = IF layout = None THEN None ELSE layout \ {c}
      /\ unpublished' = IF c \in Arranged THEN unpublished \cup {c} ELSE unpublished
      /\ focus' \in {focus, IF focus = c THEN None ELSE focus}
      /\ notify' = (notify \/ owner)
      /\ UNCHANGED <<process, mirrorVars, displayVars, syncVars, toPlugin, toEmacs,
                     pluginUp, owner, refused, built>>
  BY DEF Leave
<1>2. /\ SessionTyped /\ EmacsTypeOK /\ Arranged \subseteq Clients
      /\ layout = None \/ layout \subseteq tiled
  BY OnlyClients DEF SessionInv, SessionTyped, EmacsTypeOK
<1>3. /\ Shown' = Shown /\ (Settled' <=> Settled) /\ (Reaches' <=> Reaches)
      /\ initialTimer' = initialTimer
  BY <1>1 DEF Shown, Settled, displayVars, syncVars, Reaches
<1>4. Arranged' = Arranged \ {c}
  <2>1. CASE layout = None
    BY <1>1, <2>1 DEF Arranged
  <2>2. CASE layout # None
    <3>1. layout \ {c} \in SUBSET Clients
      BY <1>2, <2>2 DEF Arranged
    <3>2. layout \ {c} # None
      BY <3>1, EmacsAssumption
    <3> QED BY <1>1, <2>2, <3>2 DEF Arranged
  <2> QED BY <2>1, <2>2
<1>5. layout' = None \/ layout' \subseteq tiled'
  BY <1>1, <1>2
<1>6. SessionTyped'
  BY <1>1, <1>2, <1>3, <1>5 DEF SessionTyped, EmacsTypeOK, mirrorVars, displayVars, syncVars
<1>7. CutOff' /\ Follows(toPlugin', initialTimer')
  BY <1>1, <1>3 DEF SessionInv, CutOff
<1>8. \A shown, visible : AgreeBut(shown, visible, unpublished)
                            => AgreeBut(shown, visible, unpublished')
  BY <1>1 DEF AgreeBut
<1>9. AgreeBut(Shown, Arranged, unpublished) => AgreeBut(Shown, Arranged', unpublished')
  BY <1>1, <1>4 DEF AgreeBut
<1>10. LastWordAgrees'
  BY <1>1, <1>3, <1>8, <1>9 DEF SessionInv, LastWordAgrees, Offers
<1> QED BY <1>6, <1>7, <1>10 DEF SessionInv

\* A client that comes or gets the focus, and a plugin that is loaded again.
LEMMA ArrivalStep ==
  ASSUME SessionInv, PluginInit \/ \E c \in Clients : Enter(c) \/ Focus(c)
  PROVE  SessionInv'
<1>1. /\ SessionTyped /\ EmacsTypeOK /\ (process # "live" => toEmacs = <<>>)
      /\ toEmacs \in Seq(Frames)
      /\ owner \in BOOLEAN /\ notify \in BOOLEAN /\ pluginUp \in BOOLEAN
      /\ tiled \in SUBSET Clients /\ focus \in Clients \cup {None}
      /\ layout = None \/ layout \subseteq tiled
  BY DEF SessionInv, SessionTyped, EmacsTypeOK, CutOff
<1>2. /\ UNCHANGED <<process, mirrorVars, displayVars, syncVars, toPlugin, toEmacs, owner,
                     layout, refused, built, unpublished>>
      /\ pluginUp => pluginUp'
      /\ pluginUp' \in BOOLEAN /\ notify' \in BOOLEAN
      /\ tiled \subseteq tiled' /\ tiled' \subseteq Clients /\ focus' \in Clients \cup {None}
  <2>1. CASE PluginInit
    BY <1>1, <2>1 DEF PluginInit, historyVars
  <2>2. ASSUME NEW c \in Clients, Enter(c) \/ Focus(c)
        PROVE  /\ UNCHANGED <<process, mirrorVars, displayVars, syncVars, toPlugin, toEmacs,
                              owner, layout, refused, built, unpublished>>
               /\ pluginUp' = pluginUp /\ notify' = (notify \/ owner)
               /\ tiled' \in {tiled, tiled \cup {c}} /\ focus' \in {focus, c}
    BY <2>2 DEF Enter, Focus
  <2> QED BY <1>1, <2>1, <2>2
<1>3. /\ Shown' = Shown /\ (Settled' <=> Settled) /\ (~Reaches' => ~Reaches)
      /\ initialTimer' = initialTimer
  BY <1>2 DEF Shown, Settled, displayVars, syncVars, Reaches
<1>4. SessionTyped'
  BY <1>1, <1>2, <1>3 DEF SessionTyped, EmacsTypeOK, mirrorVars, displayVars, syncVars
<1>5. CutOff' /\ Follows(toPlugin', initialTimer') /\ LastWordAgrees'
  BY <1>1, <1>2, <1>3, NothingSaid
<1> QED BY <1>4, <1>5 DEF SessionInv

\* The plugin's exit ends the connection from the other side.
LEMMA ExitStep == ASSUME SessionInv, PluginExit PROVE SessionInv'
<1>1. /\ pluginUp' = FALSE /\ owner' = FALSE /\ layout' = None /\ notify' = FALSE
      /\ built' = None /\ toPlugin' = <<>>
      /\ toEmacs' = IF Reaches THEN Append(toEmacs, Frame("eof")) ELSE toEmacs
      /\ UNCHANGED <<process, mirrorVars, displayVars, syncVars, tiled, focus, refused,
                     unpublished>>
  BY DEF PluginExit
<1>2. SessionTyped /\ toEmacs \in Seq(Frames) /\ (process # "live" => toEmacs = <<>>)
  BY DEF SessionInv, SessionTyped, CutOff
<1>3. Frame("eof") \in Frames
  BY DEF Frame, Frames
<1>4. toEmacs' \in Seq(Frames) /\ (process' # "live" => toEmacs' = <<>>)
  BY <1>1, <1>2, <1>3 DEF Reaches
<1>5. SessionTyped'
  <2>1. /\ UNCHANGED <<process, mirrorVars, displayVars, syncVars>>
        /\ UNCHANGED <<tiled, focus, refused, unpublished>>
    BY <1>1
  <2>2. /\ tiled \subseteq Clients /\ focus \in Clients \cup {None} /\ refused \in BOOLEAN
        /\ unpublished \subseteq Clients
    BY <1>2 DEF SessionTyped, EmacsTypeOK
  <2>3. toPlugin' \in Seq(Requests)
    BY <1>1
  <2> QED BY <1>1, <1>2, <1>4, <2>1, <2>2, <2>3, StillTyped
<1>6. toPlugin' \in Seq(Requests) /\ Over(toPlugin', owner')
  BY <1>1 DEF Over
<1> QED BY <1>4, <1>5, <1>6, OverSuffices DEF SessionInv

-----------------------------------------------------------------------------
(* The theorems.                                                           *)

\* At first nothing is managed and nothing is under way.
LEMMA SessionInvInit == EmacsInit => SessionInv
<1> SUFFICES ASSUME EmacsInit PROVE SessionInv
  OBVIOUS
<1>1. Shown = {}
  BY DEF EmacsInit, Shown
<1>2. SessionTyped
  <2>1. EmacsTypeOK
    BY <1>1 DEF EmacsInit, EmacsTypeOK
  <2>2. toPlugin \in Seq(Requests) /\ toEmacs \in Seq(Frames)
    BY DEF EmacsInit
  <2>3. window \in [Windows -> Clients \cup {None}] /\ built \in Dumps \cup {None}
    BY DEF EmacsInit
  <2> QED BY <2>1, <2>2, <2>3 DEF SessionTyped
<1>3. Len(toPlugin) = 0 /\ toPlugin = <<>> /\ ~owner /\ toEmacs = <<>> /\ ~syncEnabled
  BY DEF EmacsInit
<1> QED BY <1>2, <1>3 DEF SessionInv, CutOff, Over, Follows, LastWordAgrees, Settled

\* Every step keeps the invariant.
LEMMA SessionInvNext == SessionInv /\ [EmacsNext]_emacsVars => SessionInv'
<1> SUFFICES ASSUME SessionInv, [EmacsNext]_emacsVars PROVE SessionInv'
  OBVIOUS
<1>1. CASE Works
  BY <1>1, HandleFrameStep, RedisplayStep, TimerStep, ServeStep, NoticeStep DEF Works
<1>2. CASE UNCHANGED emacsVars
  <2>1. /\ UNCHANGED <<process, toEmacs, toPlugin>>
        /\ UNCHANGED <<mirrorVars, displayVars, syncVars, pluginVars, historyVars>>
    BY <1>2 DEF emacsVars
  <2> QED
    BY <2>1
    DEF SessionInv, SessionTyped, EmacsTypeOK, CutOff, LastWordAgrees, Settled, Reaches, Shown,
        Arranged, mirrorVars, displayVars, syncVars, pluginVars, historyVars
<1> QED BY <1>1, <1>2, UserStepStep, LeaveStep, ArrivalStep, ExitStep DEF EmacsNext

\* SessionInv is an invariant of the session.
LEMMA SessionInvAlways == EmacsSpec => []SessionInv
  BY SessionInvInit, SessionInvNext, PTL DEF EmacsSpec

\* A buffer is of a client that Emacs mirrors and a window shows a live buffer,
\* whatever frames, commands and ends of connections come in which order.
THEOREM EmacsTypeCorrect == EmacsSpec => []EmacsTypeOK
<1>1. SessionInv => EmacsTypeOK
  BY DEF SessionInv, SessionTyped
<1> QED BY <1>1, SessionInvAlways, PTL

\* When nothing is under way the committed layout shows what the windows of
\* Emacs show, but for the clients that Emacs had no occasion to publish again:
\* for any number of commands, changes and connections.
THEOREM LayoutFollowsWindows == EmacsSpec => []PluginFollowsWindows
<1>1. ASSUME SessionInv PROVE PluginFollowsWindows
  <2> SUFFICES ASSUME Quiet, Operative, ~refused
               PROVE  Shown \ unpublished = Arranged \ unpublished
    BY DEF PluginFollowsWindows
  <2>1. Settled /\ owner /\ toPlugin = <<>>
    BY DEF Quiet, Operative, Settled
  <2>2. Undecided(toPlugin, 0)
    BY <2>1 DEF Undecided
  <2> QED BY <1>1, <2>1, <2>2 DEF SessionInv, LastWordAgrees, AgreeBut
<1> QED BY <1>1, SessionInvAlways, PTL
=============================================================================
