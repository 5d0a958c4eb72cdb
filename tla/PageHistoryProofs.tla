--------------------------- MODULE PageHistoryProofs ---------------------------
(***************************************************************************)
(* The array, the counter and isGoingBack implement the trail of pages,    *)
(* for a pagePath of any size and any number of refreshes.                 *)
(***************************************************************************)
EXTENDS NavigationProofs, WellFoundedInduction

\* A nonempty set of numbers up to n has a greatest element.
LEMMA Greatest ==
    ASSUME NEW n \in Nat, NEW T, \A k \in T : k \in Nat /\ k <= n, T # {}
    PROVE  \E k \in T : \A j \in T : j <= k
<1> DEFINE R == OpToRel(<, Nat)
<1>1. IsWellFoundedOn(R, Nat)
  BY NatLessThanWellFounded
<1>2. \A a, b \in Nat : a < b => <<a, b>> \in R
  BY DEF OpToRel
<1> HIDE DEF R
<1> DEFINE U == {n - k : k \in T}
<1>3. \A k \in T : n - k \in U /\ n - k \in Nat
  OBVIOUS
<1>4. U \subseteq Nat /\ U # {}
  BY <1>3
<1>5. \E x \in U : \A y \in U : ~ (<<y, x>> \in R)
  <2> HIDE DEF U
  <2> QED
    BY <1>1, <1>4, WFMin
<1>6. PICK k \in T : \A y \in U : ~ (<<y, n - k>> \in R)
  BY <1>5
<1>7. ASSUME NEW j \in T PROVE j <= k
  <2>1. ~(n - j < n - k)
    BY <1>2, <1>3, <1>6
  <2> QED
    BY <2>1
<1> QED
  BY <1>7

-----------------------------------------------------------------------------
(* The pages since the last home.                                          *)

IsLastHome(s, k) ==
    /\ k \in DOMAIN s /\ s[k] = drawHomeID
    /\ \A j \in DOMAIN s : s[j] = drawHomeID => j <= k

LastHomeOf(s) == CHOOSE k \in DOMAIN s :
                    /\ s[k] = drawHomeID
                    /\ \A j \in DOMAIN s : s[j] = drawHomeID => j <= k

Since(s) == SubSeq(s, LastHomeOf(s), Len(s))

\* The last home is the only one of its kind.
LEMMA LastHomeIs ==
    ASSUME NEW s \in Seq(PageIds), NEW k, IsLastHome(s, k)
    PROVE  LastHomeOf(s) = k /\ k \in 1..Len(s) /\ Since(s) = SubSeq(s, k, Len(s))
<1>1. DOMAIN s = 1..Len(s) /\ Len(s) \in Nat
  OBVIOUS
<1>2. IsLastHome(s, LastHomeOf(s))
  BY DEF IsLastHome, LastHomeOf
<1>3. LastHomeOf(s) <= k /\ k <= LastHomeOf(s)
  BY <1>2 DEF IsLastHome
<1>4. LastHomeOf(s) \in Nat /\ k \in 1..Len(s)
  BY <1>1, <1>2 DEF IsLastHome
<1> QED
  BY <1>3, <1>4 DEF Since

\* A history with a home page has a last one.
LEMMA LastHomeExists ==
    ASSUME NEW s \in Seq(PageIds), NEW h \in 1..Len(s), s[h] = drawHomeID
    PROVE  \E k : IsLastHome(s, k)
<1> DEFINE T == {k \in 1..Len(s) : s[k] = drawHomeID}
<1>1. Len(s) \in Nat /\ DOMAIN s = 1..Len(s)
  OBVIOUS
<1>2. T # {} /\ \A k \in T : k \in Nat /\ k <= Len(s)
  BY <1>1
<1>3. \A k \in 1..Len(s) : k \in T <=> s[k] = drawHomeID
  OBVIOUS
<1>4. T \subseteq 1..Len(s)
  OBVIOUS
<1> HIDE DEF T
<1>5. PICK k \in T : \A j \in T : j <= k
  BY <1>1, <1>2, Greatest
<1> QED
  BY <1>1, <1>3, <1>4, <1>5 DEF IsLastHome

\* Where home is on top, the trail begins anew.
LEMMA SinceHome ==
    ASSUME NEW s \in Seq(PageIds), s # <<>>, s[Len(s)] = drawHomeID
    PROVE  Since(s) = <<drawHomeID>>
<1>1. Len(s) \in 1..Len(s) /\ Len(s) \in Nat /\ DOMAIN s = 1..Len(s)
  OBVIOUS
<1>2. IsLastHome(s, Len(s))
  BY <1>1 DEF IsLastHome
<1>3. Since(s) = SubSeq(s, Len(s), Len(s))
  BY <1>1, <1>2, LastHomeIs
<1> DEFINE n == Len(s)
           t == SubSeq(s, n, n)
<1>4. t \in Seq(PageIds) /\ Len(t) = 1 /\ t[1] = s[n]
  BY <1>1
<1>5. \A u \in Seq(PageIds) : Len(u) = 1 => u = <<u[1]>>
  OBVIOUS
<1> HIDE DEF t
<1>6. t = <<t[1]>>
  BY <1>4, <1>5
<1> QED
  BY <1>3, <1>4, <1>6 DEF t

\* A page recorded over a home page extends the trail.
LEMMA SincePushed ==
    ASSUME NEW s \in Seq(PageIds), NEW g \in PageIds, g # drawHomeID,
           NEW h \in 1..Len(s), s[h] = drawHomeID
    PROVE  /\ Since(Append(s, g)) = Append(Since(s), g)
           /\ Len(Since(s)) \in Nat /\ Since(s)[Len(Since(s))] = s[Len(s)]
<1> DEFINE t == Append(s, g)
<1>1. /\ t \in Seq(PageIds) /\ Len(t) = Len(s) + 1 /\ t[Len(s) + 1] = g
      /\ \A k \in 1..Len(s) : t[k] = s[k]
  BY Pushed
<1>2. Len(s) \in Nat /\ DOMAIN s = 1..Len(s) /\ DOMAIN t = 1..(Len(s) + 1)
  BY <1>1
<1>3. PICK k : IsLastHome(s, k)
  BY LastHomeExists
<1>4. k \in 1..Len(s) /\ Since(s) = SubSeq(s, k, Len(s))
  BY <1>3, LastHomeIs
<1>5. IsLastHome(t, k)
  <2> HIDE DEF t
  <2>1. k \in DOMAIN t /\ t[k] = drawHomeID
    BY <1>1, <1>2, <1>3, <1>4 DEF IsLastHome
  <2>2. ASSUME NEW j \in DOMAIN t, t[j] = drawHomeID PROVE j <= k
    <3>1. j # Len(s) + 1
      BY <1>1, <2>2
    <3>2. j \in 1..Len(s)
      BY <1>2, <3>1
    <3> QED
      BY <1>1, <1>2, <1>3, <2>2, <3>2 DEF IsLastHome
  <2> QED
    BY <2>1, <2>2 DEF IsLastHome
<1>6. Since(t) = SubSeq(t, k, Len(s) + 1)
  <2> HIDE DEF t
  <2> QED
    BY <1>1, <1>5, LastHomeIs
<1>7. SubSeq(t, k, Len(s) + 1) = Append(SubSeq(s, k, Len(s)), g)
  BY <1>2, <1>4
<1>8. /\ Len(SubSeq(s, k, Len(s))) = Len(s) - k + 1
      /\ SubSeq(s, k, Len(s))[Len(s) - k + 1] = s[Len(s)]
  BY <1>2, <1>4
<1> QED
  BY <1>2, <1>4, <1>6, <1>7, <1>8

\* Back from a page above a home page takes one page off the trail.
LEMMA SincePopped ==
    ASSUME NEW s \in Seq(PageIds), NEW h \in 1..(Len(s) - 1), s[h] = drawHomeID,
           s[Len(s)] # drawHomeID
    PROVE  LET t == SubSeq(s, 1, Len(s) - 1) IN
           /\ Since(t) = SubSeq(Since(s), 1, Len(Since(s)) - 1)
           /\ Len(Since(s)) > 1
<1> DEFINE t == SubSeq(s, 1, Len(s) - 1)
           n == Len(s) - 1
<1>1. n \in Nat /\ n >= 1 /\ Len(s) = n + 1 /\ DOMAIN s = 1..(n + 1) /\ h \in 1..n
  OBVIOUS
<1>2. t \in Seq(PageIds) /\ Len(t) = n /\ \A k \in 1..n : t[k] = s[k]
  BY <1>1, Popped
<1>3. PICK k : IsLastHome(s, k)
  BY <1>1, LastHomeExists
<1>4. k \in 1..(n + 1) /\ Since(s) = SubSeq(s, k, n + 1)
  BY <1>1, <1>3, LastHomeIs
<1>5. k \in 1..n
  BY <1>1, <1>3, <1>4 DEF IsLastHome
<1>6. IsLastHome(t, k)
  <2> HIDE DEF t, n
  <2>1. DOMAIN t = 1..n
    BY <1>2
  <2>2. k \in DOMAIN t /\ t[k] = drawHomeID
    BY <1>2, <1>3, <1>5, <2>1 DEF IsLastHome
  <2>3. ASSUME NEW j \in DOMAIN t, t[j] = drawHomeID PROVE j <= k
    <3>1. j \in 1..n /\ j \in DOMAIN s /\ s[j] = drawHomeID
      BY <1>1, <1>2, <2>1, <2>3
    <3> QED
      BY <1>3, <3>1 DEF IsLastHome
  <2> QED
    BY <2>2, <2>3 DEF IsLastHome
<1>7. Since(t) = SubSeq(t, k, n)
  <2> HIDE DEF t, n
  <2> QED
    BY <1>2, <1>6, LastHomeIs
<1>8. Len(SubSeq(s, k, n + 1)) = n + 1 - k + 1
  BY <1>1, <1>5
<1>9. SubSeq(t, k, n) = SubSeq(SubSeq(s, k, n + 1), 1, n + 1 - k)
  BY <1>1, <1>2, <1>5
<1>10. Len(Since(s)) - 1 = n + 1 - k /\ Len(Since(s)) > 1
  BY <1>1, <1>4, <1>5, <1>8
<1> QED
  BY <1>4, <1>7, <1>9, <1>10

-----------------------------------------------------------------------------
(* What a task will record is a page the one on top links to.              *)

\* Task p draws page g, and not to go back: it is home, a light, or linked.
Linked(p, g) ==
    pc[p] \in {"draw", "header", "add"} /\ ~isGoingBack =>
        \/ g = drawHomeID \/ g = drawLightID
        \/ pagePath # <<>> /\ <<pagePath[Len(pagePath)], g>> \in Links

LinkOK == \A p \in Tasks : Linked(p, page[p])

LinkInv == ~derailed /\ ~wild => LinkOK

\* A task that begins to draw, alone.
LEMMA LinkStart ==
    ASSUME NEW p \in Tasks, NEW g, NEW l, TypeOK, StartDrawing(p, g, l), ~Overlap(p), Linked(p, g)'
    PROVE  LinkOK'
<1>1. pc \in [Tasks -> Locations] /\ page \in [Tasks -> PageIds]
  BY DEF TypeOK, DataOK
<1>2. page'[p] = g /\ pc'[Other(p)] = "idle"
  BY <1>1 DEF StartDrawing, Goto, Overlap, Idle, Other, Tasks
<1>3. \A q \in Tasks : q = p \/ q = Other(p)
  BY DEF Tasks, Other
<1> QED
  BY <1>2, <1>3, Zenon DEF LinkOK, Linked

\* While one task draws the other one is idle and has nothing to record.
LEMMA LinkGoes ==
    ASSUME NEW p \in Tasks, NEW l, TypeOK, TrailOK, pc[p] # "idle", Goto(p, l), Linked(p, page[p])'
    PROVE  LinkOK'
<1>1. pc \in [Tasks -> Locations] /\ pc[Other(p)] = "idle"
  BY DrawsAlone DEF TypeOK, DataOK
<1>2. pc'[Other(p)] = "idle"
  BY <1>1 DEF Goto, Other, Tasks
<1>3. \A q \in Tasks : q = p \/ q = Other(p)
  BY DEF Tasks, Other
<1> QED
  BY <1>2, <1>3, Zenon DEF LinkOK, Linked

\* A tap follows a link of the page on top.
LEMMA TapPageLinks ==
    ASSUME Sound, TapPage
    PROVE  /\ LinkOK'
           /\ pc["touch"] = "idle" /\ uiLevel # 1 /\ page'["touch"] # drawHomeID
<1>1. PICK b \in buttons, g \in PageIds : Opens(b, g) /\ StartDrawing("touch", g, "draw")
  BY DEF TapPage
<1>2. ~Overlap("touch") /\ pc["touch"] = "idle" /\ pc["encoder"] = "idle"
  BY <1>1 DEF Sound, TapPage, StartDrawing, Overlap, Idle, Other
<1>3. b \in PageIds /\ OnTop(pagePath, refreshes, uiLevel, b) /\ Shown(b)
  BY <1>1, <1>2 DEF Sound, TrailOK, Resting
<1>4. <<b, g>> \in Links /\ uiLevel # 1 /\ g # drawHomeID
  BY <1>1, <1>3, DepthOpens DEF Opens, Shown
<1>5. pagePath # <<>> /\ pagePath[Len(pagePath)] = b
  BY <1>3, <1>4 DEF OnTop
<1>6. pagePath' = pagePath
  BY DEF TapPage
<1>7. Linked("touch", g)'
  BY <1>4, <1>5, <1>6 DEF Linked
<1>8. LinkOK'
  BY <1>1, <1>2, <1>7, LinkStart DEF Sound, Tasks
<1>9. page'["touch"] = g
  BY <1>1 DEF Sound, TypeOK, DataOK, StartDrawing, Tasks
<1> QED
  BY <1>2, <1>4, <1>8, <1>9

\* Every step keeps what will be recorded linked.
LEMMA LinkStep == NavInv /\ LinkInv /\ [Next]_vars => LinkInv'
<1> SUFFICES ASSUME NavInv, LinkInv, [Next]_vars, ~derailed', ~wild' PROVE LinkOK'
  BY DEF LinkInv
<1>0. TypeOK
  BY DEF NavInv
<1>1. CASE TapHome /\ ~wild
  <2>1. StartDrawing("touch", drawHomeID, "draw") /\ ~Overlap("touch")
    BY <1>1 DEF TapHome
  <2> QED
    BY <1>0, <2>1, LinkStart DEF Linked, Tasks
<1>2. CASE Reset
  BY <1>2 DEF Reset, LinkOK, Linked
<1>3. CASE UNCHANGED vars
  <2>1. LinkOK
    BY <1>3 DEF LinkInv, vars
  <2> QED
    BY <1>3, <2>1 DEF vars, LinkOK, Linked
<1>4. CASE /\ ~wild
           /\ TapPage \/ TapRefresh \/ goBack \/ goBackWild \/ getUILevel \/ DialPressed
              \/ \E p \in Tasks : Draw(p)
  <2>1. ~derailed
    BY <1>4, Zenon DEF TapPage, TapRefresh, goBack, goBackWild, getUILevel, DialPressed, Draw,
                DrawPage, drawHeader, addPageToPagePath, addPageWild, DrawBody
  <2>2. Sound /\ LinkOK /\ TrailOK
    BY <1>0, <1>4, <2>1 DEF NavInv, TrailInv, LinkInv, Sound
  <2>3. CASE TapPage
    BY <2>2, <2>3, TapPageLinks
  <2>4. CASE TapRefresh
    <3>1. StartDrawing("touch", drawHomeID, "fetch") /\ ~Overlap("touch")
      BY <2>4 DEF TapRefresh
    <3> QED
      BY <1>0, <3>1, LinkStart DEF Linked, Tasks
  <2>5. CASE goBack
    <3>1. /\ StartDrawing("touch", BackTarget, "draw") /\ isGoingBack' = TRUE /\ ~Overlap("touch")
      BY <2>5 DEF goBack
    <3> PICK g : g = BackTarget
      OBVIOUS
    <3>2. StartDrawing("touch", g, "draw")
      BY <3>1
    <3>3. Linked("touch", g)'
      BY <3>1 DEF Linked
    <3> QED
      BY <1>0, <3>1, <3>2, <3>3, LinkStart DEF Tasks
  <2>6. CASE getUILevel
    <3>1. pc["touch"] = "fetch" /\ Goto("touch", "draw") /\ UNCHANGED page
      BY <2>6 DEF getUILevel
    <3>2. page["touch"] = drawHomeID
      BY <2>2, <3>1 DEF TrailOK, Drawing
    <3>3. Linked("touch", page["touch"])'
      BY <3>1, <3>2 DEF Linked
    <3> QED
      BY <1>0, <2>2, <3>1, <3>3, LinkGoes DEF Tasks
  <2>7. CASE DialPressed
    <3>1. StartDrawing("encoder", drawLightID, "draw") /\ ~Overlap("encoder")
      BY <2>7 DEF DialPressed
    <3> QED
      BY <1>0, <3>1, LinkStart DEF Linked, Tasks
  <2>8. ASSUME NEW p \in Tasks, Draw(p)
        PROVE  LinkOK'
    <3>1. Linked(p, page[p]) /\ page' = page
      BY <2>2, <2>8 DEF LinkOK, Draw, DrawPage, drawHeader, addPageToPagePath, addPageWild, DrawBody
    <3>2. ~addPageWild(p)
      BY DEF addPageWild
    <3>3. pc \in [Tasks -> Locations]
      BY <1>0 DEF TypeOK, DataOK
    <3>4. CASE DrawPage(p) \/ drawHeader(p)
      <4>1. /\ pc[p] \in {"draw", "header"} /\ UNCHANGED pagePath
            /\ \/ Goto(p, "header") /\ UNCHANGED isGoingBack
               \/ Goto(p, "add") /\ ~isGoingBack
               \/ Goto(p, "body")
        BY <3>4 DEF DrawPage, drawHeader
      <4>2. Linked(p, page[p])'
        BY <3>1, <3>3, <4>1 DEF Linked, Goto
      <4> QED
        BY <1>0, <2>2, <4>1, <4>2, LinkGoes
    <3>5. CASE addPageToPagePath(p) \/ DrawBody(p)
      <4>1. pc[p] \in {"add", "body"} /\ (Goto(p, "body") \/ Goto(p, "idle"))
        BY <3>5 DEF addPageToPagePath, DrawBody
      <4>2. Linked(p, page[p])'
        BY <3>3, <4>1 DEF Linked, Goto
      <4> QED
        BY <1>0, <2>2, <4>1, <4>2, LinkGoes
    <3> QED
      BY <2>8, <3>2, <3>4, <3>5 DEF Draw
  <2> QED
    BY <1>4, <2>3, <2>4, <2>5, <2>6, <2>7, <2>8 DEF goBackWild
<1> QED
  BY <1>1, <1>2, <1>3, <1>4 DEF Next, Tap

-----------------------------------------------------------------------------
(* The trail of the history.                                               *)

\* While home is being drawn the trail is home; else it is what was recorded
\* since the last home.
AtHome == uiLevel = 1 \/ (page["touch"] = drawHomeID /\ pc["touch"] # "idle")

LEMMA TrailIs ==
    ~derailed => /\ AtHome => Trail = <<drawHomeID>>
                 /\ ~AtHome => Trail = Since(pagePath)
  BY DEF Trail, AtHome, Idle, Since, LastHomeOf, LastHome

LEMMA TrailIsNext ==
    ~derailed' => /\ AtHome' => Trail' = <<drawHomeID>>
                  /\ ~AtHome' => Trail' = Since(pagePath')
  BY DEF Trail, AtHome, Idle, Since, LastHomeOf, LastHome

\* A step that leaves the history, the level and the drawing as they are.
LEMMA TrailKept ==
    ASSUME ~derailed, ~derailed', AtHome' <=> AtHome, pagePath' = pagePath
    PROVE  Trail' = Trail
  BY TrailIs, TrailIsNext

\* goBack takes the top page off the trail.
LEMMA BackTakes ==
    ASSUME Sound, ~derailed, goBack
    PROVE  Len(Trail) > 1 /\ Trail' = SubSeq(Trail, 1, Len(Trail) - 1)
<1>1. /\ ~Overlap("touch") /\ BackTarget # changeBehaviorID /\ BackButton
      /\ pagePath' = SubSeq(pagePath, 1, Len(pagePath) - 1) /\ uiLevel' = uiLevel
  BY DEF goBack, Sound
<1>2. pc["touch"] = "idle" /\ pc["encoder"] = "idle"
  BY <1>1 DEF BackButton, Overlap, Idle, Other
<1>3. PICK g \in PageIds : buttons = {g} /\ OnTop(pagePath, refreshes, uiLevel, g) /\ Shown(g)
  BY <1>2 DEF Sound, TrailOK, Resting
<1>4. g # drawHomeID /\ uiLevel # 1
  BY <1>1, <1>3 DEF BackButton, Shown
<1>5. pagePath[Len(pagePath)] # drawHomeID
  BY <1>3, <1>4 DEF OnTop
<1>6. PICK h \in 1..(Len(pagePath) - 1) : pagePath[h] = drawHomeID
  BY <1>3, <1>4 DEF OnTop, Fits
<1>7. pagePath \in Seq(PageIds)
  BY TrailTypes DEF Sound
<1>8. Len(pagePath) \in Nat /\ Len(pagePath) >= 2
  BY <1>6, <1>7
<1>9. /\ pagePath' \in Seq(PageIds) /\ Len(pagePath') = Len(pagePath) - 1
      /\ pagePath'[Len(pagePath) - 1] = BackTarget
  BY <1>1, <1>7, <1>8, Popped DEF BackTarget
<1>10. /\ Since(pagePath') = SubSeq(Since(pagePath), 1, Len(Since(pagePath)) - 1)
       /\ Len(Since(pagePath)) > 1
  BY <1>1, <1>5, <1>6, <1>7, SincePopped
<1>11. Trail = Since(pagePath)
  BY <1>2, <1>4, TrailIs DEF AtHome
<1>12. Trail' = Since(pagePath')
  <2>1. ~derailed' /\ page'["touch"] = BackTarget
    BY <1>1 DEF goBack, StartDrawing, Sound, TypeOK, DataOK, Tasks
  <2>2. CASE BackTarget = drawHomeID
    <3>1. pagePath' # <<>> /\ pagePath'[Len(pagePath')] = drawHomeID
      BY <1>8, <1>9, <2>2
    <3>2. Since(pagePath') = <<drawHomeID>>
      BY <1>9, <3>1, SinceHome
    <3> QED
      BY <2>1, <3>2, TrailIsNext
  <2>3. CASE BackTarget # drawHomeID
    BY <1>1, <1>4, <2>1, <2>3, TrailIsNext DEF AtHome
  <2> QED
    BY <2>2, <2>3
<1> QED
  BY <1>10, <1>11, <1>12

\* Recording a page opens it; recording home, and what stands for it at level
\* 1, begins the trail anew or leaves it.
LEMMA RecordsOpen ==
    ASSUME NEW p \in Tasks, Sound, LinkOK, ~derailed, addPageToPagePath(p)
    PROVE  \/ Trail' = Trail
           \/ Trail' = <<drawHomeID>>
           \/ \E g \in PageIds : /\ g = drawLightID \/ <<Trail[Len(Trail)], g>> \in Links
                                 /\ Trail' = Append(Trail, g)
<1>1. /\ pc[p] = "add" /\ Goto(p, "body")
      /\ pagePath' = Append(pagePath, currentRoomID)
      /\ UNCHANGED <<page, uiLevel>>
  BY DEF addPageToPagePath
<1>2. ~derailed'
  BY DEF Sound
<1>3. pc[Other(p)] = "idle" /\ Drawing("add", page[p]) /\ Linked(p, page[p])
  BY <1>1, DrawsAlone DEF Sound, LinkOK
<1>4. pc'[p] = "body" /\ pc'[Other(p)] = pc[Other(p)] /\ page[p] \in PageIds
  BY <1>1 DEF Sound, TypeOK, DataOK, Goto, Other, Tasks
<1>5. p = "touch" \/ (p = "encoder" /\ Other(p) = "touch")
  BY DEF Tasks, Other
<1>6. AtHome' <=> AtHome
  BY <1>1, <1>3, <1>4, <1>5, Zenon DEF AtHome
<1>7. pagePath \in Seq(PageIds)
  BY TrailTypes DEF Sound
<1>8. CASE AtHome
  BY <1>2, <1>6, <1>8, TrailIs, TrailIsNext
<1>9. CASE ~AtHome
  <2> PICK g \in PageIds : g = page[p]
    BY <1>4
  <2>1. Trail = Since(pagePath) /\ Trail' = Since(pagePath') /\ uiLevel # 1
    BY <1>2, <1>6, <1>9, TrailIs, TrailIsNext DEF AtHome
  <2>2. currentRoomID = g /\ pagePath' = Append(pagePath, g)
    BY <1>1, <1>3, <2>1 DEF Drawing, Recorded
  <2>3. CASE g = drawHomeID
    <3>1. Len(pagePath') = Len(pagePath) + 1 /\ pagePath' \in Seq(PageIds)
          /\ pagePath'[Len(pagePath) + 1] = drawHomeID /\ Len(pagePath) \in Nat
      BY <1>7, <2>2, <2>3, Pushed
    <3>2. pagePath' # <<>>
      BY <3>1
    <3>3. Since(pagePath') = <<drawHomeID>>
      BY <3>1, <3>2, SinceHome
    <3> QED
      BY <2>1, <3>3
  <2>4. CASE g # drawHomeID
    <3>1. PICK h \in 1..((Len(pagePath) + 1) - 1) : pagePath[h] = drawHomeID
      BY <1>3, <2>4 DEF Drawing, Fits
    <3>2. h \in 1..Len(pagePath)
      BY <1>7, <3>1
    <3>3. /\ Since(pagePath') = Append(Since(pagePath), g)
          /\ Since(pagePath)[Len(Since(pagePath))] = pagePath[Len(pagePath)]
      BY <1>7, <2>2, <2>4, <3>1, <3>2, SincePushed
    <3>4. g = drawLightID \/ <<pagePath[Len(pagePath)], g>> \in Links
      BY <1>1, <1>3, <2>4 DEF Linked, Drawing
    <3> QED
      BY <2>1, <3>3, <3>4
  <2> QED
    BY <2>3, <2>4
<1> QED
  BY <1>8, <1>9

\* The other steps of a drawing leave the trail as it is.
LEMMA DrawKeeps ==
    ASSUME NEW p \in Tasks, Sound, ~derailed, DrawPage(p) \/ drawHeader(p) \/ DrawBody(p)
    PROVE  Trail' = Trail
<1>1. /\ pc[p] # "idle" /\ UNCHANGED <<page, pagePath, uiLevel>>
  BY DEF DrawPage, drawHeader, DrawBody
<1>2. ~derailed'
  BY DEF Sound
<1>3. pc \in [Tasks -> Locations] /\ (p = "touch" \/ (p = "encoder" /\ Other(p) = "touch"))
  BY DEF Sound, TypeOK, DataOK, Tasks, Other
<1>4. CASE DrawPage(p) \/ drawHeader(p)
  <2>1. Goto(p, "header") \/ Goto(p, "body") \/ Goto(p, "add")
    BY <1>4 DEF DrawPage, drawHeader
  <2>2. pc'["touch"] = "idle" <=> pc["touch"] = "idle"
    BY <1>1, <1>3, <2>1 DEF Goto, Tasks
  <2> QED
    BY <1>1, <1>2, <2>2, TrailKept DEF AtHome
<1>5. CASE DrawBody(p)
  <2>1. pc[p] = "body" /\ Goto(p, "idle")
    BY <1>5 DEF DrawBody
  <2>2. Drawing("body", page[p])
    BY <2>1, DrawsAlone DEF Sound
  <2>3. CASE p = "touch" /\ page[p] = drawHomeID /\ uiLevel # 1
    <3>1. pagePath # <<>> /\ pagePath[Len(pagePath)] = drawHomeID /\ pagePath \in Seq(PageIds)
      BY <2>2, <2>3, TrailTypes DEF Drawing, OnTop, Sound
    <3>2. Since(pagePath) = <<drawHomeID>>
      BY <3>1, SinceHome
    <3>3. pc'["touch"] = "idle"
      BY <1>3, <2>1, <2>3 DEF Goto
    <3>4. ~AtHome' /\ AtHome
      BY <1>1, <2>3, <3>3 DEF AtHome
    <3> QED
      BY <1>1, <1>2, <3>2, <3>4, TrailIs, TrailIsNext
  <2>4. CASE p = "touch" /\ (page[p] # drawHomeID \/ uiLevel = 1)
    BY <1>1, <1>2, <2>4, TrailKept DEF AtHome
  <2>5. CASE p # "touch"
    <3>1. pc'["touch"] = pc["touch"]
      BY <1>3, <2>1, <2>5 DEF Goto, Tasks
    <3> QED
      BY <1>1, <1>2, <3>1, TrailKept DEF AtHome
  <2> QED
    BY <2>3, <2>4, <2>5
<1> QED
  BY <1>4, <1>5

\* Home and a refresh begin the trail anew; a tap and the dial leave it until
\* the page is recorded; the level is read while home is drawn.
LEMMA StartTrails ==
    ASSUME TypeOK, ~derailed, ~derailed'
    PROVE  /\ TapHome \/ TapRefresh => Trail' = <<drawHomeID>>
           /\ Sound /\ (TapPage \/ getUILevel \/ DialPressed) => Trail' = Trail
<1>1. pc \in [Tasks -> Locations] /\ page \in [Tasks -> PageIds]
  BY DEF TypeOK, DataOK
<1>2. ASSUME TapHome \/ TapRefresh PROVE Trail' = <<drawHomeID>>
  <2>1. StartDrawing("touch", drawHomeID, "draw") \/ StartDrawing("touch", drawHomeID, "fetch")
    BY <1>2 DEF TapHome, TapRefresh
  <2>2. page'["touch"] = drawHomeID /\ pc'["touch"] # "idle"
    BY <1>1, <2>1 DEF StartDrawing, Goto, Tasks
  <2> QED
    BY <2>2, TrailIsNext DEF AtHome
<1>3. ASSUME Sound, TapPage PROVE Trail' = Trail
  <2>1. UNCHANGED <<pagePath, uiLevel>>
    BY <1>3 DEF TapPage
  <2> QED
    BY <1>3, <2>1, TapPageLinks, TrailKept DEF AtHome
<1>4. ASSUME Sound, getUILevel PROVE Trail' = Trail
  <2>1. pc["touch"] = "fetch" /\ Goto("touch", "draw") /\ UNCHANGED <<page, pagePath>>
    BY <1>4 DEF getUILevel
  <2>2. page["touch"] = drawHomeID
    BY <1>4, <2>1 DEF Sound, TrailOK, Drawing
  <2>3. pc'["touch"] = "draw"
    BY <1>1, <2>1 DEF Goto, Tasks
  <2> QED
    BY <2>1, <2>2, <2>3, TrailKept DEF AtHome
<1>5. ASSUME DialPressed PROVE Trail' = Trail
  <2>1. StartDrawing("encoder", drawLightID, "draw") /\ UNCHANGED <<pagePath, uiLevel>>
    BY <1>5 DEF DialPressed
  <2>2. pc'["touch"] = pc["touch"] /\ page'["touch"] = page["touch"]
    BY <1>1, <2>1 DEF StartDrawing, Goto, Tasks
  <2> QED
    BY <2>1, <2>2, TrailKept DEF AtHome
<1> QED
  BY <1>2, <1>3, <1>4, <1>5

\* Every step is one of the promise's, or leaves the trail as it is.
LEMMA HistoryStep == NavInv /\ LinkInv /\ [Next]_vars => [History!Next]_(History!vars)
<1> SUFFICES ASSUME NavInv, LinkInv, [Next]_vars PROVE [History!Next]_(History!vars)
  OBVIOUS
<1>0. TypeOK /\ FlagsOK
  BY DEF NavInv, TypeOK
<1> DEFINE Same == Trail' = Trail
           Lose == ~(derailed \/ wild) /\ (derailed' \/ wild')
           Wander == (derailed \/ wild) /\ (derailed' \/ wild')
           Recover == /\ derailed \/ wild
                      /\ ~(derailed' \/ wild') /\ Trail' = <<drawHomeID>>
           Keep == ~(derailed \/ wild) /\ ~(derailed' \/ wild')
           Open == \E g \in PageIds : /\ g = drawLightID \/ <<Trail[Len(Trail)], g>> \in Links
                                      /\ Trail' = Append(Trail, g)
           Back == Len(Trail) > 1 /\ Trail' = SubSeq(Trail, 1, Len(Trail) - 1)
<1>1. ASSUME \/ Lose \/ Wander \/ Recover
             \/ Keep /\ (Same \/ Open \/ Back \/ Trail' = <<drawHomeID>>)
      PROVE  [History!Next]_(History!vars)
  BY <1>1, Zenon DEF History!Next, History!vars, History!Open, History!Back, History!Home, History!Lose,
              History!Wander, History!Recover, History!Keep
<1>2. CASE ~Keep
  <2>1. CASE ~(derailed \/ wild) \/ derailed' \/ wild'
    <3> HIDE DEF Recover
    <3> QED
      BY <1>1, <1>2, <2>1
  <2>2. CASE (derailed \/ wild) /\ ~derailed' /\ ~wild'
    <3>1. CASE Reset
      <4>1. pc'["touch"] = "fetch" /\ page'["touch"] = drawHomeID
        BY <3>1 DEF Reset, Tasks
      <4>2. Trail' = <<drawHomeID>>
        BY <2>2, <4>1, TrailIsNext DEF AtHome
      <4> QED
        BY <1>1, <2>2, <4>2
    <3>2. CASE TapHome /\ ~wild
      <4>1. pc'["touch"] = "draw" /\ page'["touch"] = drawHomeID
        BY <1>0, <3>2 DEF TapHome, StartDrawing, Goto, TypeOK, DataOK, Tasks
      <4>2. Trail' = <<drawHomeID>>
        BY <2>2, <4>1, TrailIsNext DEF AtHome
      <4> QED
        BY <1>1, <2>2, <4>2
    <3>3. Reset \/ (TapHome /\ ~wild)
      BY <2>2, Zenon DEF Next, Tap, TapPage, TapRefresh, goBack, goBackWild, getUILevel, DialPressed, Draw,
             DrawPage, drawHeader, addPageToPagePath, addPageWild, DrawBody, vars
    <3> QED
      BY <3>1, <3>2, <3>3
  <2> QED
    BY <2>1, <2>2
<1>3. CASE Keep
  <2>1. CASE UNCHANGED vars
    <3>1. pagePath' = pagePath /\ (AtHome' <=> AtHome)
      BY <2>1 DEF vars, AtHome
    <3>2. Same
      BY <1>3, <3>1, TrailKept
    <3> QED
      BY <1>1, <1>3, <3>2
  <2>2. CASE TapHome \/ TapRefresh
    <3>1. Trail' = <<drawHomeID>>
      BY <1>0, <1>3, <2>2, StartTrails
    <3> QED
      BY <1>1, <1>3, <3>1
  <2>3. Sound /\ LinkOK
    BY <1>0, <1>3 DEF NavInv, TrailInv, LinkInv, Sound
  <2>4. CASE TapPage \/ getUILevel \/ DialPressed
    <3>1. Same
      BY <1>0, <1>3, <2>3, <2>4, StartTrails
    <3> QED
      BY <1>1, <1>3, <3>1
  <2>5. CASE goBack
    <3>1. Back
      BY <1>3, <2>3, <2>5, BackTakes
    <3> QED
      BY <1>1, <1>3, <3>1
  <2>6. ASSUME NEW p \in Tasks, DrawPage(p) \/ drawHeader(p) \/ DrawBody(p)
        PROVE  [History!Next]_(History!vars)
    <3>1. Same
      BY <1>3, <2>3, <2>6, DrawKeeps
    <3> QED
      BY <1>1, <1>3, <3>1
  <2>7. ASSUME NEW p \in Tasks, addPageToPagePath(p)
        PROVE  [History!Next]_(History!vars)
    <3>1. Same \/ Open \/ Trail' = <<drawHomeID>>
      BY <1>3, <2>3, <2>7, RecordsOpen
    <3> QED
      BY <1>1, <1>3, <3>1
  <2>8. ~goBackWild /\ ~Reset /\ \A p \in Tasks : ~addPageWild(p)
    BY <1>3 DEF goBackWild, addPageWild, Reset
  <2> QED
    BY <2>1, <2>2, <2>4, <2>5, <2>6, <2>7, <2>8 DEF Next, Tap, Draw
<1> QED
  BY <1>2, <1>3

(* For every size of pagePath and any number of refreshes, the array, its   *)
(* counter and isGoingBack implement the trail that Back and Home promise:  *)
(* Back returns to the page this one was opened from, until two tasks draw  *)
(* at once or Back meets a settings page (addPageToPagePath, goBack).       *)
THEOREM HistoryImplemented == Spec => BackReturnsToOpener
<1>1. Init => History!Init
  <2> SUFFICES ASSUME Init PROVE History!Init
    OBVIOUS
  <2>1. ~derailed /\ ~wild /\ pc["touch"] = "fetch" /\ page["touch"] = drawHomeID
    BY DEF Init, Tasks
  <2>2. Trail = <<drawHomeID>> /\ (derailed \/ wild) = FALSE
    BY <2>1, TrailIs DEF AtHome
  <2> QED
    BY <2>2 DEF History!Init
<1>2. Init => LinkInv
  BY DEF Init, LinkInv, LinkOK, Linked
<1>3. NavInv /\ LinkInv /\ [Next]_vars => LinkInv'
  BY LinkStep
<1>4. NavInv /\ LinkInv /\ [Next]_vars => [History!Next]_(History!vars)
  BY HistoryStep
<1> QED
  BY NavCorrect, <1>1, <1>2, <1>3, <1>4, PTL DEF Spec, BackReturnsToOpener, History!Spec
=============================================================================
