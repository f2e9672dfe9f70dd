------------------------- MODULE DeviceRegistryProofs -------------------------
(***************************************************************************)
(* Proofs about the device registry, for every number of slots, devices,   *)
(* pages, graphs on a page and pickers.                                    *)
(*                                                                         *)
(* A handler is a walk over a list or a set that calls a few operators on  *)
(* the registry.  Each operator is shown to keep what is true between two  *)
(* calls (RegOK and CallbacksOK), the walks keep it by FoldSatisfies and   *)
(* WalkSatisfies, and the handlers restore the invariant RegInv.           *)
(***************************************************************************)
EXTENDS DeviceRegistry, DataLemmas

DevRecs ==
  [phydev : Devices \cup {NoDevice}, refcount : Nat, sweep_cb_l : Seq(Graphs),
   polled : BOOLEAN, stage : {"closed", "configuring", "running", "error"}]

GraphRecs ==
  [alive : BOOLEAN, wdr_slot : Slots \cup {-1}, phydev : Devices \cup {NoDevice},
   sweepcache : BOOLEAN, shown : SUBSET Devices]

Regs ==
  [devices : [Slots -> DevRecs], cur_dev : Int, graph : [Graphs -> GraphRecs],
   astray : BOOLEAN]

(* The graphs bound to a slot.                                             *)
Bound(r, s) == {w \in Graphs : r.graph[w].wdr_slot = s}

(***************************************************************************)
(* A registry between two of the calls of a handler: cnt[s] references to  *)
(* slot s are held besides those of the graphs, and slot x may have been   *)
(* opened for a user that has not come yet.                                *)
(***************************************************************************)
SlotsDiffer(r) ==
  /\ r.cur_dev = Cardinality(Occupied(r))
  /\ \A s \in Slots : s \in Occupied(r) <=> r.devices[s].phydev # NoDevice
  /\ \A s, u \in Occupied(r) : r.devices[s].phydev = r.devices[u].phydev => s = u

IsCount(c) == c \in [Slots -> Nat]

UsersOf(r, cnt) == [s \in Slots |-> Cardinality(Bound(r, s)) + cnt[s]]

CountIs(r, c, x) ==
  /\ \A s \in Slots : r.devices[s].refcount = c[s]
  /\ \A s \in Occupied(r) : s = x \/ c[s] > 0

GraphOK(r, g) ==
  /\ ~g.alive => g = Gone
  /\ g.alive /\ g.wdr_slot = -1 => g = Unbound
  /\ g.wdr_slot # -1 => g.phydev = r.devices[g.wdr_slot].phydev

GraphsOK(r) == \A w \in Graphs : GraphOK(r, r.graph[w])

RegOK(r, cnt, x) ==
  r \in Regs /\ SlotsDiffer(r) /\ CountIs(r, UsersOf(r, cnt), x) /\ GraphsOK(r)

(* Every element of B is in the list l, once, and nothing else is.         *)
Lists(l, B) ==
  /\ \A i, j \in 1 .. Len(l) : l[i] = l[j] => i = j
  /\ \A i \in 1 .. Len(l) : l[i] \in B
  /\ \A w \in B : \E i \in 1 .. Len(l) : l[i] = w

(***************************************************************************)
(* The polled devices of the slots in S call back the graphs bound to      *)
(* them, and no graph shows what its device did not sweep.  S leaves out   *)
(* the slot of an error walk, whose list is not cut while it is walked.    *)
(***************************************************************************)
CallbacksOK(r, S) ==
  /\ ~r.astray
  /\ \A s \in S \cap Occupied(r) : r.devices[s].polled =>
        Lists(r.devices[s].sweep_cb_l, Bound(r, s))
  /\ \A w \in Graphs : r.graph[w].shown \subseteq {r.graph[w].phydev}

(* The references a menu with entries for the slots in S holds.            *)
MenuRefs(S) == [s \in Slots |-> IF s \in S THEN 1 ELSE 0]

(***************************************************************************)
(* A page is built and destroyed as a whole; panels, pickers and the menu  *)
(* belong to open pages.                                                   *)
(***************************************************************************)
PagesOK ==
  /\ \A t \in Tabs, k \in 1 .. NumGraphs :
        reg.graph[<<t, k>>].alive <=> reg.graph[<<t, 1>>].alive
  /\ nodev \subseteq {t \in Tabs : TabOpen(t)}
  /\ pickers \in [Tabs -> 0 .. MaxPickers]
  /\ \A t \in Tabs : pickers[t] > 0 => TabOpen(t)
  /\ menu \in [open : BOOLEAN, tab : Tabs, recs : SUBSET Slots]
  /\ IF menu.open THEN menu.tab \in nodev ELSE menu.recs = {}

(***************************************************************************)
(* What holds between two handlers.  The counts hold always, the callbacks *)
(* until a tab is given a second device.                                   *)
(***************************************************************************)
RegInv ==
  /\ RegOK(reg, MenuRefs(menu.recs), -1)
  /\ PagesOK
  /\ rebound \in BOOLEAN
  /\ ~rebound => CallbacksOK(reg, Slots)
-----------------------------------------------------------------------------
(***************************************************************************)
(* The walks.                                                              *)
(***************************************************************************)
BindStep(t, s) ==
  [p \in Regs \X (1 .. NumGraphs) |-> BindDev(p[1], <<t, p[2]>>, s)]

OpenTable(f, r, t, s, U) ==
  f = [u \in SUBSET U |-> IF u = {} THEN r
                          ELSE BindDev(f[u \ {Max(u)}], GraphsOf(t)[Max(u)], s)]

LEMMA DevOpenIsFold ==
  ASSUME NEW r, NEW t, NEW s, NEW f, OpenTable(f, r, t, s, DOMAIN GraphsOf(t))
  PROVE  \E g : /\ OpenTable(g, r, t, s, DOMAIN GraphsOf(t))
                /\ DevOpen(r, t, s) = g[DOMAIN GraphsOf(t)]
BY DEF OpenTable, DevOpen, FoldLeft, MapThenFoldSet

LEMMA DevOpenFolds ==
  ASSUME NEW r, NEW t, NEW s, NEW f, NumGraphs \in Nat,
         FoldTable(f, 1 .. NumGraphs, Regs, r, BindStep(t, s), LastOf(NumGraphs))
  PROVE  DevOpen(r, t, s) = f[1 .. NumGraphs]
<1> DEFINE n == NumGraphs
           U == 1 .. n
           ch == LastOf(n)
           st == BindStep(t, s)
<1>1. DOMAIN GraphsOf(t) = U /\ \A k \in U : GraphsOf(t)[k] = <<t, k>>
  BY DEF GraphsOf
<1>2. Chooses(ch, U)
  BY DEF FoldTable
<1>3. \A u \in SUBSET U : ch[u] = Max(u)
  BY DEF LastOf
<1>4. \A v \in Regs, k \in U : st[<<v, k>>] = BindDev(v, GraphsOf(t)[k], s)
  BY <1>1 DEF BindStep
<1>5. \A u \in SUBSET U : u # {} => Max(u) \in u
  BY <1>2, <1>3 DEF Chooses
<1> HIDE DEF U, ch, st, n
<1>6. FoldTable(f, U, Regs, r, st, ch)
  BY DEF U, ch, st, n
<1>7. f \in [SUBSET U -> Regs] /\ IsFold(f, U, r, st, ch)
  BY <1>6 DEF FoldTable
<1>8. OpenTable(f, r, t, s, U)
  <2>1. ASSUME NEW u \in SUBSET U
        PROVE f[u] = IF u = {} THEN r ELSE BindDev(f[u \ {Max(u)}], GraphsOf(t)[Max(u)], s)
    <3>1. CASE u = {}
      BY <1>7, <3>1 DEF IsFold
    <3>2. CASE u # {}
      BY <1>3, <1>4, <1>5, <1>7, <3>2 DEF IsFold
    <3> QED
      BY <3>1, <3>2
  <2> QED
    BY <1>7, <2>1 DEF OpenTable
<1>9. PICK g : OpenTable(g, r, t, s, U) /\ DevOpen(r, t, s) = g[U]
  BY <1>1, <1>8, DevOpenIsFold
<1>10. LikeFold(g, U, Regs, r, st, ch)
  <2>1. g[{}] = r
    BY <1>9 DEF OpenTable
  <2>2. ASSUME NEW u \in SUBSET U, u # {}, g[u \ {ch[u]}] \in Regs
        PROVE g[u] = st[<<g[u \ {ch[u]}], ch[u]>>]
    <3>1. g[u] = BindDev(g[u \ {Max(u)}], GraphsOf(t)[Max(u)], s)
      BY <1>9, <2>2 DEF OpenTable
    <3> QED
      BY <1>3, <1>4, <1>5, <2>2, <3>1
  <2> QED
    BY <2>1, <2>2 DEF LikeFold
<1>11. \A u \in SUBSET U : g[u] = f[u]
  BY <1>6, <1>10, FoldUnique
<1> QED
  BY <1>9, <1>11 DEF U, n

(* Destroyed: the graphs of a page go away, in turn.                       *)
DestroyStep(t) == [p \in Regs \X (1 .. NumGraphs) |-> Destroy(p[1], <<t, p[2]>>)]

DestroyTable(f, r, t, U) ==
  f = [u \in SUBSET U |-> IF u = {} THEN r
                          ELSE Destroy(f[u \ {Max(u)}], GraphsOf(t)[Max(u)])]

LEMMA DestroyedIsFold ==
  ASSUME NEW r, NEW t, NEW f, DestroyTable(f, r, t, DOMAIN GraphsOf(t))
  PROVE  \E g : /\ DestroyTable(g, r, t, DOMAIN GraphsOf(t))
                /\ Destroyed(r, t) = g[DOMAIN GraphsOf(t)]
BY DEF DestroyTable, Destroyed, FoldLeft, MapThenFoldSet

LEMMA DestroyedFolds ==
  ASSUME NEW r, NEW t, NEW f, NumGraphs \in Nat,
         FoldTable(f, 1 .. NumGraphs, Regs, r, DestroyStep(t), LastOf(NumGraphs))
  PROVE  Destroyed(r, t) = f[1 .. NumGraphs]
<1> DEFINE n == NumGraphs
           U == 1 .. n
           ch == LastOf(n)
           st == DestroyStep(t)
<1>1. DOMAIN GraphsOf(t) = U /\ \A k \in U : GraphsOf(t)[k] = <<t, k>>
  BY DEF GraphsOf
<1>2. Chooses(ch, U)
  BY DEF FoldTable
<1>3. \A u \in SUBSET U : ch[u] = Max(u)
  BY DEF LastOf
<1>4. \A v \in Regs, k \in U : st[<<v, k>>] = Destroy(v, GraphsOf(t)[k])
  BY <1>1 DEF DestroyStep
<1>5. \A u \in SUBSET U : u # {} => Max(u) \in u
  BY <1>2, <1>3 DEF Chooses
<1> HIDE DEF U, ch, st, n
<1>6. FoldTable(f, U, Regs, r, st, ch)
  BY DEF U, ch, st, n
<1>7. f \in [SUBSET U -> Regs] /\ IsFold(f, U, r, st, ch)
  BY <1>6 DEF FoldTable
<1>8. DestroyTable(f, r, t, U)
  <2>1. ASSUME NEW u \in SUBSET U
        PROVE f[u] = IF u = {} THEN r ELSE Destroy(f[u \ {Max(u)}], GraphsOf(t)[Max(u)])
    <3>1. CASE u = {}
      BY <1>7, <3>1 DEF IsFold
    <3>2. CASE u # {}
      BY <1>3, <1>4, <1>5, <1>7, <3>2 DEF IsFold
    <3> QED
      BY <3>1, <3>2
  <2> QED
    BY <1>7, <2>1 DEF DestroyTable
<1>9. PICK g : DestroyTable(g, r, t, U) /\ Destroyed(r, t) = g[U]
  BY <1>1, <1>8, DestroyedIsFold
<1>10. LikeFold(g, U, Regs, r, st, ch)
  <2>1. g[{}] = r
    BY <1>9 DEF DestroyTable
  <2>2. ASSUME NEW u \in SUBSET U, u # {}, g[u \ {ch[u]}] \in Regs
        PROVE g[u] = st[<<g[u \ {ch[u]}], ch[u]>>]
    <3>1. g[u] = Destroy(g[u \ {Max(u)}], GraphsOf(t)[Max(u)])
      BY <1>9, <2>2 DEF DestroyTable
    <3> QED
      BY <1>3, <1>4, <1>5, <2>2, <3>1
  <2> QED
    BY <2>1, <2>2 DEF LikeFold
<1>11. \A u \in SUBSET U : g[u] = f[u]
  BY <1>6, <1>10, FoldUnique
<1> QED
  BY <1>9, <1>11 DEF U, n

(* What the walk of wdr_sweep_update does with one callback.               *)
Called(r, w, s, mode, ws) ==
  IF r.astray \/ s \notin Occupied(r) \/ ~CanBeCalled(r, w, mode)
  THEN [r EXCEPT !.astray = TRUE]
  ELSE IF w \in ws THEN WdrSweep(r, w, mode, reg.devices[s].phydev) ELSE r

CbList(s) == reg.devices[s].sweep_cb_l

(* SweepUpdate: the callbacks in turn.                                     *)
CallStep(s, mode, ws) == [p \in Regs \X (1 .. Len(CbList(s))) |-> Called(p[1], CbList(s)[p[2]], s, mode, ws)]

UpdateTable(f, s, mode, ws, U) ==
  f = [u \in SUBSET U |-> IF u = {} THEN reg
                          ELSE Called(f[u \ {Max(u)}], CbList(s)[Max(u)], s, mode, ws)]

LEMMA SweepUpdateIsFold ==
  ASSUME NEW s, NEW mode, NEW ws, NEW f, UpdateTable(f, s, mode, ws, DOMAIN CbList(s))
  PROVE  \E g : /\ UpdateTable(g, s, mode, ws, DOMAIN CbList(s))
                /\ SweepUpdate(s, mode, ws) = g[DOMAIN CbList(s)]
BY DEF UpdateTable, SweepUpdate, Called, CbList, FoldLeft, MapThenFoldSet

LEMMA SweepUpdateFolds ==
  ASSUME NEW s, NEW mode, NEW ws, NEW f, Len(CbList(s)) \in Nat, CbList(s) \in Seq(Graphs),
         FoldTable(f, 1 .. Len(CbList(s)), Regs, reg, CallStep(s, mode, ws), LastOf(Len(CbList(s))))
  PROVE  SweepUpdate(s, mode, ws) = f[1 .. Len(CbList(s))]
<1> DEFINE n == Len(CbList(s))
           U == 1 .. n
           ch == LastOf(n)
           st == CallStep(s, mode, ws)
<1>1. DOMAIN CbList(s) = U
  OBVIOUS
<1>2. Chooses(ch, U)
  BY DEF FoldTable
<1>3. \A u \in SUBSET U : ch[u] = Max(u)
  BY DEF LastOf
<1>4. \A v \in Regs, k \in U : st[<<v, k>>] = Called(v, CbList(s)[k], s, mode, ws)
  BY <1>1 DEF CallStep
<1>5. \A u \in SUBSET U : u # {} => Max(u) \in u
  BY <1>2, <1>3 DEF Chooses
<1> HIDE DEF U, ch, st, n
<1>6. FoldTable(f, U, Regs, reg, st, ch)
  BY DEF U, ch, st, n
<1>7. f \in [SUBSET U -> Regs] /\ IsFold(f, U, reg, st, ch)
  BY <1>6 DEF FoldTable
<1>8. UpdateTable(f, s, mode, ws, U)
  <2>1. ASSUME NEW u \in SUBSET U
        PROVE f[u] = IF u = {} THEN reg ELSE Called(f[u \ {Max(u)}], CbList(s)[Max(u)], s, mode, ws)
    <3>1. CASE u = {}
      BY <1>7, <3>1 DEF IsFold
    <3>2. CASE u # {}
      BY <1>3, <1>4, <1>5, <1>7, <3>2 DEF IsFold
    <3> QED
      BY <3>1, <3>2
  <2> QED
    BY <1>7, <2>1 DEF UpdateTable
<1>9. PICK g : UpdateTable(g, s, mode, ws, U) /\ SweepUpdate(s, mode, ws) = g[U]
  BY <1>1, <1>8, SweepUpdateIsFold
<1>10. LikeFold(g, U, Regs, reg, st, ch)
  <2>1. g[{}] = reg
    BY <1>9 DEF UpdateTable
  <2>2. ASSUME NEW u \in SUBSET U, u # {}, g[u \ {ch[u]}] \in Regs
        PROVE g[u] = st[<<g[u \ {ch[u]}], ch[u]>>]
    <3>1. g[u] = Called(g[u \ {Max(u)}], CbList(s)[Max(u)], s, mode, ws)
      BY <1>9, <2>2 DEF UpdateTable
    <3> QED
      BY <1>3, <1>4, <1>5, <2>2, <3>1
  <2> QED
    BY <2>1, <2>2 DEF LikeFold
<1>11. \A u \in SUBSET U : g[u] = f[u]
  BY <1>6, <1>10, FoldUnique
<1> QED
  BY <1>9, <1>11 DEF U, n


(* The folds over the slots of the menu, in any order.                     *)
AnyOf(U) == [t \in SUBSET U |-> CHOOSE x \in t : TRUE]

AddRefs(r, U) == FoldSet(LAMBDA s, x : AddRef(x, s), r, U)
DelRefs(r, U) == FoldSet(LAMBDA s, x : DelRef(x, s), r, U)

(* PopulateMenu: an entry refers to each open device.                      *)
AddRefStep(U) == [p \in Regs \X U |-> AddRef(p[1], p[2])]

AddRefTable(f, r, U) ==
  f = [u \in SUBSET U |->
         IF u = {} THEN r ELSE AddRef(f[u \ {CHOOSE x \in u : TRUE}], CHOOSE x \in u : TRUE)]

LEMMA AddRefsIsFold ==
  ASSUME NEW r, NEW U, NEW f, AddRefTable(f, r, U)
  PROVE  \E g : AddRefTable(g, r, U) /\ AddRefs(r, U) = g[U]
BY DEF AddRefTable, AddRefs, FoldSet, MapThenFoldSet

LEMMA AddRefsFolds ==
  ASSUME NEW r, NEW U, NEW f,
         FoldTable(f, U, Regs, r, AddRefStep(U), AnyOf(U))
  PROVE  AddRefs(r, U) = f[U]
<1> DEFINE st == AddRefStep(U)
           ch == AnyOf(U)
<1>1. \A u \in SUBSET U : ch[u] = CHOOSE x \in u : TRUE
  BY DEF AnyOf
<1>2. \A u \in SUBSET U : u # {} => ch[u] \in U
  BY DEF FoldTable, Chooses
<1>3. \A v \in Regs, k \in U : st[<<v, k>>] = AddRef(v, k)
  BY DEF AddRefStep
<1> HIDE DEF st, ch
<1>4. FoldTable(f, U, Regs, r, st, ch)
  BY DEF st, ch
<1>5. f \in [SUBSET U -> Regs] /\ IsFold(f, U, r, st, ch)
  BY <1>4 DEF FoldTable
<1>a. \A u \in SUBSET U : u # {} => u \ {ch[u]} \in SUBSET U
  OBVIOUS
<1>6. AddRefTable(f, r, U)
  <2>1. ASSUME NEW u \in SUBSET U
        PROVE f[u] = IF u = {} THEN r
                     ELSE AddRef(f[u \ {CHOOSE x \in u : TRUE}], CHOOSE x \in u : TRUE)
    <3>1. CASE u = {}
      BY <1>5, <3>1 DEF IsFold
    <3>2. CASE u # {}
      <4>1. f[u] = AddRef(f[u \ {ch[u]}], ch[u])
        BY <1>2, <1>3, <1>5, <1>a, <3>2 DEF IsFold
      <4> QED
        BY <1>1, <3>2, <4>1
    <3> QED
      BY <3>1, <3>2
  <2> QED
    BY <1>5, <2>1 DEF AddRefTable
<1>7. PICK g : AddRefTable(g, r, U) /\ AddRefs(r, U) = g[U]
  BY <1>6, AddRefsIsFold
<1>8. LikeFold(g, U, Regs, r, st, ch)
  <2>1. g[{}] = r
    BY <1>7 DEF AddRefTable
  <2>2. ASSUME NEW u \in SUBSET U, u # {}, g[u \ {ch[u]}] \in Regs
        PROVE g[u] = st[<<g[u \ {ch[u]}], ch[u]>>]
    <3>1. g[u] = AddRef(g[u \ {CHOOSE x \in u : TRUE}], CHOOSE x \in u : TRUE)
      BY <1>7, <2>2 DEF AddRefTable
    <3>2. g[u] = AddRef(g[u \ {ch[u]}], ch[u])
      BY <1>1, <3>1
    <3> QED
      BY <1>2, <1>3, <2>2, <3>2
  <2> QED
    BY <2>1, <2>2 DEF LikeFold
<1>9. \A u \in SUBSET U : g[u] = f[u]
  BY <1>4, <1>8, FoldUnique
<1> QED
  BY <1>7, <1>9


(* FreeMenu: the references of the entries are given back.                 *)
DelRefStep(U) == [p \in Regs \X U |-> DelRef(p[1], p[2])]

DelRefTable(f, r, U) ==
  f = [u \in SUBSET U |->
         IF u = {} THEN r ELSE DelRef(f[u \ {CHOOSE x \in u : TRUE}], CHOOSE x \in u : TRUE)]

LEMMA DelRefsIsFold ==
  ASSUME NEW r, NEW U, NEW f, DelRefTable(f, r, U)
  PROVE  \E g : DelRefTable(g, r, U) /\ DelRefs(r, U) = g[U]
BY DEF DelRefTable, DelRefs, FoldSet, MapThenFoldSet

LEMMA DelRefsFolds ==
  ASSUME NEW r, NEW U, NEW f,
         FoldTable(f, U, Regs, r, DelRefStep(U), AnyOf(U))
  PROVE  DelRefs(r, U) = f[U]
<1> DEFINE st == DelRefStep(U)
           ch == AnyOf(U)
<1>1. \A u \in SUBSET U : ch[u] = CHOOSE x \in u : TRUE
  BY DEF AnyOf
<1>2. \A u \in SUBSET U : u # {} => ch[u] \in U
  BY DEF FoldTable, Chooses
<1>3. \A v \in Regs, k \in U : st[<<v, k>>] = DelRef(v, k)
  BY DEF DelRefStep
<1> HIDE DEF st, ch
<1>4. FoldTable(f, U, Regs, r, st, ch)
  BY DEF st, ch
<1>5. f \in [SUBSET U -> Regs] /\ IsFold(f, U, r, st, ch)
  BY <1>4 DEF FoldTable
<1>a. \A u \in SUBSET U : u # {} => u \ {ch[u]} \in SUBSET U
  OBVIOUS
<1>6. DelRefTable(f, r, U)
  <2>1. ASSUME NEW u \in SUBSET U
        PROVE f[u] = IF u = {} THEN r
                     ELSE DelRef(f[u \ {CHOOSE x \in u : TRUE}], CHOOSE x \in u : TRUE)
    <3>1. CASE u = {}
      BY <1>5, <3>1 DEF IsFold
    <3>2. CASE u # {}
      <4>1. f[u] = DelRef(f[u \ {ch[u]}], ch[u])
        BY <1>2, <1>3, <1>5, <1>a, <3>2 DEF IsFold
      <4> QED
        BY <1>1, <3>2, <4>1
    <3> QED
      BY <3>1, <3>2
  <2> QED
    BY <1>5, <2>1 DEF DelRefTable
<1>7. PICK g : DelRefTable(g, r, U) /\ DelRefs(r, U) = g[U]
  BY <1>6, DelRefsIsFold
<1>8. LikeFold(g, U, Regs, r, st, ch)
  <2>1. g[{}] = r
    BY <1>7 DEF DelRefTable
  <2>2. ASSUME NEW u \in SUBSET U, u # {}, g[u \ {ch[u]}] \in Regs
        PROVE g[u] = st[<<g[u \ {ch[u]}], ch[u]>>]
    <3>1. g[u] = DelRef(g[u \ {CHOOSE x \in u : TRUE}], CHOOSE x \in u : TRUE)
      BY <1>7, <2>2 DEF DelRefTable
    <3>2. g[u] = DelRef(g[u \ {ch[u]}], ch[u])
      BY <1>1, <3>1
    <3> QED
      BY <1>2, <1>3, <2>2, <3>2
  <2> QED
    BY <2>1, <2>2 DEF LikeFold
<1>9. \A u \in SUBSET U : g[u] = f[u]
  BY <1>4, <1>8, FoldUnique
<1> QED
  BY <1>7, <1>9

-----------------------------------------------------------------------------
(***************************************************************************)
(* One reference more or less.  c[s] references to slot s are held.        *)
(***************************************************************************)
(* Slot u looks the same but for its references.                           *)
SameSlot(q, r, u) ==
  /\ q.devices[u].phydev = r.devices[u].phydev
  /\ q.devices[u].sweep_cb_l = r.devices[u].sweep_cb_l
  /\ q.devices[u].polled = r.devices[u].polled
  /\ q.devices[u].stage = r.devices[u].stage

LEMMA EmptyFacts ==
  /\ Empty \in DevRecs /\ Empty.phydev = NoDevice /\ Empty.refcount = 0
  /\ Empty.sweep_cb_l = <<>> /\ Empty.polled = FALSE /\ Empty.stage = "closed"
  /\ \A s \in Slots : s \in Int /\ s # -1
BY BoundsAssumption DEF Empty, DevRecs, Slots

LEMMA SlotFacts ==
  ASSUME NEW r \in Regs, NEW s \in Slots
  PROVE  /\ r.devices \in [Slots -> DevRecs]
         /\ r.devices[s] \in DevRecs /\ r.devices[s].refcount \in Nat
         /\ r.cur_dev \in Int /\ r.graph \in [Graphs -> GraphRecs] /\ r.astray \in BOOLEAN
         /\ s \in Occupied(r) <=> r.devices[s] # Empty
BY DEF Regs, DevRecs, Occupied

LEMMA OccupiedFinite ==
  ASSUME NEW r
  PROVE  /\ IsFiniteSet(Slots) /\ Cardinality(Slots) = MaxDev
         /\ Occupied(r) \subseteq Slots /\ IsFiniteSet(Occupied(r))
         /\ Cardinality(Occupied(r)) \in 0 .. MaxDev
<1>1. 0 \in Int /\ MaxDev - 1 \in Int /\ MaxDev \in Nat /\ MaxDev > 0
  BY BoundsAssumption
<1>2. IsFiniteSet(Slots) /\ Cardinality(Slots) = MaxDev
  <2> DEFINE a == 0
             b == MaxDev - 1
  <2>1. a \in Int /\ b \in Int
    BY <1>1
  <2>2. IF a > b THEN 0 = MaxDev ELSE b - a + 1 = MaxDev
    BY <1>1
  <2>3. Slots = a .. b
    BY DEF Slots
  <2> HIDE DEF a, b
  <2> QED
    BY <2>1, <2>2, <2>3, FS_Interval
<1>3. Occupied(r) \subseteq Slots
  BY DEF Occupied
<1>4. /\ IsFiniteSet(Occupied(r)) /\ Cardinality(Occupied(r)) <= Cardinality(Slots)
      /\ Cardinality(Occupied(r)) \in Nat
  BY <1>2, <1>3, FS_Subset, FS_CardinalityType
<1> QED
  BY <1>1, <1>2, <1>3, <1>4

LEMMA DelRefFields ==
  ASSUME NEW r \in Regs, NEW s \in Slots, s \in Occupied(r)
  PROVE  LET q == DelRef(r, s)
             n == r.devices[s].refcount
         IN  /\ q \in Regs /\ q.graph = r.graph /\ q.astray = r.astray
             /\ \A u \in Slots : u # s => q.devices[u] = r.devices[u]
             /\ n <= 1 => q.devices[s] = Empty /\ q.cur_dev = r.cur_dev - 1
             /\ n > 1  => /\ q.devices[s].refcount = n - 1 /\ SameSlot(q, r, s)
                          /\ q.cur_dev = r.cur_dev
<1> DEFINE q == DelRef(r, s)
           n == r.devices[s].refcount
<1>1. /\ r.devices \in [Slots -> DevRecs] /\ r.devices[s] \in DevRecs /\ n \in Nat
      /\ r.cur_dev \in Int
  BY SlotFacts
<1>2. r = [devices |-> r.devices, cur_dev |-> r.cur_dev, graph |-> r.graph, astray |-> r.astray]
      /\ r.graph \in [Graphs -> GraphRecs] /\ r.astray \in BOOLEAN
  BY DEF Regs
<1>3. CASE n <= 1
  <2>1. q = [r EXCEPT !.devices[s] = Empty, !.cur_dev = @ - 1]
    BY <1>1, <1>3 DEF DelRef, LastRef
  <2> DEFINE d == [r.devices EXCEPT ![s] = Empty]
             m == r.cur_dev - 1
  <2>2. q = [r EXCEPT !.devices = d, !.cur_dev = m]
    BY <2>1
  <2>3. d \in [Slots -> DevRecs] /\ m \in Int /\ d[s] = Empty
        /\ \A u \in Slots : u # s => d[u] = r.devices[u]
    BY <1>1, EmptyFacts
  <2> HIDE DEF q, d, m
  <2>4. q.devices = d /\ q.cur_dev = m /\ q.graph = r.graph /\ q.astray = r.astray /\ q \in Regs
    BY <1>2, <2>2, <2>3 DEF Regs
  <2> QED
    BY <1>1, <1>3, <2>3, <2>4 DEF q, m
<1>4. CASE n > 1
  <2>1. q = [r EXCEPT !.devices[s].refcount = @ - 1]
    BY <1>1, <1>4 DEF DelRef, LastRef
  <2> DEFINE v == [r.devices[s] EXCEPT !.refcount = n - 1]
             d == [r.devices EXCEPT ![s] = v]
  <2>2. q = [r EXCEPT !.devices = d]
    BY <2>1
  <2>3. v \in DevRecs /\ v.refcount = n - 1 /\ v.phydev = r.devices[s].phydev
        /\ v.sweep_cb_l = r.devices[s].sweep_cb_l /\ v.polled = r.devices[s].polled
        /\ v.stage = r.devices[s].stage
    BY <1>1, <1>4 DEF DevRecs
  <2> HIDE DEF v
  <2>4. d \in [Slots -> DevRecs] /\ d[s] = v /\ \A u \in Slots : u # s => d[u] = r.devices[u]
    BY <1>1, <2>3
  <2> HIDE DEF q, d
  <2>5. q.devices = d /\ q.cur_dev = r.cur_dev /\ q.graph = r.graph /\ q.astray = r.astray
        /\ q \in Regs
    BY <1>1, <1>2, <2>2, <2>4 DEF Regs
  <2> QED
    BY <1>1, <1>4, <2>3, <2>4, <2>5 DEF q, SameSlot
<1> QED
  BY <1>1, <1>3, <1>4

LEMMA AddRefFields ==
  ASSUME NEW r \in Regs, NEW s \in Slots, s \in Occupied(r)
  PROVE  LET q == AddRef(r, s)
         IN  /\ q \in Regs /\ q.graph = r.graph /\ q.astray = r.astray /\ q.cur_dev = r.cur_dev
             /\ \A u \in Slots : u # s => q.devices[u] = r.devices[u]
             /\ q.devices[s].refcount = r.devices[s].refcount + 1 /\ SameSlot(q, r, s)
<1> DEFINE q == AddRef(r, s)
           n == r.devices[s].refcount
<1>1. /\ r.devices \in [Slots -> DevRecs] /\ r.devices[s] \in DevRecs /\ n \in Nat
      /\ r.cur_dev \in Int
  BY SlotFacts
<1>2. r = [devices |-> r.devices, cur_dev |-> r.cur_dev, graph |-> r.graph, astray |-> r.astray]
      /\ r.graph \in [Graphs -> GraphRecs] /\ r.astray \in BOOLEAN
  BY DEF Regs
<1> DEFINE v == [r.devices[s] EXCEPT !.refcount = n + 1]
           d == [r.devices EXCEPT ![s] = v]
<1>3. q = [r EXCEPT !.devices = d]
  BY DEF AddRef
<1>4. v \in DevRecs /\ v.refcount = n + 1 /\ v.phydev = r.devices[s].phydev
      /\ v.sweep_cb_l = r.devices[s].sweep_cb_l /\ v.polled = r.devices[s].polled
      /\ v.stage = r.devices[s].stage
  BY <1>1 DEF DevRecs
<1> HIDE DEF v
<1>5. d \in [Slots -> DevRecs] /\ d[s] = v /\ \A u \in Slots : u # s => d[u] = r.devices[u]
  BY <1>1, <1>4
<1> HIDE DEF q, d
<1>6. q.devices = d /\ q.cur_dev = r.cur_dev /\ q.graph = r.graph /\ q.astray = r.astray
      /\ q \in Regs
  BY <1>1, <1>2, <1>3, <1>5 DEF Regs
<1> QED
  BY <1>4, <1>5, <1>6 DEF q, SameSlot
(* The reference is given back: the slot closes with the last one.         *)
LEMMA DelRefCounts ==
  ASSUME NEW r \in Regs, SlotsDiffer(r), NEW c, IsCount(c), NEW x, CountIs(r, c, x),
         NEW s \in Slots, c[s] > 0
  PROVE  LET q == DelRef(r, s)
         IN  /\ q \in Regs /\ SlotsDiffer(q) /\ CountIs(q, [c EXCEPT ![s] = @ - 1], x)
             /\ q.graph = r.graph /\ q.astray = r.astray
             /\ \A u \in Slots : q.devices[u] = Empty \/ SameSlot(q, r, u)
             /\ \A u \in Slots : u # s => q.devices[u] = r.devices[u]
             /\ s \in Occupied(r) /\ (c[s] > 1 => s \in Occupied(q))
             /\ Occupied(q) \subseteq Occupied(r)
<1> DEFINE q == DelRef(r, s)
           d == [c EXCEPT ![s] = @ - 1]
<1>1. /\ r.devices \in [Slots -> DevRecs] /\ r.devices[s].refcount = c[s] /\ c[s] \in Nat
  BY SlotFacts DEF CountIs, IsCount
<1>2. s \in Occupied(r)
  BY <1>1, EmptyFacts DEF Occupied
<1>3. /\ q \in Regs /\ q.graph = r.graph /\ q.astray = r.astray
      /\ \A u \in Slots : u # s => q.devices[u] = r.devices[u]
      /\ c[s] <= 1 => q.devices[s] = Empty /\ q.cur_dev = r.cur_dev - 1
      /\ c[s] > 1  => /\ q.devices[s].refcount = c[s] - 1 /\ SameSlot(q, r, s)
                      /\ q.cur_dev = r.cur_dev
  BY <1>1, <1>2, DelRefFields
<1>4. /\ d[s] = c[s] - 1 /\ \A u \in Slots : u # s => d[u] = c[u]
      /\ \A u \in Slots : d[u] \in Nat
  BY <1>1 DEF IsCount
<1>a. Occupied(q) \subseteq Slots /\ Occupied(r) \subseteq Slots
  BY DEF Occupied
<1> HIDE DEF q, d
<1>5. Occupied(r) \subseteq Slots /\ IsFiniteSet(Occupied(r))
  BY OccupiedFinite
<1>6. \A u \in Slots : u # s => (u \in Occupied(q) <=> u \in Occupied(r))
  BY <1>3 DEF Occupied
<1>7. CASE c[s] <= 1
  <2>1. c[s] = 1 /\ q.devices[s] = Empty /\ q.cur_dev = r.cur_dev - 1 /\ d[s] = 0
    BY <1>1, <1>3, <1>4, <1>7
  <2>2. Occupied(q) = Occupied(r) \ {s}
    BY <1>6, <2>1 DEF Occupied
  <2>3. Cardinality(Occupied(q)) = Cardinality(Occupied(r)) - 1
    BY <1>2, <1>5, <2>2, FS_RemoveElement
  <2>4. SlotsDiffer(q)
    <3>1. \A u \in Occupied(q) : u \in Slots /\ u # s /\ u \in Occupied(r)
      BY <1>a, <2>2
    <3>2. ASSUME NEW u \in Slots PROVE u \in Occupied(q) <=> q.devices[u].phydev # NoDevice
      <4>1. CASE u = s
        BY <2>1, <2>2, <4>1, EmptyFacts
      <4>2. CASE u # s
        BY <1>3, <2>2, <4>2 DEF SlotsDiffer
      <4> QED
        BY <4>1, <4>2
    <3>3. ASSUME NEW u \in Occupied(q), NEW v \in Occupied(q),
                 q.devices[u].phydev = q.devices[v].phydev
          PROVE  u = v
      <4>1. q.devices[u] = r.devices[u] /\ q.devices[v] = r.devices[v]
        BY <1>3, <3>1
      <4> QED
        BY <3>1, <3>3, <4>1 DEF SlotsDiffer
    <3>4. q.cur_dev = Cardinality(Occupied(q))
      BY <2>1, <2>3 DEF SlotsDiffer
    <3> QED
      BY <3>2, <3>3, <3>4 DEF SlotsDiffer
  <2>5. CountIs(q, d, x)
    <3>1. ASSUME NEW u \in Slots PROVE q.devices[u].refcount = d[u]
      <4>1. CASE u = s
        BY <2>1, <4>1, EmptyFacts
      <4>2. CASE u # s
        BY <1>3, <1>4, <4>2 DEF CountIs
      <4> QED
        BY <4>1, <4>2
    <3>2. ASSUME NEW u \in Occupied(q) PROVE u = x \/ d[u] > 0
      <4>1. u \in Slots /\ u # s /\ u \in Occupied(r)
        BY <1>a, <2>2
      <4> QED
        BY <1>4, <4>1 DEF CountIs
    <3> QED
      BY <3>1, <3>2 DEF CountIs
  <2>6. \A u \in Slots : q.devices[u] = Empty \/ SameSlot(q, r, u)
    BY <1>3, <2>1 DEF SameSlot
  <2> QED
    BY <1>2, <1>3, <2>1, <2>2, <2>4, <2>5, <2>6 DEF q, d
<1>8. CASE c[s] > 1
  <2>1. /\ q.devices[s].refcount = c[s] - 1 /\ SameSlot(q, r, s) /\ q.cur_dev = r.cur_dev
        /\ d[s] = c[s] - 1
    BY <1>3, <1>4, <1>8
  <2>2. Occupied(q) = Occupied(r)
    <3>1. s \in Occupied(q)
      BY <1>1, <1>8, <2>1, EmptyFacts DEF Occupied
    <3> QED
      BY <1>2, <1>5, <1>6, <3>1 DEF Occupied
  <2>3. \A u \in Slots : SameSlot(q, r, u)
    BY <1>3, <2>1 DEF SameSlot
  <2>4. SlotsDiffer(q)
    BY <1>3, <1>a, <2>1, <2>2, <2>3 DEF SlotsDiffer, SameSlot
  <2>5. CountIs(q, d, x)
    <3>1. \A u \in Slots : q.devices[u].refcount = d[u]
      BY <1>3, <1>4, <2>1 DEF CountIs
    <3>2. ASSUME NEW u \in Occupied(q) PROVE u = x \/ d[u] > 0
      BY <1>1, <1>4, <1>8, <2>2 DEF CountIs, Occupied
    <3> QED
      BY <3>1, <3>2 DEF CountIs
  <2> QED
    BY <1>2, <1>3, <2>2, <2>3, <2>4, <2>5 DEF q, d
<1> QED
  BY <1>1, <1>7, <1>8

LEMMA AddRefCounts ==
  ASSUME NEW r \in Regs, SlotsDiffer(r), NEW c, IsCount(c), NEW x, CountIs(r, c, x),
         NEW s \in Slots, s \in Occupied(r)
  PROVE  LET q == AddRef(r, s)
         IN  /\ q \in Regs /\ SlotsDiffer(q) /\ CountIs(q, [c EXCEPT ![s] = @ + 1], x)
             /\ q.graph = r.graph /\ q.astray = r.astray
             /\ \A u \in Slots : SameSlot(q, r, u)
             /\ Occupied(q) = Occupied(r)
<1> DEFINE q == AddRef(r, s)
           d == [c EXCEPT ![s] = @ + 1]
<1>1. /\ r.devices \in [Slots -> DevRecs] /\ r.devices[s].refcount = c[s] /\ c[s] \in Nat
  BY SlotFacts DEF CountIs, IsCount
<1>3. /\ q \in Regs /\ q.graph = r.graph /\ q.astray = r.astray /\ q.cur_dev = r.cur_dev
      /\ \A u \in Slots : u # s => q.devices[u] = r.devices[u]
      /\ q.devices[s].refcount = c[s] + 1 /\ SameSlot(q, r, s)
  BY <1>1, AddRefFields
<1>4. d[s] = c[s] + 1 /\ \A u \in Slots : u # s => d[u] = c[u]
  BY <1>1 DEF IsCount
<1>a. Occupied(q) \subseteq Slots /\ Occupied(r) \subseteq Slots
  BY DEF Occupied
<1> HIDE DEF q, d
<1>5. Occupied(q) = Occupied(r)
  <2>1. s \in Occupied(q)
    BY <1>1, <1>3, EmptyFacts DEF Occupied
  <2>2. \A u \in Slots : u # s => (u \in Occupied(q) <=> u \in Occupied(r))
    BY <1>3 DEF Occupied
  <2> QED
    BY <2>1, <2>2 DEF Occupied
<1>6. \A u \in Slots : SameSlot(q, r, u)
  BY <1>3 DEF SameSlot
<1>7. SlotsDiffer(q)
  BY <1>3, <1>a, <1>5, <1>6 DEF SlotsDiffer, SameSlot
<1>8. CountIs(q, d, x)
  <2>1. \A u \in Slots : q.devices[u].refcount = d[u]
    BY <1>3, <1>4 DEF CountIs
  <2>2. ASSUME NEW u \in Occupied(q) PROVE u = x \/ d[u] > 0
    <3>1. CASE u = s
      BY <1>1, <1>4, <3>1
    <3>2. CASE u # s
      BY <1>4, <1>5, <3>2 DEF CountIs, Occupied
    <3> QED
      BY <3>1, <3>2
  <2> QED
    BY <2>1, <2>2 DEF CountIs
<1> QED
  BY <1>3, <1>5, <1>6, <1>7, <1>8 DEF q, d
-----------------------------------------------------------------------------
(***************************************************************************)
(* The users of a slot when a graph moves to another one, or to none.      *)
(***************************************************************************)
LEMMA UsersFacts ==
  ASSUME NEW r, NEW cnt, IsCount(cnt)
  PROVE  /\ IsFiniteSet(Graphs) /\ IsCount(UsersOf(r, cnt))
         /\ \A s \in Slots : /\ IsFiniteSet(Bound(r, s)) /\ Cardinality(Bound(r, s)) \in Nat
                             /\ UsersOf(r, cnt)[s] = Cardinality(Bound(r, s)) + cnt[s]
                             /\ Bound(r, s) # {} => UsersOf(r, cnt)[s] > 0
                             /\ UsersOf(r, cnt)[s] = 0 => Bound(r, s) = {} /\ cnt[s] = 0
<1>1. IsFiniteSet(Graphs)
  <2>1. IsFiniteSet(1 .. NumGraphs)
    BY BoundsAssumption, FS_Interval
  <2> QED
    BY <2>1, TabsAssumption, FS_Product DEF Graphs
<1>2. ASSUME NEW s \in Slots
      PROVE  /\ IsFiniteSet(Bound(r, s)) /\ Cardinality(Bound(r, s)) \in Nat
             /\ Cardinality(Bound(r, s)) = 0 <=> Bound(r, s) = {}
  <2>1. Bound(r, s) \subseteq Graphs
    BY DEF Bound
  <2>2. IsFiniteSet(Bound(r, s))
    BY <1>1, <2>1, FS_Subset
  <2> QED
    BY <2>2, FS_CardinalityType, FS_EmptySet
<1>3. \A s \in Slots : cnt[s] \in Nat
  BY DEF IsCount
<1> QED
  BY <1>1, <1>2, <1>3 DEF UsersOf, IsCount

LEMMA OneInOrOut ==
  ASSUME NEW B, IsFiniteSet(B), NEW w
  PROVE  /\ w \notin B => B \ {w} = B /\ Cardinality(B \cup {w}) = Cardinality(B) + 1
         /\ w \in B => B \cup {w} = B /\ Cardinality(B \ {w}) = Cardinality(B) - 1
BY FS_AddElement, FS_RemoveElement

Moves(q, r, w, g) ==
  /\ r.graph \in [Graphs -> GraphRecs] /\ g \in GraphRecs
  /\ q.graph = [r.graph EXCEPT ![w] = g]

(* How many users slot s has more than before.                             *)
Gain(s, old, new) ==
  IF s = new THEN IF s = old THEN 0 ELSE 1 ELSE IF s = old THEN -1 ELSE 0

BoundMoved(q, r, w, g, cnt, s) ==
  /\ Bound(q, s) = IF s = g.wdr_slot THEN Bound(r, s) \cup {w} ELSE Bound(r, s) \ {w}
  /\ s = r.graph[w].wdr_slot <=> w \in Bound(r, s)
  /\ UsersOf(q, cnt)[s] = UsersOf(r, cnt)[s] + Gain(s, r.graph[w].wdr_slot, g.wdr_slot)
  /\ s = r.graph[w].wdr_slot => UsersOf(r, cnt)[s] > 0

LEMMA BoundMoves ==
  ASSUME NEW r, NEW q, NEW w \in Graphs, NEW g, Moves(q, r, w, g), NEW cnt, IsCount(cnt)
  PROVE  \A s \in Slots : BoundMoved(q, r, w, g, cnt, s)
<1> SUFFICES ASSUME NEW s \in Slots PROVE BoundMoved(q, r, w, g, cnt, s)
  OBVIOUS
<1> DEFINE old == r.graph[w].wdr_slot
           new == g.wdr_slot
           B == Bound(r, s)
           C == Bound(q, s)
<1>1. q.graph[w] = g /\ \A v \in Graphs : v # w => q.graph[v] = r.graph[v]
  BY DEF Moves
<1>2. C = IF s = new THEN B \cup {w} ELSE B \ {w}
  BY <1>1 DEF Bound
<1>3. s = old <=> w \in B
  BY DEF Bound
<1>4. /\ IsFiniteSet(B) /\ Cardinality(B) \in Nat
      /\ UsersOf(r, cnt)[s] = Cardinality(B) + cnt[s]
      /\ UsersOf(q, cnt)[s] = Cardinality(C) + cnt[s]
      /\ B # {} => UsersOf(r, cnt)[s] > 0
      /\ cnt[s] \in Nat
  BY UsersFacts DEF IsCount
<1> HIDE DEF old, new, B, C
<1>5. Cardinality(C) = Cardinality(B) + Gain(s, old, new)
  <2>1. /\ w \notin B => B \ {w} = B /\ Cardinality(B \cup {w}) = Cardinality(B) + 1
        /\ w \in B => B \cup {w} = B /\ Cardinality(B \ {w}) = Cardinality(B) - 1
    BY <1>4, OneInOrOut
  <2>2. CASE s = new /\ s = old
    <3>1. C = B /\ Gain(s, old, new) = 0
      BY <1>2, <1>3, <2>1, <2>2 DEF Gain
    <3> QED
      BY <1>4, <2>1, <3>1
  <2>3. CASE s = new /\ s # old
    <3>1. C = B \cup {w} /\ w \notin B /\ Gain(s, old, new) = 1
      BY <1>2, <1>3, <2>1, <2>3 DEF Gain
    <3> QED
      BY <1>4, <2>1, <3>1
  <2>4. CASE s # new /\ s = old
    <3>1. C = B \ {w} /\ w \in B /\ Gain(s, old, new) = -1
      BY <1>2, <1>3, <2>1, <2>4 DEF Gain
    <3> QED
      BY <1>4, <2>1, <3>1
  <2>5. CASE s # new /\ s # old
    <3>1. C = B /\ Gain(s, old, new) = 0
      BY <1>2, <1>3, <2>1, <2>5 DEF Gain
    <3> QED
      BY <1>4, <2>1, <3>1
  <2> QED
    BY <2>2, <2>3, <2>4, <2>5
<1>6. Gain(s, old, new) \in Int
  BY DEF Gain
<1>7. UsersOf(q, cnt)[s] = UsersOf(r, cnt)[s] + Gain(s, old, new)
  BY <1>4, <1>5, <1>6
<1>8. s = old => UsersOf(r, cnt)[s] > 0
  BY <1>3, <1>4
<1> QED
  BY <1>2, <1>3, <1>7, <1>8 DEF old, new, B, C, BoundMoved
(* What a graph is given is written after the slots were settled.          *)
Regraphs(q, p, r, w, g, cnt, x) ==
  /\ r \in Regs /\ GraphsOK(r) /\ p \in Regs /\ SlotsDiffer(p) /\ p.graph = r.graph
  /\ \A u \in Slots : p.devices[u] = Empty \/ SameSlot(p, r, u)
  /\ w \in Graphs /\ g \in GraphRecs /\ GraphOK(p, g)
  /\ q = [p EXCEPT !.graph[w] = g]
  /\ CountIs(p, UsersOf(q, cnt), x)

LEMMA Regraphed ==
  ASSUME NEW q, NEW p, NEW r, NEW w, NEW g, NEW cnt, IsCount(cnt), NEW x,
         Regraphs(q, p, r, w, g, cnt, x)
  PROVE  /\ RegOK(q, cnt, x) /\ q.devices = p.devices /\ q.cur_dev = p.cur_dev
         /\ q.astray = p.astray /\ Occupied(q) = Occupied(p)
         /\ q.graph = [r.graph EXCEPT ![w] = g]
<1>0. /\ r \in Regs /\ GraphsOK(r) /\ p \in Regs /\ SlotsDiffer(p) /\ p.graph = r.graph
      /\ \A u \in Slots : p.devices[u] = Empty \/ SameSlot(p, r, u)
      /\ w \in Graphs /\ g \in GraphRecs /\ GraphOK(p, g)
      /\ q = [p EXCEPT !.graph[w] = g]
      /\ CountIs(p, UsersOf(q, cnt), x)
  BY DEF Regraphs
<1> DEFINE G == [r.graph EXCEPT ![w] = g]
<1>1. p = [devices |-> p.devices, cur_dev |-> p.cur_dev, graph |-> p.graph, astray |-> p.astray]
      /\ p.devices \in [Slots -> DevRecs] /\ p.cur_dev \in Int /\ p.astray \in BOOLEAN
      /\ r.graph \in [Graphs -> GraphRecs]
  BY <1>0 DEF Regs
<1>2. q = [p EXCEPT !.graph = G]
  BY <1>0
<1>3. G \in [Graphs -> GraphRecs] /\ G[w] = g /\ \A v \in Graphs : v # w => G[v] = r.graph[v]
  BY <1>0, <1>1
<1> HIDE DEF G
<1>4. /\ q.devices = p.devices /\ q.cur_dev = p.cur_dev /\ q.astray = p.astray /\ q.graph = G
      /\ q \in Regs
  BY <1>0, <1>1, <1>2, <1>3 DEF Regs
<1>5. Occupied(q) = Occupied(p)
  BY <1>4 DEF Occupied
<1>6. SlotsDiffer(q)
  BY <1>0, <1>4, <1>5 DEF SlotsDiffer
<1>7. CountIs(q, UsersOf(q, cnt), x)
  BY <1>0, <1>4, <1>5 DEF CountIs
<1>8. ASSUME NEW v \in Graphs PROVE GraphOK(q, q.graph[v])
  <2>1. CASE v = w
    BY <1>0, <1>3, <1>4, <2>1 DEF GraphOK
  <2>2. CASE v # w
    <3> DEFINE h == r.graph[v]
               u == h.wdr_slot
    <3>1. q.graph[v] = h /\ GraphOK(r, h) /\ h \in GraphRecs
      BY <1>0, <1>1, <1>3, <1>4, <2>2 DEF GraphsOK
    <3>2. ASSUME u # -1 PROVE h.phydev = q.devices[u].phydev
      <4>1. u \in Slots /\ v \in Bound(q, u) /\ h.phydev = r.devices[u].phydev
        BY <3>1, <3>2 DEF GraphRecs, GraphOK, Bound
      <4>2. UsersOf(q, cnt)[u] > 0
        BY <4>1, UsersFacts
      <4> HIDE DEF u
      <4>3. q.devices[u].refcount > 0
        BY <1>7, <4>1, <4>2 DEF CountIs
      <4>4. q.devices[u] # Empty
        BY <4>3, EmptyFacts
      <4> QED
        BY <1>0, <1>4, <4>1, <4>4 DEF SameSlot
    <3> HIDE DEF h
    <3> QED
      BY <3>1, <3>2 DEF GraphOK
  <2> QED
    BY <2>1, <2>2
<1> QED
  BY <1>4, <1>5, <1>6, <1>7, <1>8 DEF RegOK, GraphsOK, G

(* A graph gives its slot up: it failed, or it is destroyed.               *)
Left(r, w, g) == [DelRef(r, r.graph[w].wdr_slot) EXCEPT !.graph[w] = g]

LEMMA GraphConstants ==
  /\ Gone \in GraphRecs /\ Unbound \in GraphRecs
  /\ Gone.wdr_slot = -1 /\ Unbound.wdr_slot = -1
  /\ Gone.alive = FALSE /\ Unbound.alive = TRUE
  /\ Gone.shown = {} /\ Unbound.shown = {}
  /\ Gone.phydev = NoDevice /\ Unbound.phydev = NoDevice
  /\ \A r : GraphOK(r, Gone) /\ GraphOK(r, Unbound)
BY DEF Gone, Unbound, GraphRecs, GraphOK

LEMMA LeftKeeps ==
  ASSUME NEW r, NEW cnt, IsCount(cnt), NEW x, RegOK(r, cnt, x),
         NEW w \in Graphs, NEW g \in {Gone, Unbound}
  PROVE  LET q == Left(r, w, g)
         IN  /\ RegOK(q, cnt, x) /\ q.astray = r.astray
             /\ q.graph = [r.graph EXCEPT ![w] = g]
             /\ \A u \in Slots : q.devices[u] = Empty \/ SameSlot(q, r, u)
             /\ Occupied(q) \subseteq Occupied(r)
<1> DEFINE old == r.graph[w].wdr_slot
           p == DelRef(r, old)
           q == Left(r, w, g)
           c == UsersOf(r, cnt)
           d == UsersOf(q, cnt)
<1>1. /\ r \in Regs /\ SlotsDiffer(r) /\ CountIs(r, c, x) /\ GraphsOK(r)
      /\ g \in GraphRecs /\ g.wdr_slot = -1 /\ \A v : GraphOK(v, g)
      /\ IsCount(c) /\ IsCount(d)
  BY GraphConstants, UsersFacts DEF RegOK
<1>2. r.graph \in [Graphs -> GraphRecs] /\ old \in Slots \cup {-1}
  BY <1>1 DEF Regs, GraphRecs
<1>3. q = [p EXCEPT !.graph[w] = g]
  BY DEF Left
<1>4. p \in Regs /\ p.graph = r.graph
  <2>1. CASE old \in Occupied(r)
    BY <1>1, <2>1, DelRefFields DEF Occupied
  <2>2. CASE old \notin Occupied(r)
    BY <1>1, <2>2 DEF DelRef
  <2> QED
    BY <2>1, <2>2
<1>5. Moves(q, r, w, g)
  <2>1. q.graph = [r.graph EXCEPT ![w] = g]
    <3> HIDE DEF p, q
    <3> QED
      BY <1>3, <1>4 DEF Regs
  <2> QED
    BY <1>1, <1>2, <2>1 DEF Moves
<1> HIDE DEF p, q, old
<1>6. ASSUME NEW s \in Slots
      PROVE  /\ d[s] = c[s] + Gain(s, old, -1)
             /\ s = old => c[s] > 0
  <2>1. BoundMoved(q, r, w, g, cnt, s)
    BY <1>5, BoundMoves
  <2>2. g.wdr_slot = -1
    BY <1>1
  <2> QED
    BY <2>1, <2>2 DEF old, BoundMoved
<1> HIDE DEF c, d
<1>7. /\ SlotsDiffer(p) /\ CountIs(p, d, x) /\ p.astray = r.astray
      /\ \A u \in Slots : p.devices[u] = Empty \/ SameSlot(p, r, u)
      /\ Occupied(p) \subseteq Occupied(r)
  <2>1. CASE old = -1
    <3>1. p = r
      BY <2>1, EmptyFacts DEF p, DelRef, Occupied
    <3>2. ASSUME NEW s \in Slots PROVE d[s] = c[s]
      <4>1. Gain(s, old, -1) = 0 /\ c[s] \in Nat
        BY <1>1, <2>1, EmptyFacts DEF Gain, IsCount
      <4> QED
        BY <1>6, <4>1
    <3>3. CountIs(p, d, x)
      BY <1>1, <3>1, <3>2 DEF CountIs, Occupied
    <3> QED
      BY <1>1, <3>1, <3>3 DEF SameSlot
  <2>2. CASE old \in Slots
    <3>1. c[old] > 0
      BY <1>6, <2>2
    <3>2. d = [c EXCEPT ![old] = @ - 1]
      <4>1. ASSUME NEW s \in Slots PROVE d[s] = [c EXCEPT ![old] = @ - 1][s]
        <5>1. Gain(s, old, -1) = (IF s = old THEN -1 ELSE 0) /\ c[s] \in Nat
          BY <1>1, EmptyFacts DEF Gain, IsCount
        <5> QED
          BY <1>1, <1>6, <5>1 DEF IsCount
      <4> QED
        BY <1>1, <4>1 DEF IsCount
    <3> QED
      BY <1>1, <2>2, <3>1, <3>2, DelRefCounts DEF p
  <2> QED
    BY <1>2, <2>1, <2>2
<1>8. /\ RegOK(q, cnt, x) /\ q.devices = p.devices /\ q.astray = p.astray
      /\ Occupied(q) = Occupied(p) /\ q.graph = [r.graph EXCEPT ![w] = g]
  <2>1. Regraphs(q, p, r, w, g, cnt, x)
    BY <1>1, <1>3, <1>4, <1>7 DEF Regraphs, d
  <2> QED
    BY <2>1, Regraphed
<1>9. \A u \in Slots : q.devices[u] = Empty \/ SameSlot(q, r, u)
  BY <1>7, <1>8 DEF SameSlot
<1> QED
  BY <1>7, <1>8, <1>9 DEF q
(* A graph moves to an open slot.                                          *)
LEMMA LinkedKeeps ==
  ASSUME NEW r, NEW cnt, IsCount(cnt), NEW x, RegOK(r, cnt, x),
         NEW w \in Graphs, r.graph[w].alive, NEW s \in Slots, s \in Occupied(r)
  PROVE  LET q == Linked(r, w, s)
             g == [r.graph[w] EXCEPT !.wdr_slot = s, !.phydev = r.devices[s].phydev]
         IN  /\ RegOK(q, cnt, x) /\ q.astray = r.astray
             /\ g \in GraphRecs /\ q.graph = [r.graph EXCEPT ![w] = g]
             /\ s \in Occupied(q) /\ SameSlot(q, r, s)
             /\ r.graph[w].wdr_slot = -1 =>
                  Occupied(q) = Occupied(r) /\ \A u \in Slots : SameSlot(q, r, u)
<1> DEFINE old == r.graph[w].wdr_slot
           a == AddRef(r, s)
           held == DelRef(a, old)
           q == Linked(r, w, s)
           g == [r.graph[w] EXCEPT !.wdr_slot = s, !.phydev = r.devices[s].phydev]
           c == UsersOf(r, cnt)
           c1 == [c EXCEPT ![s] = @ + 1]
           d == UsersOf(q, cnt)
<1>1. /\ r \in Regs /\ SlotsDiffer(r) /\ CountIs(r, c, x) /\ GraphsOK(r)
      /\ IsCount(c) /\ IsCount(d)
  BY UsersFacts DEF RegOK
<1>2. /\ r.graph \in [Graphs -> GraphRecs] /\ old \in Slots \cup {-1}
      /\ r.devices \in [Slots -> DevRecs] /\ r.graph[w] \in GraphRecs
      /\ r.devices[s].phydev \in Devices \cup {NoDevice}
  BY <1>1 DEF Regs, GraphRecs, DevRecs
<1>3. /\ g \in GraphRecs /\ g.wdr_slot = s /\ g.phydev = r.devices[s].phydev
      /\ g.alive = r.graph[w].alive
  BY <1>2 DEF GraphRecs
<1>4. /\ a \in Regs /\ SlotsDiffer(a) /\ CountIs(a, c1, x) /\ a.graph = r.graph
      /\ a.astray = r.astray /\ Occupied(a) = Occupied(r)
      /\ \A u \in Slots : SameSlot(a, r, u)
  <2> HIDE DEF a, c
  <2> QED
    BY <1>1, AddRefCounts DEF a
<1>5. /\ IsCount(c1) /\ c1[s] = c[s] + 1 /\ \A u \in Slots : u # s => c1[u] = c[u]
      /\ \A u \in Slots : c[u] \in Nat /\ c1[u] \in Nat
  BY <1>1 DEF IsCount
<1> HIDE DEF a, c, c1
<1>6. held \in Regs /\ held.graph = r.graph
  <2>1. CASE old \in Occupied(a)
    BY <1>4, <2>1, DelRefFields DEF Occupied
  <2>2. CASE old \notin Occupied(a)
    BY <1>4, <2>2 DEF DelRef
  <2> QED
    BY <2>1, <2>2
<1>7. q = [held EXCEPT !.graph[w].wdr_slot = s, !.graph[w].phydev = held.devices[s].phydev]
  BY DEF Linked, a
<1> DEFINE hd == held.devices[s].phydev
           h == [r.graph[w] EXCEPT !.wdr_slot = s, !.phydev = hd]
<1>8. q = [held EXCEPT !.graph[w] = h] /\ q.graph = [r.graph EXCEPT ![w] = h] /\ h \in GraphRecs
  <2>1. hd \in Devices \cup {NoDevice}
    BY <1>6 DEF Regs, DevRecs
  <2>2. held = [devices |-> held.devices, cur_dev |-> held.cur_dev, graph |-> held.graph,
                astray |-> held.astray]
    BY <1>6 DEF Regs
  <2> HIDE DEF held, q, hd
  <2>3. q = [held EXCEPT !.graph = [r.graph EXCEPT ![w] = h]]
    BY <1>2, <1>6, <1>7, <2>2 DEF hd
  <2>4. h \in GraphRecs
    BY <1>2, <2>1 DEF GraphRecs
  <2> HIDE DEF h
  <2> QED
    BY <1>2, <1>6, <2>2, <2>3, <2>4
<1>9. h.wdr_slot = s
  BY <1>2 DEF GraphRecs
<1>10. Moves(q, r, w, h)
  BY <1>2, <1>8 DEF Moves
<1> HIDE DEF held, q, d, old, h, hd
<1>11. ASSUME NEW u \in Slots
       PROVE  /\ d[u] = c[u] + Gain(u, old, s)
              /\ u = old => c[u] > 0
  <2>1. BoundMoved(q, r, w, h, cnt, u)
    BY <1>10, BoundMoves
  <2> QED
    BY <1>9, <2>1 DEF old, c, d, BoundMoved
<1>12. /\ SlotsDiffer(held) /\ CountIs(held, d, x) /\ held.astray = r.astray
       /\ \A u \in Slots : held.devices[u] = Empty \/ SameSlot(held, r, u)
       /\ s \in Occupied(held)
       /\ old = -1 => Occupied(held) = Occupied(r) /\ \A u \in Slots : SameSlot(held, r, u)
  <2>1. CASE old = -1
    <3>1. held = a
      BY <2>1, EmptyFacts DEF held, DelRef, Occupied
    <3>2. ASSUME NEW u \in Slots PROVE d[u] = c1[u]
      <4>1. Gain(u, old, s) = IF u = s THEN 1 ELSE 0
        BY <2>1, EmptyFacts DEF Gain
      <4> QED
        BY <1>5, <1>11, <4>1
    <3>3. CountIs(held, d, x)
      BY <1>4, <3>1, <3>2 DEF CountIs, Occupied
    <3> QED
      BY <1>4, <3>1, <3>3
  <2>2. CASE old \in Slots
    <3>1. c1[old] > 0 /\ old # -1
      BY <1>5, <1>11, <2>2, EmptyFacts
    <3>2. d = [c1 EXCEPT ![old] = @ - 1]
      <4>1. ASSUME NEW u \in Slots PROVE d[u] = [c1 EXCEPT ![old] = @ - 1][u]
        <5>1. [c1 EXCEPT ![old] = @ - 1][u] = IF u = old THEN c1[u] - 1 ELSE c1[u]
          BY <1>5 DEF IsCount
        <5>2. Gain(u, old, s) = IF u = s THEN IF u = old THEN 0 ELSE 1
                                ELSE IF u = old THEN -1 ELSE 0
          BY DEF Gain
        <5>3. c1[u] = (IF u = s THEN c[u] + 1 ELSE c[u]) /\ c[u] \in Nat
          BY <1>5
        <5> QED
          BY <1>11, <5>1, <5>2, <5>3
      <4> QED
        BY <1>1, <1>5, <4>1 DEF IsCount
    <3>3. /\ SlotsDiffer(held) /\ CountIs(held, d, x) /\ held.astray = a.astray
          /\ \A u \in Slots : held.devices[u] = Empty \/ SameSlot(held, a, u)
          /\ \A u \in Slots : u # old => held.devices[u] = a.devices[u]
          /\ c1[old] > 1 => old \in Occupied(held)
      BY <1>4, <1>5, <2>2, <3>1, <3>2, DelRefCounts DEF held
    <3>4. s \in Occupied(held)
      <4>1. CASE s = old
        <5>1. c1[s] > 1
          BY <1>5, <1>11, <4>1
        <5> QED
          BY <3>3, <4>1, <5>1
      <4>2. CASE s # old
        BY <1>4, <3>3, <4>2 DEF Occupied
      <4> QED
        BY <4>1, <4>2
    <3>5. \A u \in Slots : held.devices[u] = Empty \/ SameSlot(held, r, u)
      BY <1>4, <3>3 DEF SameSlot
    <3> QED
      BY <1>4, <3>1, <3>3, <3>4, <3>5
  <2> QED
    BY <1>2, <2>1, <2>2
<1>13. SameSlot(held, r, s) /\ hd = r.devices[s].phydev
  BY <1>12 DEF Occupied, SameSlot, hd
<1>14. h = g
  BY <1>13 DEF h
<1>15. GraphOK(held, h)
  <2>1. h.alive
    BY <1>3, <1>14
  <2>2. h.wdr_slot = s /\ h.phydev = held.devices[s].phydev /\ s # -1
    BY <1>3, <1>13, <1>14, EmptyFacts DEF hd
  <2> QED
    BY <2>1, <2>2 DEF GraphOK
<1>16. /\ RegOK(q, cnt, x) /\ q.devices = held.devices /\ q.astray = held.astray
       /\ Occupied(q) = Occupied(held) /\ q.graph = [r.graph EXCEPT ![w] = h]
  <2>1. Regraphs(q, held, r, w, h, cnt, x)
    BY <1>1, <1>6, <1>8, <1>12, <1>15 DEF Regraphs, d
  <2> QED
    BY <2>1, Regraphed
<1>17. \A u \in Slots : SameSlot(held, r, u) => SameSlot(q, r, u)
  BY <1>16 DEF SameSlot
<1> QED
  BY <1>3, <1>12, <1>13, <1>14, <1>16, <1>17 DEF q, old
-----------------------------------------------------------------------------
(***************************************************************************)
(* The changes that move no graph and count no reference.                  *)
(***************************************************************************)
Alike(q, r) ==
  /\ q \in Regs /\ q.cur_dev = r.cur_dev
  /\ \A u \in Slots : /\ q.devices[u].phydev = r.devices[u].phydev
                      /\ q.devices[u].refcount = r.devices[u].refcount
                      /\ r.devices[u] = Empty => q.devices[u] = Empty
  /\ \A w \in Graphs : LET g == q.graph[w]
                           h == r.graph[w]
                       IN  /\ g.alive = h.alive /\ g.wdr_slot = h.wdr_slot /\ g.phydev = h.phydev
                           /\ h.wdr_slot = -1 => g = h

LEMMA AlikeKeeps ==
  ASSUME NEW r, NEW cnt, IsCount(cnt), NEW x, RegOK(r, cnt, x), NEW q, Alike(q, r)
  PROVE  /\ RegOK(q, cnt, x) /\ Occupied(q) = Occupied(r)
         /\ \A s \in Slots : Bound(q, s) = Bound(r, s)
<1>1. /\ r \in Regs /\ SlotsDiffer(r) /\ CountIs(r, UsersOf(r, cnt), x) /\ GraphsOK(r)
      /\ q \in Regs
  BY DEF RegOK, Alike
<1>2. Occupied(q) \subseteq Slots /\ Occupied(r) \subseteq Slots
  BY DEF Occupied
<1>3. Occupied(q) = Occupied(r)
  <2>1. ASSUME NEW u \in Slots PROVE u \in Occupied(q) <=> u \in Occupied(r)
    <3>1. CASE u \in Occupied(r)
      <4>1. q.devices[u].phydev # NoDevice
        BY <1>1, <3>1 DEF SlotsDiffer, Alike
      <4> QED
        BY <3>1, <4>1, EmptyFacts DEF Occupied
    <3>2. CASE u \notin Occupied(r)
      BY <3>2 DEF Occupied, Alike
    <3> QED
      BY <3>1, <3>2
  <2> QED
    BY <1>2, <2>1
<1>4. \A s \in Slots : Bound(q, s) = Bound(r, s)
  BY DEF Bound, Alike
<1>5. \A s \in Slots : UsersOf(q, cnt)[s] = UsersOf(r, cnt)[s]
  BY <1>4 DEF UsersOf
<1>6. SlotsDiffer(q)
  BY <1>1, <1>2, <1>3 DEF SlotsDiffer, Alike
<1>7. CountIs(q, UsersOf(q, cnt), x)
  BY <1>1, <1>2, <1>3, <1>5 DEF CountIs, Alike
<1>8. ASSUME NEW w \in Graphs PROVE GraphOK(q, q.graph[w])
  <2> DEFINE g == q.graph[w]
             h == r.graph[w]
  <2>1. GraphOK(r, h) /\ h \in GraphRecs
    BY <1>1 DEF GraphsOK, Regs
  <2>2. /\ g.alive = h.alive /\ g.wdr_slot = h.wdr_slot /\ g.phydev = h.phydev
        /\ h.wdr_slot = -1 => g = h
    BY DEF Alike
  <2>3. h.wdr_slot # -1 => h.wdr_slot \in Slots
    BY <2>1 DEF GraphRecs
  <2> SUFFICES GraphOK(q, g)
    OBVIOUS
  <2> HIDE DEF g, h
  <2>4. CASE h.wdr_slot = -1
    BY <2>1, <2>2, <2>4 DEF GraphOK
  <2>5. CASE h.wdr_slot # -1
    <3>1. h.alive
      BY <2>1, <2>5, GraphConstants DEF GraphOK
    <3>2. q.devices[h.wdr_slot].phydev = r.devices[h.wdr_slot].phydev
      BY <2>3, <2>5 DEF Alike
    <3> QED
      BY <2>1, <2>2, <2>5, <3>1, <3>2 DEF GraphOK
  <2> QED
    BY <2>4, <2>5
<1> QED
  BY <1>1, <1>3, <1>4, <1>6, <1>7, <1>8 DEF RegOK, GraphsOK

(* A slot is rewritten.                                                    *)
LEMMA SlotWritten ==
  ASSUME NEW r \in Regs, NEW s \in Slots, r.devices[s] # Empty, NEW v \in DevRecs,
         v.phydev = r.devices[s].phydev, v.refcount = r.devices[s].refcount,
         NEW q, q = [r EXCEPT !.devices[s] = v]
  PROVE  /\ Alike(q, r) /\ q.graph = r.graph /\ q.astray = r.astray
         /\ q.devices[s] = v /\ \A u \in Slots : u # s => q.devices[u] = r.devices[u]
<1> DEFINE d == [r.devices EXCEPT ![s] = v]
<1>1. r = [devices |-> r.devices, cur_dev |-> r.cur_dev, graph |-> r.graph, astray |-> r.astray]
      /\ r.devices \in [Slots -> DevRecs] /\ r.cur_dev \in Int /\ r.astray \in BOOLEAN
      /\ r.graph \in [Graphs -> GraphRecs]
  BY DEF Regs
<1>2. q = [r EXCEPT !.devices = d]
  OBVIOUS
<1>3. d \in [Slots -> DevRecs] /\ d[s] = v /\ \A u \in Slots : u # s => d[u] = r.devices[u]
  BY <1>1
<1> HIDE DEF d
<1>4. q.devices = d /\ q.cur_dev = r.cur_dev /\ q.graph = r.graph /\ q.astray = r.astray
      /\ q \in Regs
  BY <1>1, <1>2, <1>3 DEF Regs
<1> QED
  BY <1>3, <1>4 DEF Alike

(* A graph is rewritten.                                                   *)
LEMMA GraphWritten ==
  ASSUME NEW r \in Regs, NEW w \in Graphs, NEW g \in GraphRecs, r.graph[w].wdr_slot # -1,
         g.alive = r.graph[w].alive, g.wdr_slot = r.graph[w].wdr_slot,
         g.phydev = r.graph[w].phydev,
         NEW q, q = [r EXCEPT !.graph[w] = g]
  PROVE  /\ Alike(q, r) /\ q.devices = r.devices /\ q.astray = r.astray
         /\ q.graph = [r.graph EXCEPT ![w] = g]
<1> DEFINE d == [r.graph EXCEPT ![w] = g]
<1>1. r = [devices |-> r.devices, cur_dev |-> r.cur_dev, graph |-> r.graph, astray |-> r.astray]
      /\ r.devices \in [Slots -> DevRecs] /\ r.cur_dev \in Int /\ r.astray \in BOOLEAN
      /\ r.graph \in [Graphs -> GraphRecs]
  BY DEF Regs
<1>2. q = [r EXCEPT !.graph = d]
  OBVIOUS
<1>3. d \in [Graphs -> GraphRecs] /\ d[w] = g /\ \A u \in Graphs : u # w => d[u] = r.graph[u]
  BY <1>1
<1> HIDE DEF d
<1>4. q.devices = r.devices /\ q.cur_dev = r.cur_dev /\ q.graph = d /\ q.astray = r.astray
      /\ q \in Regs
  BY <1>1, <1>2, <1>3 DEF Regs
<1> QED
  BY <1>3, <1>4 DEF Alike, d
-----------------------------------------------------------------------------
(***************************************************************************)
(* Callback lists: one element more, one less.                             *)
(***************************************************************************)
LEMMA ListAppend ==
  ASSUME NEW l \in Seq(Graphs), NEW B, Lists(l, B), NEW w \in Graphs, w \notin B
  PROVE  Append(l, w) \in Seq(Graphs) /\ Lists(Append(l, w), B \cup {w})
<1> DEFINE m == Append(l, w)
           n == Len(l)
<1>1. /\ m \in Seq(Graphs) /\ Len(m) = n + 1 /\ n \in Nat /\ m[n + 1] = w
      /\ \A i \in 1 .. n : m[i] = l[i]
  OBVIOUS
<1>2. /\ \A i, j \in 1 .. n : l[i] = l[j] => i = j
      /\ \A i \in 1 .. n : l[i] \in B
      /\ \A v \in B : \E i \in 1 .. n : l[i] = v
  BY DEF Lists
<1> HIDE DEF m, n
<1>3. ASSUME NEW i \in 1 .. n + 1, NEW j \in 1 .. n + 1, m[i] = m[j] PROVE i = j
  <2>1. CASE i = n + 1 /\ j = n + 1
    BY <2>1
  <2>2. CASE i # n + 1 /\ j # n + 1
    BY <1>1, <1>2, <1>3, <2>2
  <2>3. CASE i # n + 1 /\ j = n + 1
    BY <1>1, <1>2, <1>3, <2>3
  <2>4. CASE i = n + 1 /\ j # n + 1
    BY <1>1, <1>2, <1>3, <2>4
  <2> QED
    BY <2>1, <2>2, <2>3, <2>4
<1>4. ASSUME NEW i \in 1 .. n + 1 PROVE m[i] \in B \cup {w}
  BY <1>1, <1>2
<1>5. ASSUME NEW v \in B \cup {w} PROVE \E i \in 1 .. n + 1 : m[i] = v
  <2>1. CASE v = w
    BY <1>1, <2>1
  <2>2. CASE v \in B
    BY <1>1, <1>2, <2>2
  <2> QED
    BY <2>1, <2>2
<1> QED
  BY <1>1, <1>3, <1>4, <1>5 DEF Lists, m

(* The places of a list without place k.                                   *)
LEMMA WithoutPlace ==
  ASSUME NEW S, NEW l \in Seq(S), NEW k \in 1 .. Len(l)
  PROVE  /\ RemoveAt(l, k) \in Seq(S) /\ Len(RemoveAt(l, k)) = Len(l) - 1
         /\ \A i \in 1 .. Len(l) - 1 : RemoveAt(l, k)[i] = IF i < k THEN l[i] ELSE l[i + 1]
<1> DEFINE n == Len(l)
           a == SubSeq(l, 1, k - 1)
           b == SubSeq(l, k + 1, n)
<1>1. n \in Nat /\ k \in 1 .. n /\ \A i \in 1 .. n : l[i] \in S
  OBVIOUS
<1>2. a \in Seq(S) /\ Len(a) = k - 1 /\ \A i \in 1 .. k - 1 : a[i] = l[i]
  <2>1. a = [i \in 1 .. k - 1 |-> l[i]]
    BY <1>1
  <2> HIDE DEF a, n
  <2>2. k - 1 \in Nat /\ \A i \in 1 .. k - 1 : l[i] \in S
    BY <1>1
  <2> QED
    BY <2>1, <2>2
<1>3. b \in Seq(S) /\ Len(b) = n - k /\ \A i \in 1 .. n - k : b[i] = l[i + k]
  <2>1. b = [i \in 1 .. n - k |-> l[i + k]]
    BY <1>1
  <2> HIDE DEF b, n
  <2>2. n - k \in Nat /\ \A i \in 1 .. n - k : l[i + k] \in S
    BY <1>1
  <2> QED
    BY <2>1, <2>2
<1>4. RemoveAt(l, k) = a \o b
  BY DEF RemoveAt
<1> HIDE DEF a, b, n
<1>5. /\ a \o b \in Seq(S) /\ Len(a \o b) = Len(a) + Len(b)
      /\ \A i \in 1 .. Len(a) + Len(b) : (a \o b)[i] = IF i <= Len(a) THEN a[i] ELSE b[i - Len(a)]
  <2>1. a \in Seq(S) /\ b \in Seq(S)
    BY <1>2, <1>3
  <2>2. a \o b \in Seq(S)
    BY <2>1
  <2>3. Len(a \o b) = Len(a) + Len(b)
    BY <2>1
  <2>4. \A i \in 1 .. Len(a) + Len(b) : (a \o b)[i] = IF i <= Len(a) THEN a[i] ELSE b[i - Len(a)]
    BY <2>1
  <2> QED
    BY <2>2, <2>3, <2>4
<1>6. ASSUME NEW i \in 1 .. n - 1 PROVE (a \o b)[i] = IF i < k THEN l[i] ELSE l[i + 1]
  <2>a. i \in Int /\ k \in Int
    BY <1>1
  <2>1. CASE i < k
    BY <1>1, <1>2, <1>3, <1>5, <2>1
  <2>2. CASE i >= k
    <3>1. i - (k - 1) \in 1 .. n - k /\ (i - (k - 1)) + k = i + 1
      BY <1>1, <2>2
    <3>2. (a \o b)[i] = b[i - (k - 1)]
      BY <1>1, <1>2, <1>3, <1>5, <2>2
    <3> DEFINE j == i - (k - 1)
    <3>3. j \in 1 .. n - k /\ j + k = i + 1 /\ (a \o b)[i] = b[j]
      BY <3>1, <3>2
    <3> HIDE DEF j
    <3>4. (a \o b)[i] = l[i + 1]
      BY <1>3, <3>3
    <3>5. ~ (i < k)
      BY <2>a, <2>2
    <3> QED
      BY <3>4, <3>5
  <2>3. i < k \/ i >= k
    BY <2>a
  <2> QED
    BY <2>1, <2>2, <2>3
<1> QED
  BY <1>1, <1>2, <1>3, <1>4, <1>5, <1>6 DEF n

LEMMA ListRemove ==
  ASSUME NEW l \in Seq(Graphs), NEW w
  PROVE  /\ RemoveFirst(l, w) \in Seq(Graphs)
         /\ \A B : Lists(l, B) /\ w \in B => Lists(RemoveFirst(l, w), B \ {w})
<1> DEFINE I == {i \in 1 .. Len(l) : l[i] = w}
<1>1. CASE I = {}
  <2>1. RemoveFirst(l, w) = l
    BY <1>1 DEF RemoveFirst
  <2>2. ASSUME NEW B, Lists(l, B), w \in B PROVE FALSE
    BY <1>1, <2>2 DEF Lists
  <2> QED
    BY <2>1, <2>2
<1>2. CASE I # {}
  <2> DEFINE k == Min(I)
             m == RemoveFirst(l, w)
             n == Len(l)
  <2>1. k \in I
    <3>1. I \subseteq Nat
      OBVIOUS
    <3> HIDE DEF I
    <3> QED
      BY <1>2, <3>1, MinOfNat
  <2>2. k \in 1 .. n /\ l[k] = w /\ n \in Nat
    BY <2>1
  <2>3. m = RemoveAt(l, k)
    BY <1>2 DEF RemoveFirst, SelectInSeq
  <2> HIDE DEF k, m, n
  <2>4. /\ m \in Seq(Graphs) /\ Len(m) = n - 1
        /\ \A i \in 1 .. n - 1 : m[i] = IF i < k THEN l[i] ELSE l[i + 1]
    BY <2>2, <2>3, WithoutPlace DEF n
  <2>5. ASSUME NEW B, Lists(l, B), w \in B PROVE Lists(m, B \ {w})
    <3>1. /\ \A i, j \in 1 .. n : l[i] = l[j] => i = j
          /\ \A i \in 1 .. n : l[i] \in B
          /\ \A v \in B : \E i \in 1 .. n : l[i] = v
      BY <2>5 DEF Lists, n
    <3> DEFINE at(i) == IF i < k THEN i ELSE i + 1
    <3>2. \A i \in 1 .. n - 1 : at(i) \in 1 .. n /\ at(i) # k /\ m[i] = l[at(i)]
      BY <2>2, <2>4
    <3>3. ASSUME NEW i \in 1 .. n - 1, NEW j \in 1 .. n - 1, m[i] = m[j] PROVE i = j
      <4>1. at(i) = at(j)
        BY <3>1, <3>2, <3>3
      <4> QED
        BY <2>2, <4>1
    <3>4. ASSUME NEW i \in 1 .. n - 1 PROVE m[i] \in B \ {w}
      <4>1. l[at(i)] \in B /\ l[at(i)] # l[k]
        BY <2>2, <3>1, <3>2
      <4> QED
        BY <2>2, <3>2, <4>1
    <3>5. ASSUME NEW v \in B \ {w} PROVE \E i \in 1 .. n - 1 : m[i] = v
      <4>1. PICK j \in 1 .. n : l[j] = v
        BY <3>1
      <4>2. j # k
        BY <2>2, <4>1
      <4>3. CASE j < k
        <5>1. j \in 1 .. n - 1 /\ m[j] = l[j]
          BY <2>2, <2>4, <4>1, <4>3
        <5> QED
          BY <4>1, <5>1
      <4>4. CASE j > k
        <5>1. j - 1 \in 1 .. n - 1 /\ ~(j - 1 < k) /\ (j - 1) + 1 = j
          BY <2>2, <4>4
        <5> QED
          BY <2>4, <4>1, <5>1
      <4> QED
        BY <2>2, <4>2, <4>3, <4>4
    <3> QED
      BY <2>4, <3>3, <3>4, <3>5 DEF Lists
  <2> QED
    BY <2>4, <2>5 DEF m
<1> QED
  BY <1>1, <1>2

(* What CallbacksMatch says of a list.                                     *)
LEMMA ListCounts ==
  ASSUME NEW l \in Seq(Graphs), NEW B, Lists(l, B)
  PROVE  ToSet(l) = B /\ Len(l) = Cardinality(ToSet(l))
<1>1. Len(l) \in Nat /\ DOMAIN l = 1 .. Len(l)
  OBVIOUS
<1>2. ToSet(l) = B
  BY <1>1 DEF ToSet, Lists
<1>3. Len(l) = Cardinality(B)
  <2> DEFINE U == 1 .. Len(l)
             b == [i \in U |-> l[i]]
  <2>1. b \in Bijection(U, B)
    BY DEF Bijection, Injection, Surjection, IsInjective, Lists
  <2>2. IsFiniteSet(U) /\ Cardinality(U) = Len(l)
    <3> DEFINE n == Len(l)
               e == 1
    <3>1. e \in Int /\ n \in Int /\ IF e > n THEN 0 = n ELSE n - e + 1 = n
      BY <1>1
    <3> HIDE DEF e, n
    <3>2. IsFiniteSet(e .. n) /\ Cardinality(e .. n) = n
      BY <3>1, FS_Interval
    <3> QED
      BY <3>2 DEF e, n
  <2> HIDE DEF U, b
  <2> QED
    BY <2>1, <2>2, FS_Bijection DEF ExistsBijection
<1> QED
  BY <1>2, <1>3
-----------------------------------------------------------------------------
(***************************************************************************)
(* The operators lead from registries to registries.                       *)
(***************************************************************************)
LEMMA GraphTyped ==
  ASSUME NEW r \in Regs, NEW w \in Graphs, NEW g \in GraphRecs
  PROVE  /\ [r EXCEPT !.graph[w] = g] \in Regs
         /\ r.graph[w] \in GraphRecs
<1>1. /\ r = [devices |-> r.devices, cur_dev |-> r.cur_dev, graph |-> r.graph, astray |-> r.astray]
      /\ r.devices \in [Slots -> DevRecs] /\ r.cur_dev \in Int /\ r.astray \in BOOLEAN
      /\ r.graph \in [Graphs -> GraphRecs]
  BY DEF Regs
<1> DEFINE d == [r.graph EXCEPT ![w] = g]
<1>2. d \in [Graphs -> GraphRecs]
  BY <1>1
<1>3. [r EXCEPT !.graph[w] = g] = [devices |-> r.devices, cur_dev |-> r.cur_dev, graph |-> d, astray |-> r.astray]
  BY <1>1
<1> HIDE DEF d
<1> QED
  BY <1>1, <1>2, <1>3 DEF Regs

LEMMA RefsTyped ==
  ASSUME NEW r \in Regs, NEW s \in Slots \cup {-1}
  PROVE  /\ DelRef(r, s) \in Regs /\ AddRef(r, s) \in Regs
         /\ DelRef(r, s).graph = r.graph /\ AddRef(r, s).graph = r.graph
<1>1. CASE s \in Occupied(r)
  <2>1. s \in Slots
    BY <1>1, EmptyFacts DEF Occupied
  <2> QED
    BY <1>1, <2>1, DelRefFields, AddRefFields
<1>2. CASE s \notin Occupied(r)
  BY <1>2 DEF DelRef, AddRef
<1> QED
  BY <1>1, <1>2

LEMMA CallbackAdded ==
  ASSUME NEW r \in Regs, NEW s \in Slots, s \in Occupied(r), NEW w \in Graphs
  PROVE  LET q == AddSweepCb(r, s, w)
         IN  /\ Alike(q, r) /\ q.graph = r.graph /\ q.astray = r.astray
             /\ q.devices[s].sweep_cb_l = Append(r.devices[s].sweep_cb_l, w)
             /\ q.devices[s].polled = r.devices[s].polled
             /\ \A u \in Slots : u # s => q.devices[u] = r.devices[u]
<1> DEFINE q == AddSweepCb(r, s, w)
           l == Append(r.devices[s].sweep_cb_l, w)
           v == [r.devices[s] EXCEPT !.sweep_cb_l = l]
<1>1. r.devices[s] \in DevRecs /\ r.devices[s] # Empty
  BY SlotFacts
<1>2. q = [r EXCEPT !.devices[s].sweep_cb_l = l]
  BY DEF AddSweepCb
<1>3. l \in Seq(Graphs)
  BY <1>1 DEF DevRecs
<1> HIDE DEF l
<1>4. q = [r EXCEPT !.devices[s] = v]
  BY <1>2
<1>5. /\ v \in DevRecs /\ v.phydev = r.devices[s].phydev /\ v.refcount = r.devices[s].refcount
      /\ v.polled = r.devices[s].polled /\ v.sweep_cb_l = l
  BY <1>1, <1>3 DEF DevRecs
<1> HIDE DEF v, q
<1>6. /\ Alike(q, r) /\ q.graph = r.graph /\ q.astray = r.astray
      /\ q.devices[s] = v /\ \A u \in Slots : u # s => q.devices[u] = r.devices[u]
  BY <1>1, <1>4, <1>5, SlotWritten
<1> QED
  BY <1>5, <1>6 DEF q, l

LEMMA RemoveFirstTyped ==
  ASSUME NEW l \in Seq(Graphs), NEW w
  PROVE  RemoveFirst(l, w) \in Seq(Graphs)
BY ListRemove

LEMMA CallbackDeleted ==
  ASSUME NEW r \in Regs, NEW s \in Slots, s \in Occupied(r), NEW w \in Graphs
  PROVE  LET q == DelSweepCb(r, s, w)
         IN  /\ Alike(q, r) /\ q.graph = r.graph /\ q.astray = r.astray
             /\ q.devices[s].sweep_cb_l = RemoveFirst(r.devices[s].sweep_cb_l, w)
             /\ q.devices[s].polled = r.devices[s].polled
             /\ \A u \in Slots : u # s => q.devices[u] = r.devices[u]
<1> DEFINE q == DelSweepCb(r, s, w)
           l == RemoveFirst(r.devices[s].sweep_cb_l, w)
           v == [r.devices[s] EXCEPT !.sweep_cb_l = l]
<1>1. r.devices[s] \in DevRecs /\ r.devices[s] # Empty
  BY SlotFacts
<1>2. q = [r EXCEPT !.devices[s].sweep_cb_l = l]
  BY DEF DelSweepCb
<1>3. l \in Seq(Graphs)
  <2>1. r.devices[s].sweep_cb_l \in Seq(Graphs)
    BY <1>1 DEF DevRecs
  <2> QED
    BY <2>1, RemoveFirstTyped
<1> HIDE DEF l
<1>4. q = [r EXCEPT !.devices[s] = v]
  BY <1>2
<1>5. /\ v \in DevRecs /\ v.phydev = r.devices[s].phydev /\ v.refcount = r.devices[s].refcount
      /\ v.polled = r.devices[s].polled /\ v.sweep_cb_l = l
  BY <1>1, <1>3 DEF DevRecs
<1> HIDE DEF v, q
<1>6. /\ Alike(q, r) /\ q.graph = r.graph /\ q.astray = r.astray
      /\ q.devices[s] = v /\ \A u \in Slots : u # s => q.devices[u] = r.devices[u]
  BY <1>1, <1>4, <1>5, SlotWritten
<1> QED
  BY <1>5, <1>6 DEF q, l

(* On CONFIGURED the graph resets its cache.                               *)
LEMMA ConfiguredTyped ==
  ASSUME NEW r \in Regs, NEW w \in Graphs
  PROVE  LET q == Configured(r, w)
         IN  /\ q \in Regs /\ q.devices = r.devices /\ q.astray = r.astray
             /\ \A v \in Graphs : v # w => q.graph[v] = r.graph[v]
             /\ q.graph[w].shown = {} /\ q.graph[w].wdr_slot = r.graph[w].wdr_slot
             /\ q.graph[w].alive = r.graph[w].alive /\ q.graph[w].phydev = r.graph[w].phydev
             /\ r.graph[w].wdr_slot # -1 => Alike(q, r)
<1> DEFINE q == Configured(r, w)
           g == [r.graph[w] EXCEPT !.sweepcache = TRUE, !.shown = {}]
           h == [alive |-> r.graph[w].alive, wdr_slot |-> r.graph[w].wdr_slot,
                 phydev |-> r.graph[w].phydev, sweepcache |-> TRUE, shown |-> {}]
<1>1. r.graph[w] \in GraphRecs /\ w \in DOMAIN r.graph
  BY DEF Regs
<1>2. g = h /\ h \in GraphRecs
  <2> DEFINE x == r.graph[w]
             T == TRUE
             y == [alive |-> x.alive, wdr_slot |-> x.wdr_slot, phydev |-> x.phydev,
                   sweepcache |-> T, shown |-> x.shown]
  <2>1. /\ x = [alive |-> x.alive, wdr_slot |-> x.wdr_slot, phydev |-> x.phydev,
                sweepcache |-> x.sweepcache, shown |-> x.shown]
        /\ x.alive \in BOOLEAN /\ x.wdr_slot \in Slots \cup {-1}
        /\ x.phydev \in Devices \cup {NoDevice} /\ x.shown \subseteq Devices
    BY <1>1 DEF GraphRecs
  <2>2. g = [[x EXCEPT !.sweepcache = T] EXCEPT !.shown = {}]
    OBVIOUS
  <2>3. h = [alive |-> x.alive, wdr_slot |-> x.wdr_slot, phydev |-> x.phydev,
             sweepcache |-> T, shown |-> {}]
    OBVIOUS
  <2>a. T \in BOOLEAN
    OBVIOUS
  <2> HIDE DEF x, g, h, T
  <2>4. [x EXCEPT !.sweepcache = T] = y
    BY <2>1
  <2>5. [y EXCEPT !.shown = {}] = h
    BY <2>3
  <2>6. h \in GraphRecs
    BY <2>1, <2>3, <2>a DEF GraphRecs
  <2> QED
    BY <2>2, <2>4, <2>5, <2>6
<1>3. /\ h.alive = r.graph[w].alive /\ h.wdr_slot = r.graph[w].wdr_slot
      /\ h.phydev = r.graph[w].phydev /\ h.shown = {}
  OBVIOUS
<1> HIDE DEF h
<1>4. q = [r EXCEPT !.graph[w] = h]
  <2>1. q = [r EXCEPT !.graph[w] = g]
    <3>1. r = [devices |-> r.devices, cur_dev |-> r.cur_dev, graph |-> r.graph, astray |-> r.astray]
          /\ r.graph \in [Graphs -> GraphRecs]
      BY DEF Regs
    <3> QED
      BY <1>1, <3>1 DEF Configured
  <2> HIDE DEF g, q
  <2> QED
    BY <1>2, <2>1
<1>5. q \in Regs
  BY <1>2, <1>4, GraphTyped
<1>6. /\ q.devices = r.devices /\ q.astray = r.astray /\ q.graph = [r.graph EXCEPT ![w] = h]
  <2>1. r = [devices |-> r.devices, cur_dev |-> r.cur_dev, graph |-> r.graph, astray |-> r.astray]
    BY DEF Regs
  <2> QED
    BY <1>4, <2>1
<1> HIDE DEF q, g
<1>7. r.graph[w].wdr_slot # -1 => Alike(q, r)
  BY <1>2, <1>3, <1>4, GraphWritten
<1> QED
  BY <1>1, <1>3, <1>5, <1>6, <1>7 DEF q
LEMMA AlikeSelf == ASSUME NEW r \in Regs PROVE Alike(r, r)
BY DEF Alike

LEMMA AlikeChain ==
  ASSUME NEW p, NEW q, NEW r, Alike(p, q), Alike(q, r)
  PROVE  Alike(p, r)
<1>1. /\ p \in Regs /\ p.cur_dev = r.cur_dev
      /\ \A u \in Slots : /\ p.devices[u].phydev = r.devices[u].phydev
                          /\ p.devices[u].refcount = r.devices[u].refcount
                          /\ r.devices[u] = Empty => p.devices[u] = Empty
  BY DEF Alike
<1>2. ASSUME NEW w \in Graphs
      PROVE  /\ p.graph[w].alive = r.graph[w].alive /\ p.graph[w].wdr_slot = r.graph[w].wdr_slot
             /\ p.graph[w].phydev = r.graph[w].phydev
             /\ r.graph[w].wdr_slot = -1 => p.graph[w] = r.graph[w]
  BY DEF Alike
<1> QED
  BY <1>1, <1>2 DEF Alike

(* A callback that goes astray changes nothing else.                       *)
LEMMA AstrayAlike ==
  ASSUME NEW r \in Regs
  PROVE  LET q == [r EXCEPT !.astray = TRUE]
         IN  Alike(q, r) /\ q.devices = r.devices /\ q.graph = r.graph
<1> DEFINE T == TRUE
           q == [r EXCEPT !.astray = T]
<1>1. /\ r = [devices |-> r.devices, cur_dev |-> r.cur_dev, graph |-> r.graph, astray |-> r.astray]
      /\ r.devices \in [Slots -> DevRecs] /\ r.cur_dev \in Int /\ r.graph \in [Graphs -> GraphRecs]
  BY DEF Regs
<1>2. T \in BOOLEAN
  OBVIOUS
<1> HIDE DEF T
<1>3. q = [devices |-> r.devices, cur_dev |-> r.cur_dev, graph |-> r.graph, astray |-> T]
  BY <1>1
<1>4. q \in Regs /\ q.devices = r.devices /\ q.cur_dev = r.cur_dev /\ q.graph = r.graph
  BY <1>1, <1>2, <1>3 DEF Regs
<1>5. Alike(q, r)
  BY <1>4 DEF Alike
<1> QED
  BY <1>4, <1>5 DEF T

LEMMA SweptTyped ==
  ASSUME NEW r \in Regs, NEW w \in Graphs, NEW d \in Devices,
         r.graph[w].wdr_slot = -1 => ~ r.graph[w].sweepcache
  PROVE  LET q == Swept(r, w, d)
         IN  /\ Alike(q, r) /\ q.devices = r.devices /\ q.astray = r.astray
             /\ \A v \in Graphs : v # w => q.graph[v] = r.graph[v]
             /\ q.graph[w].shown \subseteq r.graph[w].shown \cup {d}
<1> DEFINE q == Swept(r, w, d)
           x == r.graph[w]
           g == [x EXCEPT !.shown = @ \cup {d}]
<1>1. CASE ~ x.sweepcache
  <2>1. q = r
    BY <1>1 DEF Swept
  <2>2. Alike(r, r)
    BY AlikeSelf
  <2> HIDE DEF q
  <2> QED
    BY <2>1, <2>2 DEF q
<1>2. CASE x.sweepcache
  <2>1. x \in GraphRecs /\ w \in DOMAIN r.graph /\ x.wdr_slot # -1
    BY <1>2 DEF Regs
  <2>2. /\ g \in GraphRecs /\ g.alive = x.alive /\ g.wdr_slot = x.wdr_slot
        /\ g.phydev = x.phydev /\ g.shown = x.shown \cup {d}
    BY <2>1 DEF GraphRecs
  <2>3. q = [r EXCEPT !.graph[w] = g]
    <3>1. q = [r EXCEPT !.graph[w].shown = @ \cup {d}]
      BY <1>2 DEF Swept
    <3> QED
      BY <3>1
  <2>4. r.graph \in [Graphs -> GraphRecs]
    BY DEF Regs
  <2>a. /\ g \in GraphRecs /\ r.graph[w].wdr_slot # -1 /\ g.alive = r.graph[w].alive
        /\ g.wdr_slot = r.graph[w].wdr_slot /\ g.phydev = r.graph[w].phydev
    BY <2>1, <2>2
  <2> HIDE DEF q, g, x
  <2>b. Alike(q, r)
    BY <2>3, <2>a, GraphWritten
  <2>5. /\ q.devices = r.devices /\ q.astray = r.astray /\ q.graph = [r.graph EXCEPT ![w] = g]
    <3>1. r = [devices |-> r.devices, cur_dev |-> r.cur_dev, graph |-> r.graph, astray |-> r.astray]
      BY DEF Regs
    <3> QED
      BY <2>3, <3>1
  <2> QED
    BY <2>1, <2>2, <2>4, <2>5, <2>b DEF q, x
<1> QED
  BY <1>1, <1>2

(* wdr_del_ref does not look at the graphs.                                *)
LEMMA DelRefCommutes ==
  ASSUME NEW r \in Regs, NEW s \in Slots \cup {-1}, NEW G
  PROVE  DelRef([r EXCEPT !.graph = G], s) = [DelRef(r, s) EXCEPT !.graph = G]
<1> DEFINE e == [r EXCEPT !.graph = G]
<1>1. r = [devices |-> r.devices, cur_dev |-> r.cur_dev, graph |-> r.graph, astray |-> r.astray]
  BY DEF Regs
<1>2. e = [devices |-> r.devices, cur_dev |-> r.cur_dev, graph |-> G, astray |-> r.astray]
  BY <1>1
<1> HIDE DEF e
<1>3. Occupied(e) = Occupied(r) /\ (LastRef(e, s) <=> LastRef(r, s))
  BY <1>2 DEF Occupied, LastRef
<1>4. CASE s \notin Occupied(r)
  BY <1>3, <1>4 DEF DelRef, e
<1>5. CASE s \in Occupied(r) /\ LastRef(r, s)
  <2> DEFINE d == [r.devices EXCEPT ![s] = Empty]
             m == r.cur_dev - 1
  <2>1. DelRef(r, s) = [devices |-> d, cur_dev |-> m, graph |-> r.graph, astray |-> r.astray]
    BY <1>1, <1>5 DEF DelRef
  <2>2. DelRef(e, s) = [devices |-> d, cur_dev |-> m, graph |-> G, astray |-> r.astray]
    BY <1>2, <1>3, <1>5 DEF DelRef
  <2> HIDE DEF d, m
  <2> QED
    BY <2>1, <2>2 DEF e
<1>6. CASE s \in Occupied(r) /\ ~ LastRef(r, s)
  <2> DEFINE d == [r.devices EXCEPT ![s].refcount = @ - 1]
  <2>1. DelRef(r, s) = [devices |-> d, cur_dev |-> r.cur_dev, graph |-> r.graph, astray |-> r.astray]
    BY <1>1, <1>6 DEF DelRef
  <2>2. DelRef(e, s) = [devices |-> d, cur_dev |-> r.cur_dev, graph |-> G, astray |-> r.astray]
    BY <1>2, <1>3, <1>6 DEF DelRef
  <2> HIDE DEF d
  <2> QED
    BY <2>1, <2>2 DEF e
<1> QED
  BY <1>4, <1>5, <1>6

(* A graph whose device fails is left without a device, and stays.         *)
LEMMA FailedLeaves ==
  ASSUME NEW r \in Regs, NEW w \in Graphs, r.graph[w].alive
  PROVE  Failed(r, w) = Left(r, w, Unbound)
<1> DEFINE x == r.graph[w]
           s == x.wdr_slot
           T == TRUE
           F == FALSE
           h == [alive |-> T, wdr_slot |-> s, phydev |-> NoDevice, sweepcache |-> F, shown |-> {}]
           g == [alive |-> T, wdr_slot |-> -1, phydev |-> NoDevice, sweepcache |-> F, shown |-> {}]
           cleared == [r EXCEPT !.graph[w].phydev = NoDevice, !.graph[w].sweepcache = F,
                                !.graph[w].shown = {}]
           G == [r.graph EXCEPT ![w] = h]
<1>1. /\ x \in GraphRecs /\ w \in DOMAIN r.graph /\ s \in Slots \cup {-1}
      /\ x.alive = T /\ r.graph \in [Graphs -> GraphRecs]
  BY DEF Regs, GraphRecs
<1>2. g = Unbound
  <2>1. Gone = [alive |-> F, wdr_slot |-> -1, phydev |-> NoDevice, sweepcache |-> F, shown |-> {}]
    BY DEF Gone
  <2>2. Unbound = [Gone EXCEPT !.alive = T]
    BY DEF Unbound
  <2> HIDE DEF T, F
  <2> QED
    BY <2>1, <2>2
<1>3. Failed(r, w) = [DelRef(cleared, s) EXCEPT !.graph[w].wdr_slot = -1]
  BY DEF Failed
<1>4. r = [devices |-> r.devices, cur_dev |-> r.cur_dev, graph |-> r.graph, astray |-> r.astray]
  BY DEF Regs
<1>5. cleared = [r EXCEPT !.graph = G]
  <2>1. x = [alive |-> T, wdr_slot |-> s, phydev |-> x.phydev, sweepcache |-> x.sweepcache, shown |-> x.shown]
    BY <1>1 DEF GraphRecs
  <2> DEFINE y1 == [alive |-> T, wdr_slot |-> s, phydev |-> NoDevice, sweepcache |-> x.sweepcache, shown |-> x.shown]
             y2 == [alive |-> T, wdr_slot |-> s, phydev |-> NoDevice, sweepcache |-> F, shown |-> x.shown]
             G1 == [r.graph EXCEPT ![w] = y1]
             G2 == [r.graph EXCEPT ![w] = y2]
             r1 == [r EXCEPT !.graph[w].phydev = NoDevice]
             r2 == [r1 EXCEPT !.graph[w].sweepcache = F]
  <2>a. cleared = [r2 EXCEPT !.graph[w].shown = {}]
    OBVIOUS
  <2>x. x = r.graph[w]
    OBVIOUS
  <2> HIDE DEF T, F, s, x, cleared
  <2>2. [x EXCEPT !.phydev = NoDevice] = y1
    BY <2>1
  <2>3. [y1 EXCEPT !.sweepcache = F] = y2
    OBVIOUS
  <2>4. [y2 EXCEPT !.shown = {}] = h
    OBVIOUS
  <2> HIDE DEF y1, y2, h
  <2>5. r1 = [devices |-> r.devices, cur_dev |-> r.cur_dev, graph |-> G1, astray |-> r.astray]
    BY <1>1, <1>4, <2>x, <2>2
  <2>6. r2 = [devices |-> r.devices, cur_dev |-> r.cur_dev, graph |-> G2, astray |-> r.astray]
    <3>1. r1.graph = G1 /\ G1[w] = y1 /\ [G1 EXCEPT ![w] = y2] = G2
      BY <1>1, <2>5
    <3> HIDE DEF r1, G1, G2
    <3> QED
      BY <2>3, <2>5, <3>1
  <2>7. [r2 EXCEPT !.graph[w].shown = {}]
          = [devices |-> r.devices, cur_dev |-> r.cur_dev, graph |-> G, astray |-> r.astray]
    <3>1. r2.graph = G2 /\ G2[w] = y2 /\ [G2 EXCEPT ![w] = h] = G
      BY <1>1, <2>6
    <3> HIDE DEF r2, G2, G
    <3> QED
      BY <2>4, <2>6, <3>1
  <2>8. [r EXCEPT !.graph = G]
          = [devices |-> r.devices, cur_dev |-> r.cur_dev, graph |-> G, astray |-> r.astray]
    <3> HIDE DEF G
    <3> QED
      BY <1>4
  <2> QED
    BY <2>a, <2>7, <2>8
<1> HIDE DEF T, F, cleared
<1>6. G[w] = h /\ [G EXCEPT ![w] = g] = [r.graph EXCEPT ![w] = g] /\ [h EXCEPT !.wdr_slot = -1] = g
  BY <1>1
<1> HIDE DEF G, h, g, s
<1>7. DelRef(cleared, s) = [DelRef(r, s) EXCEPT !.graph = G]
  BY <1>1, <1>5, DelRefCommutes
<1>8. DelRef(r, s) \in Regs /\ DelRef(r, s).graph = r.graph
  BY <1>1, RefsTyped
<1> DEFINE p == DelRef(r, s)
<1>9. p = [devices |-> p.devices, cur_dev |-> p.cur_dev, graph |-> r.graph, astray |-> p.astray]
  BY <1>8 DEF Regs
<1> HIDE DEF p
<1>10. [[p EXCEPT !.graph = G] EXCEPT !.graph[w].wdr_slot = -1] = [p EXCEPT !.graph[w] = g]
  <2>1. [p EXCEPT !.graph = G] = [devices |-> p.devices, cur_dev |-> p.cur_dev, graph |-> G, astray |-> p.astray]
    BY <1>9
  <2> DEFINE e == [p EXCEPT !.graph = G]
             E == [r.graph EXCEPT ![w] = g]
  <2>2. [p EXCEPT !.graph[w] = g] = [devices |-> p.devices, cur_dev |-> p.cur_dev, graph |-> E, astray |-> p.astray]
    BY <1>9
  <2>3. /\ e = [devices |-> p.devices, cur_dev |-> p.cur_dev, graph |-> G, astray |-> p.astray]
        /\ e.graph = G /\ G[w] = h /\ [G EXCEPT ![w] = g] = E
    BY <1>6, <2>1
  <2> HIDE DEF E, e
  <2>4. [e EXCEPT !.graph[w].wdr_slot = -1] = [devices |-> p.devices, cur_dev |-> p.cur_dev, graph |-> E, astray |-> p.astray]
    BY <1>6, <2>3
  <2> QED
    BY <2>2, <2>4 DEF e
<1> QED
  BY <1>2, <1>3, <1>7, <1>10 DEF Left, p, s
(* The steps of the walks are functions on the registries.                 *)
LEMMA LeftTyped ==
  ASSUME NEW r \in Regs, NEW w \in Graphs, NEW g \in GraphRecs
  PROVE  Left(r, w, g) \in Regs
<1> DEFINE s == r.graph[w].wdr_slot
<1>1. s \in Slots \cup {-1}
  BY DEF Regs, GraphRecs
<1>2. DelRef(r, s) \in Regs
  BY <1>1, RefsTyped
<1> QED
  BY <1>2, GraphTyped DEF Left

LEMMA LinkedTyped ==
  ASSUME NEW r \in Regs, NEW w \in Graphs, NEW s \in Slots
  PROVE  Linked(r, w, s) \in Regs
<1> DEFINE old == r.graph[w].wdr_slot
           a == AddRef(r, s)
           held == DelRef(a, old)
           hd == held.devices[s].phydev
           h == [r.graph[w] EXCEPT !.wdr_slot = s, !.phydev = hd]
           q == Linked(r, w, s)
<1>1. /\ r.graph[w] \in GraphRecs /\ old \in Slots \cup {-1} /\ w \in DOMAIN r.graph
      /\ r.graph \in [Graphs -> GraphRecs]
  BY DEF Regs, GraphRecs
<1>2. a \in Regs /\ a.graph = r.graph
  BY RefsTyped
<1>3. held \in Regs /\ held.graph = r.graph
  <2> HIDE DEF a
  <2> QED
    BY <1>1, <1>2, RefsTyped
<1>4. q = [held EXCEPT !.graph[w].wdr_slot = s, !.graph[w].phydev = hd]
  BY DEF Linked, a
<1>5. hd \in Devices \cup {NoDevice}
  <2> HIDE DEF held
  <2> QED
    BY <1>3 DEF Regs, DevRecs
<1>6. held = [devices |-> held.devices, cur_dev |-> held.cur_dev, graph |-> held.graph,
              astray |-> held.astray]
  <2> HIDE DEF held
  <2> QED
    BY <1>3 DEF Regs
<1> HIDE DEF held, hd, q
<1>7. q = [held EXCEPT !.graph = [r.graph EXCEPT ![w] = h]]
  BY <1>1, <1>3, <1>4, <1>6
<1>8. h \in GraphRecs
  BY <1>1, <1>5 DEF GraphRecs
<1> HIDE DEF h
<1>9. [held EXCEPT !.graph[w] = h] \in Regs
  BY <1>3, <1>8, GraphTyped
<1>10. [held EXCEPT !.graph[w] = h] = [held EXCEPT !.graph = [r.graph EXCEPT ![w] = h]]
  BY <1>3, <1>6
<1> QED
  BY <1>7, <1>9, <1>10 DEF q

LEMMA BindTyped ==
  ASSUME NEW r \in Regs, NEW w \in Graphs, NEW s \in Slots
  PROVE  BindDev(r, w, s) \in Regs
<1> DEFINE p == Linked(r, w, s)
           q == AddSweepCb(p, s, w)
<1>1. p \in Regs
  BY LinkedTyped
<1> HIDE DEF p
<1>2. q \in Regs
  <2>1. CASE s \in Occupied(p)
    BY <1>1, <2>1, CallbackAdded DEF Alike
  <2>2. CASE s \notin Occupied(p)
    BY <1>1, <2>2 DEF AddSweepCb
  <2> QED
    BY <2>1, <2>2
<1> HIDE DEF q
<1>3. Configured(q, w) \in Regs
  BY <1>2, ConfiguredTyped
<1> QED
  BY <1>2, <1>3 DEF BindDev, p, q

LEMMA DelCallbackTyped ==
  ASSUME NEW r \in Regs, NEW w \in Graphs, NEW s \in Slots \cup {-1}
  PROVE  DelSweepCb(r, s, w) \in Regs /\ DelSweepCb(r, s, w).graph = r.graph
<1>1. CASE s \in Occupied(r)
  <2>1. s \in Slots
    BY <1>1, EmptyFacts DEF Occupied
  <2> QED
    BY <1>1, <2>1, CallbackDeleted DEF Alike
<1>2. CASE s \notin Occupied(r)
  BY <1>2 DEF DelSweepCb
<1> QED
  BY <1>1, <1>2

LEMMA DestroyLeaves ==
  ASSUME NEW r \in Regs, NEW w \in Graphs
  PROVE  LET p == DelSweepCb(r, r.graph[w].wdr_slot, w)
         IN  Destroy(r, w) = Left(p, w, Gone) /\ p \in Regs /\ p.graph = r.graph
<1> DEFINE s == r.graph[w].wdr_slot
           p == DelSweepCb(r, s, w)
<1>1. s \in Slots \cup {-1}
  BY DEF Regs, GraphRecs
<1> HIDE DEF s
<1>2. p \in Regs /\ p.graph = r.graph
  BY <1>1, DelCallbackTyped
<1> HIDE DEF p
<1>3. Destroy(r, w) = [DelRef(p, s) EXCEPT !.graph[w] = Gone]
  BY DEF Destroy, p, s
<1>4. Left(p, w, Gone) = [DelRef(p, s) EXCEPT !.graph[w] = Gone]
  BY <1>2 DEF Left, s
<1> QED
  BY <1>2, <1>3, <1>4 DEF p, s

LEMMA DestroyTyped ==
  ASSUME NEW r \in Regs, NEW w \in Graphs
  PROVE  Destroy(r, w) \in Regs
BY DestroyLeaves, LeftTyped, GraphConstants

Modes == {"error", "configured", "sweep"}

LEMMA SweptInRegs ==
  ASSUME NEW r \in Regs, NEW w \in Graphs, NEW d \in Devices
  PROVE  Swept(r, w, d) \in Regs
<1> DEFINE x == r.graph[w]
           g == [x EXCEPT !.shown = @ \cup {d}]
<1>1. x \in GraphRecs /\ g \in GraphRecs
  BY DEF Regs, GraphRecs
<1>2. Swept(r, w, d) = r \/ Swept(r, w, d) = [r EXCEPT !.graph[w] = g]
  BY DEF Swept
<1> HIDE DEF g, x
<1> QED
  BY <1>1, <1>2, GraphTyped

LEMMA CalledTyped ==
  ASSUME NEW r \in Regs, NEW w \in Graphs, NEW s \in Slots, NEW mode \in Modes, NEW ws,
         reg.devices[s].phydev \in Devices
  PROVE  Called(r, w, s, mode, ws) \in Regs
<1> DEFINE d == reg.devices[s].phydev
           q == Called(r, w, s, mode, ws)
<1>1. [r EXCEPT !.astray = TRUE] \in Regs
  BY AstrayAlike DEF Alike
<1>2. r.graph[w].alive => Failed(r, w) \in Regs
  BY FailedLeaves, LeftTyped, GraphConstants
<1>3. Configured(r, w) \in Regs /\ Swept(r, w, d) \in Regs
  BY ConfiguredTyped, SweptInRegs
<1>4. \/ q = [r EXCEPT !.astray = TRUE]
      \/ q = r
      \/ r.graph[w].alive /\ q = WdrSweep(r, w, mode, d)
  BY DEF Called, CanBeCalled
<1>5. WdrSweep(r, w, mode, d) \in {Failed(r, w), Configured(r, w), Swept(r, w, d)}
  BY DEF WdrSweep, Modes
<1> HIDE DEF q, d
<1> QED
  BY <1>1, <1>2, <1>3, <1>4, <1>5 DEF q
-----------------------------------------------------------------------------
(***************************************************************************)
(* Binding and destroying a graph.                                         *)
(***************************************************************************)
Binds(q, r, w, s, cnt, x) ==
  /\ RegOK(q, cnt, x) /\ q.astray = r.astray /\ s \in Occupied(q)
  /\ q.graph[w].alive /\ q.graph[w].wdr_slot = s
  /\ \A v \in Graphs : v # w => q.graph[v] = r.graph[v]
  /\ r.graph[w].wdr_slot = -1 /\ CallbacksOK(r, Slots) => CallbacksOK(q, Slots)

CanBind(r, w, s, cnt, x) ==
  /\ IsCount(cnt) /\ RegOK(r, cnt, x)
  /\ w \in Graphs /\ r.graph[w].alive /\ s \in Slots /\ s \in Occupied(r)

LEMMA BindKeeps ==
  ASSUME NEW r, NEW w, NEW s, NEW cnt, NEW x, CanBind(r, w, s, cnt, x)
  PROVE  Binds(BindDev(r, w, s), r, w, s, cnt, x)
<1> DEFINE p == Linked(r, w, s)
           a == AddSweepCb(p, s, w)
           q == BindDev(r, w, s)
           g == [r.graph[w] EXCEPT !.wdr_slot = s, !.phydev = r.devices[s].phydev]
<1>0. /\ IsCount(cnt) /\ RegOK(r, cnt, x)
      /\ w \in Graphs /\ r.graph[w].alive /\ s \in Slots /\ s \in Occupied(r)
  BY DEF CanBind
<1>1. /\ RegOK(p, cnt, x) /\ p.astray = r.astray
      /\ g \in GraphRecs /\ p.graph = [r.graph EXCEPT ![w] = g]
      /\ s \in Occupied(p) /\ SameSlot(p, r, s)
      /\ r.graph[w].wdr_slot = -1 =>
           Occupied(p) = Occupied(r) /\ \A u \in Slots : SameSlot(p, r, u)
  BY <1>0, LinkedKeeps
<1>2. /\ p \in Regs /\ r \in Regs /\ r.graph \in [Graphs -> GraphRecs] /\ r.graph[w] \in GraphRecs
      /\ g.wdr_slot = s /\ g.alive = r.graph[w].alive /\ g.shown = r.graph[w].shown
  <2>1. p \in Regs /\ r \in Regs
    BY <1>0, <1>1 DEF RegOK
  <2>2. r.graph \in [Graphs -> GraphRecs] /\ r.graph[w] \in GraphRecs
    BY <1>0, <2>1 DEF Regs
  <2> QED
    BY <2>1, <2>2 DEF GraphRecs
<1> HIDE DEF p, g
<1>3. /\ Alike(a, p) /\ a.graph = p.graph /\ a.astray = p.astray
      /\ a.devices[s].sweep_cb_l = Append(p.devices[s].sweep_cb_l, w)
      /\ a.devices[s].polled = p.devices[s].polled
      /\ \A u \in Slots : u # s => a.devices[u] = p.devices[u]
  BY <1>0, <1>1, <1>2, CallbackAdded
<1>4. q = a \/ q = Configured(a, w)
  BY DEF BindDev, p
<1> HIDE DEF a, q
<1>5. /\ a.graph[w] = g /\ g.wdr_slot # -1
      /\ \A v \in Graphs : v # w => a.graph[v] = r.graph[v]
  BY <1>0, <1>1, <1>2, <1>3, EmptyFacts
<1>6. /\ Alike(q, a) /\ q.devices = a.devices /\ q.astray = a.astray
      /\ \A v \in Graphs : v # w => q.graph[v] = a.graph[v]
      /\ q.graph[w].shown \subseteq g.shown /\ q.graph[w].wdr_slot = g.wdr_slot
      /\ q.graph[w].alive = g.alive
  <2>1. a \in Regs
    BY <1>3 DEF Alike
  <2>2. CASE q = a
    BY <1>5, <2>1, <2>2, AlikeSelf
  <2>3. CASE q = Configured(a, w)
    BY <1>0, <1>5, <2>1, <2>3, ConfiguredTyped
  <2> QED
    BY <1>4, <2>2, <2>3
<1>7. Alike(q, p)
  BY <1>3, <1>6, AlikeChain
<1>8. /\ RegOK(q, cnt, x) /\ Occupied(q) = Occupied(p)
      /\ \A u \in Slots : Bound(q, u) = Bound(p, u)
  BY <1>0, <1>1, <1>7, AlikeKeeps
<1>9. ASSUME r.graph[w].wdr_slot = -1, CallbacksOK(r, Slots) PROVE CallbacksOK(q, Slots)
  <2>1. g.shown = {}
    BY <1>0, <1>2, <1>9, GraphConstants DEF RegOK, GraphsOK, GraphOK
  <2>2. ~ q.astray
    BY <1>1, <1>3, <1>6, <1>9 DEF CallbacksOK
  <2>3. ASSUME NEW v \in Graphs PROVE q.graph[v].shown \subseteq {q.graph[v].phydev}
    <3>1. CASE v = w
      BY <1>6, <2>1, <3>1
    <3>2. CASE v # w
      BY <1>5, <1>6, <1>9, <3>2 DEF CallbacksOK
    <3> QED
      BY <3>1, <3>2
  <2>4. ASSUME NEW u \in Slots
        PROVE  /\ Bound(p, u) = IF u = s THEN Bound(r, u) \cup {w} ELSE Bound(r, u) \ {w}
               /\ w \notin Bound(r, u)
    <3>1. Moves(p, r, w, g)
      BY <1>1, <1>2 DEF Moves
    <3>2. BoundMoved(p, r, w, g, cnt, u)
      BY <1>0, <3>1, BoundMoves
    <3>3. u # -1
      BY EmptyFacts
    <3> QED
      BY <1>2, <1>9, <3>2, <3>3 DEF BoundMoved
  <2>5. ASSUME NEW u \in Slots \cap Occupied(q), q.devices[u].polled
        PROVE  Lists(q.devices[u].sweep_cb_l, Bound(q, u))
    <3>1. u \in Slots /\ u \in Occupied(r) /\ SameSlot(p, r, u)
      BY <1>1, <1>8, <1>9, <2>5
    <3>2. CASE u = s
      <4>1. r.devices[s].polled /\ q.devices[s].sweep_cb_l = Append(r.devices[s].sweep_cb_l, w)
        BY <1>3, <1>6, <2>5, <3>1, <3>2 DEF SameSlot
      <4>2. Lists(r.devices[s].sweep_cb_l, Bound(r, s))
        BY <1>9, <3>1, <3>2, <4>1 DEF CallbacksOK
      <4>3. r.devices[s].sweep_cb_l \in Seq(Graphs)
        BY <1>0, <1>2 DEF Regs, DevRecs
      <4> DEFINE l == r.devices[s].sweep_cb_l
                 B == Bound(r, s)
      <4>4. w \notin B /\ Bound(q, s) = B \cup {w}
        BY <1>8, <2>4, <3>1, <3>2
      <4> HIDE DEF l, B
      <4>5. Lists(Append(l, w), B \cup {w})
        BY <1>0, <4>2, <4>3, <4>4, ListAppend DEF l, B
      <4> QED
        BY <3>2, <4>1, <4>4, <4>5 DEF l
    <3>3. CASE u # s
      <4>1. r.devices[u].polled /\ q.devices[u].sweep_cb_l = r.devices[u].sweep_cb_l
        BY <1>3, <1>6, <2>5, <3>1, <3>3 DEF SameSlot
      <4>2. Lists(r.devices[u].sweep_cb_l, Bound(r, u))
        BY <1>9, <3>1, <4>1 DEF CallbacksOK
      <4>3. Bound(q, u) = Bound(r, u)
        BY <1>8, <2>4, <3>1, <3>3
      <4> QED
        BY <4>1, <4>2, <4>3
    <3> QED
      BY <3>2, <3>3
  <2> QED
    BY <2>2, <2>3, <2>5 DEF CallbacksOK
<1> QED
  BY <1>0, <1>1, <1>2, <1>3, <1>5, <1>6, <1>8, <1>9 DEF q, Binds

Destroys(q, r, w, cnt, x) ==
  /\ RegOK(q, cnt, x) /\ q.astray = r.astray /\ q.graph = [r.graph EXCEPT ![w] = Gone]
  /\ CallbacksOK(r, Slots) => CallbacksOK(q, Slots)

LEMMA DestroyKeeps ==
  ASSUME NEW r, NEW w, NEW cnt, NEW x, IsCount(cnt), RegOK(r, cnt, x), w \in Graphs
  PROVE  Destroys(Destroy(r, w), r, w, cnt, x)
<1> DEFINE s == r.graph[w].wdr_slot
           p == DelSweepCb(r, s, w)
           q == Destroy(r, w)
<1>0. r \in Regs /\ r.graph \in [Graphs -> GraphRecs] /\ s \in Slots \cup {-1}
  BY DEF RegOK, Regs, GraphRecs
<1>1. q = Left(p, w, Gone) /\ p \in Regs /\ p.graph = r.graph
  BY <1>0, DestroyLeaves
<1>2. /\ Alike(p, r) /\ p.astray = r.astray
      /\ s \in Occupied(r) => /\ p.devices[s].sweep_cb_l = RemoveFirst(r.devices[s].sweep_cb_l, w)
                              /\ p.devices[s].polled = r.devices[s].polled
      /\ \A u \in Slots : u # s => p.devices[u] = r.devices[u]
  <2>1. CASE s \in Occupied(r)
    <3>1. s \in Slots
      BY <2>1 DEF Occupied
    <3> HIDE DEF s
    <3> QED
      BY <1>0, <2>1, <3>1, CallbackDeleted
  <2>2. CASE s \notin Occupied(r)
    <3>1. p = r
      BY <2>2 DEF DelSweepCb
    <3>2. Alike(r, r)
      BY <1>0, AlikeSelf
    <3> HIDE DEF p, s
    <3> QED
      BY <2>2, <3>1, <3>2
  <2> QED
    BY <2>1, <2>2
<1> HIDE DEF p, q, s
<1>3. /\ RegOK(p, cnt, x) /\ Occupied(p) = Occupied(r)
      /\ \A u \in Slots : Bound(p, u) = Bound(r, u)
  BY <1>2, AlikeKeeps
<1>4. /\ RegOK(q, cnt, x) /\ q.astray = p.astray
      /\ q.graph = [p.graph EXCEPT ![w] = Gone]
      /\ \A u \in Slots : q.devices[u] = Empty \/ SameSlot(q, p, u)
      /\ Occupied(q) \subseteq Occupied(p)
  BY <1>1, <1>3, LeftKeeps
<1>5. ASSUME CallbacksOK(r, Slots) PROVE CallbacksOK(q, Slots)
  <2>1. ~ q.astray
    BY <1>2, <1>4, <1>5 DEF CallbacksOK
  <2>2. ASSUME NEW v \in Graphs PROVE q.graph[v].shown \subseteq {q.graph[v].phydev}
    <3>1. q.graph[v] = r.graph[v] \/ q.graph[v].shown = {}
      BY <1>0, <1>1, <1>4, GraphConstants
    <3> QED
      BY <1>5, <3>1 DEF CallbacksOK
  <2>3. ASSUME NEW u \in Slots
        PROVE  Bound(q, u) = Bound(r, u) \ {w} /\ (u = s <=> w \in Bound(r, u))
    <3>1. Moves(q, p, w, Gone)
      BY <1>0, <1>1, <1>4, GraphConstants DEF Moves
    <3>2. BoundMoved(q, p, w, Gone, cnt, u)
      BY <3>1, BoundMoves
    <3>3. u # -1 /\ Gone.wdr_slot = -1
      BY EmptyFacts, GraphConstants
    <3> QED
      BY <1>1, <1>3, <3>2, <3>3 DEF BoundMoved, s
  <2>4. ASSUME NEW u \in Slots \cap Occupied(q), q.devices[u].polled
        PROVE  Lists(q.devices[u].sweep_cb_l, Bound(q, u))
    <3>1. u \in Slots /\ u \in Occupied(r) /\ SameSlot(q, p, u)
      BY <1>3, <1>4, <2>4 DEF Occupied
    <3>2. CASE u = s
      <4>1. r.devices[s].polled /\ q.devices[s].sweep_cb_l = RemoveFirst(r.devices[s].sweep_cb_l, w)
        BY <1>2, <2>4, <3>1, <3>2 DEF SameSlot
      <4>2. Lists(r.devices[s].sweep_cb_l, Bound(r, s))
        BY <1>5, <3>1, <3>2, <4>1 DEF CallbacksOK
      <4>3. r.devices[s].sweep_cb_l \in Seq(Graphs)
        BY <1>0, <3>1, <3>2 DEF Regs, DevRecs
      <4> DEFINE l == r.devices[s].sweep_cb_l
                 B == Bound(r, s)
      <4>4. w \in B /\ Bound(q, s) = B \ {w}
        BY <2>3, <3>1, <3>2
      <4> HIDE DEF l, B
      <4>5. Lists(RemoveFirst(l, w), B \ {w})
        BY <4>2, <4>3, <4>4, ListRemove DEF l, B
      <4> QED
        BY <3>2, <4>1, <4>4, <4>5 DEF l
    <3>3. CASE u # s
      <4>1. r.devices[u].polled /\ q.devices[u].sweep_cb_l = r.devices[u].sweep_cb_l
        BY <1>2, <2>4, <3>1, <3>3 DEF SameSlot
      <4>2. Lists(r.devices[u].sweep_cb_l, Bound(r, u))
        BY <1>5, <3>1, <4>1 DEF CallbacksOK
      <4>3. Bound(q, u) = Bound(r, u)
        BY <2>3, <3>1, <3>3
      <4> QED
        BY <4>1, <4>2, <4>3
    <3> QED
      BY <3>2, <3>3
  <2> QED
    BY <2>1, <2>2, <2>4 DEF CallbacksOK
<1> QED
  BY <1>1, <1>2, <1>4, <1>5 DEF q, Destroys
-----------------------------------------------------------------------------
(***************************************************************************)
(* main_devopen: after k graphs of the page.                               *)
(***************************************************************************)
Unlinked(r, t) == \A i \in 1 .. NumGraphs : r.graph[<<t, i>>].wdr_slot = -1

Opened(v, r, t, s, cnt, k) ==
  /\ RegOK(v, cnt, s) /\ v.astray = r.astray /\ s \in Occupied(v)
  /\ \A w \in Graphs : v.graph[w].alive <=> r.graph[w].alive
  /\ \A i \in 1 .. k : v.graph[<<t, i>>].wdr_slot = s
  /\ \A i \in k + 1 .. NumGraphs : v.graph[<<t, i>>] = r.graph[<<t, i>>]
  /\ Unlinked(r, t) /\ CallbacksOK(r, Slots) => CallbacksOK(v, Slots)

CanOpen(r, t, s, cnt) ==
  /\ IsCount(cnt) /\ RegOK(r, cnt, s) /\ t \in Tabs /\ s \in Slots /\ s \in Occupied(r)
  /\ \A i \in 1 .. NumGraphs : r.graph[<<t, i>>].alive

LEMMA DevOpenStep ==
  ASSUME NEW r, NEW t, NEW s, NEW cnt, CanOpen(r, t, s, cnt),
         NEW k \in 1 .. NumGraphs, NEW v, Opened(v, r, t, s, cnt, k - 1)
  PROVE  Opened(BindDev(v, <<t, k>>, s), r, t, s, cnt, k)
<1> DEFINE w == <<t, k>>
           q == BindDev(v, w, s)
<1>0. /\ IsCount(cnt) /\ t \in Tabs /\ s \in Slots
      /\ \A i \in 1 .. NumGraphs : r.graph[<<t, i>>].alive
      /\ NumGraphs \in Nat
  BY BoundsAssumption DEF CanOpen
<1>1. /\ RegOK(v, cnt, s) /\ v.astray = r.astray /\ s \in Occupied(v)
      /\ \A u \in Graphs : v.graph[u].alive <=> r.graph[u].alive
      /\ \A i \in 1 .. k - 1 : v.graph[<<t, i>>].wdr_slot = s
      /\ \A i \in k .. NumGraphs : v.graph[<<t, i>>] = r.graph[<<t, i>>]
      /\ Unlinked(r, t) /\ CallbacksOK(r, Slots) => CallbacksOK(v, Slots)
  <2>1. (k - 1) + 1 = k
    BY <1>0
  <2> QED
    BY <2>1 DEF Opened
<1>2. \A i \in 1 .. NumGraphs : <<t, i>> \in Graphs /\ (i # k => <<t, i>> # w)
  BY <1>0 DEF Graphs
<1>3. w \in Graphs /\ v.graph[w] = r.graph[w] /\ r.graph[w].alive
  BY <1>0, <1>1, <1>2
<1> HIDE DEF w, q
<1>4. Binds(q, v, w, s, cnt, s)
  <2>1. CanBind(v, w, s, cnt, s)
    BY <1>0, <1>1, <1>3 DEF CanBind
  <2> QED
    BY <2>1, BindKeeps DEF q, w
<1>5. /\ RegOK(q, cnt, s) /\ q.astray = v.astray /\ s \in Occupied(q)
      /\ q.graph[w].alive /\ q.graph[w].wdr_slot = s
      /\ \A u \in Graphs : u # w => q.graph[u] = v.graph[u]
      /\ v.graph[w].wdr_slot = -1 /\ CallbacksOK(v, Slots) => CallbacksOK(q, Slots)
  BY <1>4 DEF Binds
<1>6. ASSUME NEW u \in Graphs PROVE q.graph[u].alive <=> r.graph[u].alive
  BY <1>1, <1>3, <1>5
<1>7. ASSUME NEW i \in 1 .. k PROVE q.graph[<<t, i>>].wdr_slot = s
  <2>1. CASE i = k
    BY <1>5, <2>1 DEF w
  <2>2. CASE i # k
    <3>1. i \in 1 .. k - 1 /\ i \in 1 .. NumGraphs
      BY <1>0, <2>2
    <3> QED
      BY <1>1, <1>2, <1>5, <2>2, <3>1
  <2> QED
    BY <2>1, <2>2
<1>8. ASSUME NEW i \in k + 1 .. NumGraphs PROVE q.graph[<<t, i>>] = r.graph[<<t, i>>]
  <2>1. i \in k .. NumGraphs /\ i \in 1 .. NumGraphs /\ i # k
    BY <1>0
  <2> QED
    BY <1>1, <1>2, <1>5, <2>1
<1>9. Unlinked(r, t) => v.graph[w].wdr_slot = -1
  BY <1>3 DEF Unlinked, w
<1> QED
  BY <1>1, <1>5, <1>6, <1>7, <1>8, <1>9 DEF Opened, q, w

LEMMA DevOpenKeeps ==
  ASSUME NEW r, NEW t, NEW s, NEW cnt, CanOpen(r, t, s, cnt)
  PROVE  LET q == DevOpen(r, t, s)
         IN  /\ RegOK(q, cnt, -1) /\ q.astray = r.astray /\ s \in Occupied(q)
             /\ \A w \in Graphs : q.graph[w].alive <=> r.graph[w].alive
             /\ Unlinked(r, t) /\ CallbacksOK(r, Slots) => CallbacksOK(q, Slots)
<1> DEFINE n == NumGraphs
           st == BindStep(t, s)
           P == [k \in 0 .. n |-> {v \in Regs : Opened(v, r, t, s, cnt, k)}]
           q == DevOpen(r, t, s)
<1>0. /\ n \in Nat /\ n \in 1 .. n /\ 0 \in 0 .. n /\ 1 \in 1 .. n /\ n \in 0 .. n
      /\ \A k \in 1 .. n : k \in 0 .. n /\ k - 1 \in 0 .. n
  BY BoundsAssumption
<1>1. /\ IsCount(cnt) /\ RegOK(r, cnt, s) /\ t \in Tabs /\ s \in Slots /\ s \in Occupied(r)
      /\ r \in Regs /\ \A k \in 1 .. n : <<t, k>> \in Graphs
  BY DEF CanOpen, RegOK, Graphs
<1>2. Opened(r, r, t, s, cnt, 0)
  <2>1. \A i \in 1 .. 0 : FALSE
    OBVIOUS
  <2> QED
    BY <1>1, <2>1 DEF Opened
<1>3. st \in [Regs \X (1 .. n) -> Regs] /\ \A k \in 1 .. n, v \in Regs : st[<<v, k>>] = BindDev(v, <<t, k>>, s)
  <2>1. \A k \in 1 .. n, v \in Regs : BindDev(v, <<t, k>>, s) \in Regs
    BY <1>1, BindTyped
  <2>2. \A p \in Regs \X (1 .. n) : p[1] \in Regs /\ p[2] \in 1 .. n
    OBVIOUS
  <2>3. st = [p \in Regs \X (1 .. n) |-> BindDev(p[1], <<t, p[2]>>, s)]
    BY DEF BindStep
  <2> HIDE DEF n, st
  <2> QED
    BY <2>1, <2>2, <2>3
<1> HIDE DEF st
<1>4. ASSUME NEW k \in 1 .. n, NEW v \in Regs, v \in P[k - 1] PROVE st[<<v, k>>] \in P[k]
  <2>1. Opened(v, r, t, s, cnt, k - 1)
    BY <1>0, <1>4
  <2>2. Opened(BindDev(v, <<t, k>>, s), r, t, s, cnt, k)
    BY <2>1, DevOpenStep
  <2>3. BindDev(v, <<t, k>>, s) \in Regs /\ BindDev(v, <<t, k>>, s) = st[<<v, k>>]
    BY <1>1, <1>3, BindTyped
  <2> QED
    BY <1>0, <2>2, <2>3
<1>5. r \in P[0]
  BY <1>0, <1>1, <1>2
<1>6. \A v \in P[n] : Opened(v, r, t, s, cnt, n)
  BY <1>0
<1> HIDE DEF P, n
<1>7. WalkKeeps(P, n, Regs, r, st)
  BY <1>0, <1>1, <1>3, <1>4, <1>5 DEF WalkKeeps
<1>8. PICK f : FoldTable(f, 1 .. n, Regs, r, st, LastOf(n)) /\ f[1 .. n] \in P[n]
  BY <1>7, WalkSatisfies
<1>9. q = f[1 .. n]
  BY <1>0, <1>8, DevOpenFolds DEF n, st
<1> HIDE DEF q
<1>10. Opened(q, r, t, s, cnt, n)
  BY <1>6, <1>8, <1>9
<1>11. /\ RegOK(q, cnt, s) /\ q.astray = r.astray /\ s \in Occupied(q)
       /\ \A w \in Graphs : q.graph[w].alive <=> r.graph[w].alive
       /\ q.graph[<<t, 1>>].wdr_slot = s
       /\ Unlinked(r, t) /\ CallbacksOK(r, Slots) => CallbacksOK(q, Slots)
  BY <1>0, <1>10 DEF Opened
<1>12. UsersOf(q, cnt)[s] > 0
  <2>1. <<t, 1>> \in Bound(q, s)
    BY <1>0, <1>1, <1>11 DEF Bound
  <2> QED
    BY <1>1, <2>1, UsersFacts
<1>13. RegOK(q, cnt, -1)
  BY <1>11, <1>12 DEF RegOK, CountIs
<1> QED
  BY <1>11, <1>13 DEF q
-----------------------------------------------------------------------------
(***************************************************************************)
(* del_tab: after k graphs of the page.                                    *)
(***************************************************************************)
Removed(v, r, t, cnt, k) ==
  /\ RegOK(v, cnt, -1) /\ v.astray = r.astray
  /\ \A i \in 1 .. k : v.graph[<<t, i>>] = Gone
  /\ \A u \in Tabs, i \in 1 .. NumGraphs : u # t => v.graph[<<u, i>>] = r.graph[<<u, i>>]
  /\ CallbacksOK(r, Slots) => CallbacksOK(v, Slots)

LEMMA RemoveStep ==
  ASSUME NEW r, NEW t \in Tabs, NEW cnt, IsCount(cnt),
         NEW k \in 1 .. NumGraphs, NEW v, Removed(v, r, t, cnt, k - 1)
  PROVE  Removed(Destroy(v, <<t, k>>), r, t, cnt, k)
<1> DEFINE w == <<t, k>>
           q == Destroy(v, w)
<1>0. NumGraphs \in Nat
  BY BoundsAssumption
<1>1. /\ RegOK(v, cnt, -1) /\ v.astray = r.astray
      /\ \A i \in 1 .. k - 1 : v.graph[<<t, i>>] = Gone
      /\ \A u \in Tabs, i \in 1 .. NumGraphs : u # t => v.graph[<<u, i>>] = r.graph[<<u, i>>]
      /\ CallbacksOK(r, Slots) => CallbacksOK(v, Slots)
  BY DEF Removed
<1>2. \A u \in Tabs, i \in 1 .. NumGraphs : <<u, i>> \in Graphs /\ (u # t \/ i # k => <<u, i>> # w)
  BY <1>0 DEF Graphs
<1>3. w \in Graphs
  BY <1>0, <1>2
<1> HIDE DEF w, q
<1>4. Destroys(q, v, w, cnt, -1)
  <2> DEFINE x == -1
  <2>1. RegOK(v, cnt, x)
    BY <1>1
  <2> HIDE DEF x
  <2>2. Destroys(Destroy(v, w), v, w, cnt, x)
    BY <1>3, <2>1, DestroyKeeps
  <2> QED
    BY <2>2 DEF q, x
<1>5. /\ RegOK(q, cnt, -1) /\ q.astray = v.astray /\ q.graph = [v.graph EXCEPT ![w] = Gone]
      /\ CallbacksOK(v, Slots) => CallbacksOK(q, Slots)
  BY <1>4 DEF Destroys
<1>6. v.graph \in [Graphs -> GraphRecs]
  BY <1>1 DEF RegOK, Regs
<1>7. ASSUME NEW i \in 1 .. k PROVE q.graph[<<t, i>>] = Gone
  <2>1. CASE i = k
    BY <1>3, <1>5, <1>6, <2>1 DEF w
  <2>2. CASE i # k
    <3>1. i \in 1 .. k - 1 /\ i \in 1 .. NumGraphs
      BY <1>0, <2>2
    <3> QED
      BY <1>1, <1>2, <1>5, <1>6, <2>2, <3>1
  <2> QED
    BY <2>1, <2>2
<1>8. ASSUME NEW u \in Tabs, NEW i \in 1 .. NumGraphs, u # t
      PROVE  q.graph[<<u, i>>] = r.graph[<<u, i>>]
  BY <1>1, <1>2, <1>5, <1>6, <1>8
<1> QED
  BY <1>1, <1>5, <1>7, <1>8 DEF Removed, q, w

LEMMA DestroyedKeeps ==
  ASSUME NEW r, NEW t \in Tabs, NEW cnt, IsCount(cnt), RegOK(r, cnt, -1)
  PROVE  Removed(Destroyed(r, t), r, t, cnt, NumGraphs)
<1> DEFINE n == NumGraphs
           st == DestroyStep(t)
           P == [k \in 0 .. n |-> {v \in Regs : Removed(v, r, t, cnt, k)}]
           q == Destroyed(r, t)
<1>0. /\ n \in Nat /\ 0 \in 0 .. n /\ n \in 0 .. n
      /\ \A k \in 1 .. n : k \in 0 .. n /\ k - 1 \in 0 .. n
  BY BoundsAssumption
<1>1. r \in Regs /\ \A k \in 1 .. n : <<t, k>> \in Graphs
  BY DEF RegOK, Graphs
<1>2. Removed(r, r, t, cnt, 0)
  <2>1. \A i \in 1 .. 0 : FALSE
    OBVIOUS
  <2> QED
    BY <2>1 DEF Removed
<1>3. st \in [Regs \X (1 .. n) -> Regs] /\ \A k \in 1 .. n, v \in Regs : st[<<v, k>>] = Destroy(v, <<t, k>>)
  <2>1. \A k \in 1 .. n, v \in Regs : Destroy(v, <<t, k>>) \in Regs
    BY <1>1, DestroyTyped
  <2>2. \A p \in Regs \X (1 .. n) : p[1] \in Regs /\ p[2] \in 1 .. n
    OBVIOUS
  <2>3. st = [p \in Regs \X (1 .. n) |-> Destroy(p[1], <<t, p[2]>>)]
    BY DEF DestroyStep
  <2> HIDE DEF n, st
  <2> QED
    BY <2>1, <2>2, <2>3
<1> HIDE DEF st
<1>4. ASSUME NEW k \in 1 .. n, NEW v \in Regs, v \in P[k - 1] PROVE st[<<v, k>>] \in P[k]
  <2>1. Removed(v, r, t, cnt, k - 1)
    BY <1>0, <1>4
  <2>2. Removed(Destroy(v, <<t, k>>), r, t, cnt, k)
    BY <2>1, RemoveStep
  <2>3. Destroy(v, <<t, k>>) \in Regs /\ Destroy(v, <<t, k>>) = st[<<v, k>>]
    BY <1>1, <1>3, DestroyTyped
  <2> QED
    BY <1>0, <2>2, <2>3
<1>5. r \in P[0]
  BY <1>0, <1>1, <1>2
<1>6. \A v \in P[n] : Removed(v, r, t, cnt, n)
  BY <1>0
<1> HIDE DEF P, n
<1>7. WalkKeeps(P, n, Regs, r, st)
  BY <1>0, <1>1, <1>3, <1>4, <1>5 DEF WalkKeeps
<1>8. PICK f : FoldTable(f, 1 .. n, Regs, r, st, LastOf(n)) /\ f[1 .. n] \in P[n]
  BY <1>7, WalkSatisfies
<1>9. q = f[1 .. n]
  BY <1>0, <1>8, DestroyedFolds DEF n, st
<1> HIDE DEF q
<1> QED
  BY <1>6, <1>8, <1>9 DEF q, n
-----------------------------------------------------------------------------
(***************************************************************************)
(* wdr_sweep_update.  A walk that reports a configuration or a sweep moves *)
(* no graph; the walk that reports an error empties the slot.              *)
(***************************************************************************)
CanPoll(s, cnt) ==
  IsCount(cnt) /\ RegOK(reg, cnt, -1) /\ s \in Slots /\ s \in Occupied(reg)

Listening(s) == CallbacksOK(reg, Slots) /\ reg.devices[s].polled

LEMMA PollFacts ==
  ASSUME NEW s, NEW cnt, CanPoll(s, cnt)
  PROVE  /\ reg \in Regs /\ CbList(s) \in Seq(Graphs) /\ Len(CbList(s)) \in Nat
         /\ \A k \in 1 .. Len(CbList(s)) : CbList(s)[k] \in Graphs
         /\ reg.devices[s].phydev \in Devices
         /\ Listening(s) => Lists(CbList(s), Bound(reg, s))
<1>1. reg \in Regs /\ s \in Slots /\ s \in Occupied(reg) /\ SlotsDiffer(reg)
  BY DEF CanPoll, RegOK
<1>2. reg.devices[s] \in DevRecs /\ reg.devices[s].phydev # NoDevice
  BY <1>1 DEF SlotsDiffer, Regs
<1>3. CbList(s) \in Seq(Graphs) /\ reg.devices[s].phydev \in Devices
  BY <1>2 DEF DevRecs, CbList
<1>4. Listening(s) => Lists(CbList(s), Bound(reg, s))
  BY <1>1 DEF Listening, CallbacksOK, CbList
<1> HIDE DEF CbList
<1> QED
  BY <1>1, <1>3, <1>4

LEMMA UnboundQuiet ==
  ASSUME NEW r, NEW cnt, NEW x, RegOK(r, cnt, x), NEW w \in Graphs
  PROVE  /\ r.graph[w].wdr_slot = -1 => ~ r.graph[w].sweepcache /\ r.graph[w].phydev = NoDevice
         /\ r.graph[w].wdr_slot # -1 => r.graph[w].alive
<1> DEFINE g == r.graph[w]
<1>1. GraphOK(r, g)
  BY DEF RegOK, GraphsOK
<1>2. Gone.sweepcache = FALSE /\ Unbound.sweepcache = FALSE
  BY DEF Gone, Unbound
<1> HIDE DEF g
<1>3. /\ g.wdr_slot = -1 => ~ g.sweepcache /\ g.phydev = NoDevice
      /\ g.wdr_slot # -1 => g.alive
  BY <1>1, <1>2, GraphConstants DEF GraphOK
<1> QED
  BY <1>3 DEF g

Quiet(v, s) ==
  /\ Alike(v, reg) /\ v.devices = reg.devices
  /\ Listening(s) => CallbacksOK(v, Slots)

LEMMA QuietStep ==
  ASSUME NEW s, NEW cnt, CanPoll(s, cnt), NEW mode \in {"configured", "sweep"}, NEW ws,
         NEW k \in 1 .. Len(CbList(s)), NEW v, Quiet(v, s)
  PROVE  Quiet(Called(v, CbList(s)[k], s, mode, ws), s)
<1> DEFINE l == CbList(s)
           w == l[k]
           d == reg.devices[s].phydev
           q == Called(v, w, s, mode, ws)
           f == [v EXCEPT !.astray = TRUE]
<1>1. /\ IsCount(cnt) /\ RegOK(reg, cnt, -1) /\ s \in Slots /\ s \in Occupied(reg)
      /\ Alike(v, reg) /\ v.devices = reg.devices
      /\ Listening(s) => CallbacksOK(v, Slots)
  BY DEF CanPoll, Quiet
<1>2. w \in Graphs /\ d \in Devices /\ (Listening(s) => Lists(l, Bound(reg, s)))
  BY PollFacts
<1>3. /\ RegOK(v, cnt, -1) /\ Occupied(v) = Occupied(reg)
      /\ \A u \in Slots : Bound(v, u) = Bound(reg, u)
  <2> DEFINE x == -1
  <2>1. RegOK(reg, cnt, x)
    BY <1>1
  <2> HIDE DEF x
  <2>2. /\ RegOK(v, cnt, x) /\ Occupied(v) = Occupied(reg)
        /\ \A u \in Slots : Bound(v, u) = Bound(reg, u)
    BY <1>1, <2>1, AlikeKeeps
  <2> QED
    BY <2>2 DEF x
<1>4. v \in Regs
  BY <1>3 DEF RegOK
<1>5. /\ v.graph[w].wdr_slot = -1 => ~ v.graph[w].sweepcache /\ v.graph[w].phydev = NoDevice
      /\ v.graph[w].wdr_slot # -1 => v.graph[w].alive
  BY <1>2, <1>3, UnboundQuiet
<1>6. \/ q = f /\ (v.astray \/ s \notin Occupied(v) \/ ~ CanBeCalled(v, w, mode))
      \/ q = v
      \/ CanBeCalled(v, w, mode) /\ mode = "configured" /\ q = Configured(v, w)
      \/ CanBeCalled(v, w, mode) /\ mode = "sweep" /\ q = Swept(v, w, d)
  BY DEF Called, WdrSweep
<1>7. Alike(f, v) /\ f.devices = v.devices
  BY <1>4, AstrayAlike
<1>8. CanBeCalled(v, w, "configured") => v.graph[w].wdr_slot # -1
  BY <1>5 DEF CanBeCalled
<1>9. Alike(v, v)
  BY <1>4, AlikeSelf
<1> HIDE DEF q, f, w, d
<1>10. /\ Alike(q, v) /\ q.devices = v.devices
  <2>1. CASE q = f
    BY <1>7, <2>1
  <2>2. CASE q = v
    BY <1>9, <2>2
  <2>3. CASE CanBeCalled(v, w, mode) /\ mode = "configured" /\ q = Configured(v, w)
    BY <1>2, <1>4, <1>8, <2>3, ConfiguredTyped
  <2>4. CASE q = Swept(v, w, d)
    BY <1>2, <1>4, <1>5, <2>4, SweptTyped
  <2> QED
    BY <1>6, <2>1, <2>2, <2>3, <2>4
<1>11. Alike(q, reg) /\ q.devices = reg.devices
  BY <1>1, <1>10, AlikeChain
<1>12. \A u \in Slots : Bound(q, u) = Bound(v, u)
  BY <1>10 DEF Alike, Bound
<1>13. ASSUME Listening(s) PROVE CallbacksOK(q, Slots)
  <2>1. CallbacksOK(v, Slots) /\ ~ v.astray
    BY <1>1, <1>13 DEF CallbacksOK
  <2>2. w \in Bound(v, s)
    BY <1>1, <1>2, <1>3, <1>13 DEF Lists, w
  <2>3. v.graph[w].wdr_slot = s /\ s # -1
    BY <1>1, <2>2, EmptyFacts DEF Bound
  <2>4. v.graph[w].alive /\ v.graph[w].phydev = d
    BY <1>1, <1>2, <1>3, <1>5, <2>3 DEF RegOK, GraphsOK, GraphOK, d
  <2>5. CanBeCalled(v, w, mode) /\ s \in Occupied(v)
    BY <1>1, <1>2, <1>3, <2>4, NoDeviceAssumption DEF CanBeCalled
  <2>6. /\ q.astray = v.astray
        /\ \A u \in Graphs : u # w => q.graph[u] = v.graph[u]
        /\ q.graph[w].shown \subseteq v.graph[w].shown \cup {d}
    <3>1. CASE q = v
      BY <3>1
    <3>2. CASE q = Configured(v, w)
      BY <1>2, <1>4, <3>2, ConfiguredTyped
    <3>3. CASE q = Swept(v, w, d)
      BY <1>2, <1>4, <1>5, <3>3, SweptTyped
    <3> QED
      BY <1>6, <2>1, <2>5, <3>1, <3>2, <3>3
  <2>7. ASSUME NEW u \in Graphs PROVE q.graph[u].shown \subseteq {q.graph[u].phydev}
    <3>1. q.graph[u].phydev = v.graph[u].phydev /\ v.graph[u].shown \subseteq {v.graph[u].phydev}
      BY <1>10, <2>1 DEF Alike, CallbacksOK
    <3>2. CASE u = w
      BY <2>4, <2>6, <3>1, <3>2
    <3>3. CASE u # w
      BY <2>6, <3>1, <3>3
    <3> QED
      BY <3>2, <3>3
  <2>8. Occupied(q) = Occupied(v)
    BY <1>10 DEF Occupied
  <2>9. ASSUME NEW u \in Slots \cap Occupied(q), q.devices[u].polled
        PROVE  Lists(q.devices[u].sweep_cb_l, Bound(q, u))
    BY <1>10, <1>12, <2>1, <2>8, <2>9 DEF CallbacksOK
  <2> QED
    BY <2>1, <2>6, <2>7, <2>9 DEF CallbacksOK
<1> QED
  BY <1>11, <1>13 DEF Quiet, q, w

LEMMA CallTyped ==
  ASSUME NEW s, NEW cnt, CanPoll(s, cnt), NEW mode \in Modes, NEW ws
  PROVE  LET st == CallStep(s, mode, ws)
             n == Len(CbList(s))
         IN  /\ st \in [Regs \X (1 .. n) -> Regs]
             /\ \A k \in 1 .. n, v \in Regs : st[<<v, k>>] = Called(v, CbList(s)[k], s, mode, ws)
<1> DEFINE st == CallStep(s, mode, ws)
           n == Len(CbList(s))
<1>1. /\ s \in Slots /\ \A k \in 1 .. n : CbList(s)[k] \in Graphs
      /\ reg.devices[s].phydev \in Devices
  BY PollFacts DEF CanPoll
<1>2. \A k \in 1 .. n, v \in Regs : Called(v, CbList(s)[k], s, mode, ws) \in Regs
  BY <1>1, CalledTyped
<1>3. \A p \in Regs \X (1 .. n) : p[1] \in Regs /\ p[2] \in 1 .. n
  OBVIOUS
<1>4. st = [p \in Regs \X (1 .. n) |-> Called(p[1], CbList(s)[p[2]], s, mode, ws)]
  BY DEF CallStep
<1> HIDE DEF n, st
<1>5. st \in [Regs \X (1 .. n) -> Regs]
  BY <1>2, <1>3, <1>4
<1>6. \A k \in 1 .. n, v \in Regs : st[<<v, k>>] = Called(v, CbList(s)[k], s, mode, ws)
  BY <1>4
<1> QED
  BY <1>5, <1>6 DEF st, n

LEMMA QuietKeeps ==
  ASSUME NEW s, NEW cnt, CanPoll(s, cnt), NEW mode \in {"configured", "sweep"}, NEW ws
  PROVE  Quiet(SweepUpdate(s, mode, ws), s)
<1> DEFINE n == Len(CbList(s))
           st == CallStep(s, mode, ws)
           P == [k \in 0 .. n |-> {v \in Regs : Quiet(v, s)}]
           q == SweepUpdate(s, mode, ws)
<1>a. mode \in Modes
  BY DEF Modes
<1>1. reg \in Regs /\ CbList(s) \in Seq(Graphs) /\ n \in Nat
  BY PollFacts
<1>2. /\ st \in [Regs \X (1 .. n) -> Regs]
      /\ \A k \in 1 .. n, v \in Regs : st[<<v, k>>] = Called(v, CbList(s)[k], s, mode, ws)
  BY <1>a, CallTyped
<1>3. \A k \in 1 .. n, v \in Regs : Quiet(v, s) => Quiet(Called(v, CbList(s)[k], s, mode, ws), s)
  BY QuietStep
<1>4. Quiet(reg, s)
  BY <1>1, AlikeSelf DEF Quiet, Listening
<1> HIDE DEF n, st
<1>5. /\ 0 \in 0 .. n /\ n \in 0 .. n /\ \A k \in 1 .. n : k \in 0 .. n /\ k - 1 \in 0 .. n
  BY <1>1
<1>6. \A k \in 1 .. n, v \in Regs : v \in P[k - 1] => st[<<v, k>>] \in P[k]
  <2>1. \A k \in 1 .. n, v \in Regs : st[<<v, k>>] \in Regs
    BY <1>2
  <2> QED
    BY <1>2, <1>3, <1>5, <2>1
<1>7. reg \in P[0] /\ \A v \in P[n] : Quiet(v, s)
  BY <1>1, <1>4, <1>5
<1> HIDE DEF P
<1>8. WalkKeeps(P, n, Regs, reg, st)
  BY <1>1, <1>2, <1>6, <1>7 DEF WalkKeeps
<1>9. PICK f : FoldTable(f, 1 .. n, Regs, reg, st, LastOf(n)) /\ f[1 .. n] \in P[n]
  BY <1>8, WalkSatisfies
<1>10. q = f[1 .. n]
  BY <1>1, <1>9, SweepUpdateFolds DEF n, st
<1> HIDE DEF q
<1> QED
  BY <1>7, <1>9, <1>10 DEF q
(* The error walk: after k callbacks.                                      *)
Erring(v, s, cnt, k) ==
  /\ RegOK(v, cnt, -1)
  /\ \A w \in Graphs : v.graph[w].alive <=> reg.graph[w].alive
  /\ Listening(s) =>
       /\ CallbacksOK(v, Slots \ {s})
       /\ \A w \in Graphs : w \in Bound(v, s) <=>
             \E j \in k + 1 .. Len(CbList(s)) : CbList(s)[j] = w

LEMMA ErringStep ==
  ASSUME NEW s, NEW cnt, CanPoll(s, cnt),
         NEW k \in 1 .. Len(CbList(s)), NEW v, Erring(v, s, cnt, k - 1)
  PROVE  Erring(Called(v, CbList(s)[k], s, "error", Graphs), s, cnt, k)
<1> DEFINE l == CbList(s)
           n == Len(l)
           w == l[k]
           q == Called(v, w, s, "error", Graphs)
           f == [v EXCEPT !.astray = TRUE]
<1>1. IsCount(cnt) /\ s \in Slots
  BY DEF CanPoll
<1>2. w \in Graphs /\ n \in Nat /\ (Listening(s) => Lists(l, Bound(reg, s)))
  BY PollFacts
<1>3. /\ RegOK(v, cnt, -1)
      /\ \A u \in Graphs : v.graph[u].alive <=> reg.graph[u].alive
      /\ Listening(s) =>
           /\ CallbacksOK(v, Slots \ {s})
           /\ \A u \in Graphs : u \in Bound(v, s) <=> \E j \in k .. n : l[j] = u
  <2>1. (k - 1) + 1 = k
    BY <1>2
  <2> QED
    BY <2>1 DEF Erring
<1>4. v \in Regs /\ SlotsDiffer(v) /\ CountIs(v, UsersOf(v, cnt), -1)
  BY <1>3 DEF RegOK
<1>5. \/ q = f /\ (v.astray \/ s \notin Occupied(v) \/ ~ CanBeCalled(v, w, "error"))
      \/ v.graph[w].alive /\ q = Failed(v, w)
  BY <1>2 DEF Called, WdrSweep, CanBeCalled
<1>6. Listening(s) => ~ v.astray /\ s \in Occupied(v) /\ CanBeCalled(v, w, "error") /\ w \in Bound(v, s)
  <2> SUFFICES ASSUME Listening(s)
               PROVE  ~ v.astray /\ s \in Occupied(v) /\ CanBeCalled(v, w, "error") /\ w \in Bound(v, s)
    OBVIOUS
  <2>1. k \in k .. n
    BY <1>2
  <2>2. w \in Bound(v, s) /\ ~ v.astray
    BY <1>2, <1>3, <2>1 DEF CallbacksOK
  <2>3. UsersOf(v, cnt)[s] > 0
    BY <1>1, <2>2, UsersFacts
  <2>4. v.devices[s].refcount > 0
    BY <1>1, <1>4, <2>3 DEF CountIs
  <2>5. s \in Occupied(v)
    BY <1>1, <2>4, EmptyFacts DEF Occupied
  <2>6. v.graph[w].wdr_slot # -1
    BY <1>1, <2>2, EmptyFacts DEF Bound
  <2>7. v.graph[w].alive
    BY <1>2, <1>3, <2>6, UnboundQuiet
  <2> QED
    BY <2>2, <2>5, <2>7 DEF CanBeCalled
<1>7. CASE q = f
  <2>1. ~ Listening(s)
    <3>1. CASE v.graph[w].alive /\ q = Failed(v, w)
      <4>1. f.astray = TRUE
        <5>1. v = [devices |-> v.devices, cur_dev |-> v.cur_dev, graph |-> v.graph, astray |-> v.astray]
          BY <1>4 DEF Regs
        <5> QED
          BY <5>1
      <4>2. q.astray = v.astray
        <5> DEFINE x == -1
        <5>1. RegOK(v, cnt, x)
          BY <1>3
        <5> HIDE DEF x
        <5>2. Left(v, w, Unbound).astray = v.astray
          BY <1>1, <1>2, <5>1, LeftKeeps
        <5>3. Failed(v, w) = Left(v, w, Unbound)
          BY <1>2, <1>4, <3>1, FailedLeaves
        <5> HIDE DEF q
        <5> QED
          BY <3>1, <5>2, <5>3
      <4> HIDE DEF q, f
      <4> QED
        BY <1>6, <1>7, <4>1, <4>2
    <3>2. CASE v.astray \/ s \notin Occupied(v) \/ ~ CanBeCalled(v, w, "error")
      BY <1>6, <3>2
    <3> QED
      BY <1>5, <3>1, <3>2
  <2>2. Alike(q, v) /\ q.graph = v.graph
    BY <1>4, <1>7, AstrayAlike
  <2>3. RegOK(q, cnt, -1)
    <3> DEFINE x == -1
    <3>1. RegOK(v, cnt, x)
      BY <1>3
    <3> HIDE DEF x, q
    <3>2. RegOK(q, cnt, x)
      BY <1>1, <2>2, <3>1, AlikeKeeps
    <3> QED
      BY <3>2 DEF x
  <2> HIDE DEF q
  <2>4. Erring(q, s, cnt, k)
    BY <1>3, <2>1, <2>2, <2>3 DEF Erring
  <2> QED
    BY <2>4 DEF q, w, l
<1>8. CASE v.graph[w].alive /\ q = Failed(v, w)
  <2> HIDE DEF q, w
  <2>1. q = Left(v, w, Unbound)
    BY <1>2, <1>4, <1>8, FailedLeaves
  <2>2. /\ RegOK(q, cnt, -1) /\ q.astray = v.astray
        /\ q.graph = [v.graph EXCEPT ![w] = Unbound]
        /\ \A u \in Slots : q.devices[u] = Empty \/ SameSlot(q, v, u)
        /\ Occupied(q) \subseteq Occupied(v)
    <3> DEFINE x == -1
    <3>1. RegOK(v, cnt, x)
      BY <1>3
    <3> HIDE DEF x
    <3>2. /\ RegOK(q, cnt, x) /\ q.astray = v.astray
          /\ q.graph = [v.graph EXCEPT ![w] = Unbound]
          /\ \A u \in Slots : q.devices[u] = Empty \/ SameSlot(q, v, u)
          /\ Occupied(q) \subseteq Occupied(v)
      BY <1>1, <1>2, <2>1, <3>1, LeftKeeps
    <3> QED
      BY <3>2 DEF x
  <2>3. v.graph \in [Graphs -> GraphRecs]
    BY <1>4 DEF Regs
  <2>4. ASSUME NEW u \in Graphs PROVE q.graph[u].alive <=> reg.graph[u].alive
    <3>1. CASE u = w
      <4>1. q.graph[u].alive
        BY <1>2, <2>2, <2>3, <3>1, GraphConstants
      <4> QED
        BY <1>2, <1>3, <1>8, <3>1, <4>1
    <3>2. CASE u # w
      BY <1>3, <2>2, <2>3, <3>2
    <3> QED
      BY <3>1, <3>2
  <2>5. ASSUME Listening(s)
        PROVE  /\ CallbacksOK(q, Slots \ {s})
               /\ \A u \in Graphs : u \in Bound(q, s) <=> \E j \in k + 1 .. n : l[j] = u
    <3>1. CallbacksOK(v, Slots \ {s}) /\ w \in Bound(v, s)
      BY <1>3, <1>6, <2>5
    <3>2. ASSUME NEW u \in Slots
          PROVE  Bound(q, u) = Bound(v, u) \ {w} /\ (u = s <=> w \in Bound(v, u))
      <4>1. Moves(q, v, w, Unbound)
        BY <2>2, <2>3, GraphConstants DEF Moves
      <4>2. BoundMoved(q, v, w, Unbound, cnt, u)
        BY <1>1, <1>2, <4>1, BoundMoves
      <4>3. u # -1 /\ Unbound.wdr_slot = -1
        BY EmptyFacts, GraphConstants
      <4>4. v.graph[w].wdr_slot = s
        BY <3>1 DEF Bound
      <4> QED
        BY <4>2, <4>3, <4>4 DEF BoundMoved
    <3>3. ASSUME NEW u \in (Slots \ {s}) \cap Occupied(q), q.devices[u].polled
          PROVE  Lists(q.devices[u].sweep_cb_l, Bound(q, u))
      <4>1. u \in Slots /\ u # s /\ u \in Occupied(v) /\ SameSlot(q, v, u)
        BY <2>2, <3>3 DEF Occupied
      <4>2. Lists(v.devices[u].sweep_cb_l, Bound(v, u))
        BY <3>1, <3>3, <4>1 DEF CallbacksOK, SameSlot
      <4>3. Bound(q, u) = Bound(v, u)
        BY <3>2, <4>1
      <4> QED
        BY <4>1, <4>2, <4>3 DEF SameSlot
    <3>4. ASSUME NEW u \in Graphs PROVE q.graph[u].shown \subseteq {q.graph[u].phydev}
      <4>1. q.graph[u] = v.graph[u] \/ q.graph[u].shown = {}
        BY <2>2, <2>3, GraphConstants
      <4> QED
        BY <3>1, <4>1 DEF CallbacksOK
    <3>5. CallbacksOK(q, Slots \ {s})
      BY <2>2, <3>1, <3>3, <3>4 DEF CallbacksOK
    <3>6. ASSUME NEW u \in Graphs
          PROVE  u \in Bound(q, s) <=> \E j \in k + 1 .. n : l[j] = u
      <4>1. u \in Bound(q, s) <=> u \in Bound(v, s) /\ u # w
        BY <1>1, <3>2
      <4>2. u \in Bound(v, s) <=> \E j \in k .. n : l[j] = u
        BY <1>3, <2>5
      <4>3. \A i, j \in 1 .. n : l[i] = l[j] => i = j
        BY <1>2, <2>5 DEF Lists
      <4>4. k \in 1 .. n /\ \A j \in k .. n : j \in 1 .. n /\ (j = k \/ j \in k + 1 .. n)
        BY <1>2
      <4>5. \A j \in k + 1 .. n : j \in k .. n /\ j # k
        BY <1>2
      <4> HIDE DEF n, l
      <4>6. ASSUME u \in Bound(v, s), u # w PROVE \E j \in k + 1 .. n : l[j] = u
        <5>1. PICK j \in k .. n : l[j] = u
          BY <4>2, <4>6
        <5>2. j # k
          BY <4>6, <5>1 DEF w
        <5> QED
          BY <4>4, <5>1, <5>2
      <4>7. ASSUME NEW j \in k + 1 .. n, l[j] = u PROVE u \in Bound(v, s) /\ u # w
        <5>1. j \in k .. n /\ j # k /\ j \in 1 .. n
          BY <4>4, <4>5
        <5>2. u \in Bound(v, s)
          BY <4>2, <4>7, <5>1
        <5>3. u # w
          BY <4>3, <4>4, <4>7, <5>1 DEF w
        <5> QED
          BY <5>2, <5>3
      <4> QED
        BY <4>1, <4>6, <4>7
    <3> QED
      BY <3>5, <3>6
  <2>6. Erring(q, s, cnt, k)
    BY <2>2, <2>4, <2>5 DEF Erring
  <2> QED
    BY <2>6 DEF q, w, l
<1> QED
  BY <1>5, <1>7, <1>8

LEMMA ErrorKeeps ==
  ASSUME NEW s, NEW cnt, CanPoll(s, cnt)
  PROVE  Erring(SweepUpdate(s, "error", Graphs), s, cnt, Len(CbList(s)))
<1> DEFINE n == Len(CbList(s))
           st == CallStep(s, "error", Graphs)
           P == [k \in 0 .. n |-> {v \in Regs : Erring(v, s, cnt, k)}]
           q == SweepUpdate(s, "error", Graphs)
<1>1. reg \in Regs /\ CbList(s) \in Seq(Graphs) /\ n \in Nat
  BY PollFacts
<1>2. /\ st \in [Regs \X (1 .. n) -> Regs]
      /\ \A k \in 1 .. n, v \in Regs : st[<<v, k>>] = Called(v, CbList(s)[k], s, "error", Graphs)
  <2> DEFINE mode == "error"
  <2>1. mode \in Modes
    BY DEF Modes
  <2> HIDE DEF mode
  <2> QED
    BY <2>1, CallTyped DEF mode
<1>3. \A k \in 1 .. n, v \in Regs :
        Erring(v, s, cnt, k - 1) => Erring(Called(v, CbList(s)[k], s, "error", Graphs), s, cnt, k)
  BY ErringStep
<1>4. Erring(reg, s, cnt, 0)
  <2>1. RegOK(reg, cnt, -1)
    BY DEF CanPoll
  <2>2. ASSUME Listening(s)
        PROVE  /\ CallbacksOK(reg, Slots \ {s})
               /\ \A w \in Graphs : w \in Bound(reg, s) <=> \E j \in 0 + 1 .. n : CbList(s)[j] = w
    <3>1. CallbacksOK(reg, Slots \ {s})
      BY <2>2 DEF Listening, CallbacksOK
    <3>2. Lists(CbList(s), Bound(reg, s))
      BY <2>2, PollFacts
    <3>3. 0 + 1 .. n = 1 .. n
      OBVIOUS
    <3> QED
      BY <3>1, <3>2, <3>3 DEF Lists
  <2> QED
    BY <2>1, <2>2 DEF Erring
<1> HIDE DEF n, st
<1>5. /\ 0 \in 0 .. n /\ n \in 0 .. n /\ \A k \in 1 .. n : k \in 0 .. n /\ k - 1 \in 0 .. n
  BY <1>1
<1>6. \A k \in 1 .. n, v \in Regs : v \in P[k - 1] => st[<<v, k>>] \in P[k]
  <2>1. \A k \in 1 .. n, v \in Regs : st[<<v, k>>] \in Regs
    BY <1>2
  <2> QED
    BY <1>2, <1>3, <1>5, <2>1
<1>7. reg \in P[0] /\ \A v \in P[n] : Erring(v, s, cnt, n)
  BY <1>1, <1>4, <1>5
<1> HIDE DEF P
<1>8. WalkKeeps(P, n, Regs, reg, st)
  BY <1>1, <1>2, <1>6, <1>7 DEF WalkKeeps
<1>9. PICK f : FoldTable(f, 1 .. n, Regs, reg, st, LastOf(n)) /\ f[1 .. n] \in P[n]
  BY <1>8, WalkSatisfies
<1>10. q = f[1 .. n]
  BY <1>1, <1>9, SweepUpdateFolds DEF n, st
<1> HIDE DEF q
<1> QED
  BY <1>7, <1>9, <1>10 DEF q, n
-----------------------------------------------------------------------------
(***************************************************************************)
(* The menu: an entry holds one reference.                                 *)
(***************************************************************************)
LEMMA AnyChooses == \A U : Chooses(AnyOf(U), U)
BY DEF Chooses, AnyOf

LEMMA MenuFacts ==
  ASSUME NEW S \in SUBSET Slots
  PROVE  /\ IsCount(MenuRefs(S))
         /\ \A s \in Slots : MenuRefs(S)[s] = IF s \in S THEN 1 ELSE 0
         /\ \A s \in S : [MenuRefs(S \ {s}) EXCEPT ![s] = @ + 1] = MenuRefs(S)
BY DEF MenuRefs, IsCount

EntryMoves(q, r, S, s) == q.graph = r.graph /\ S \in SUBSET Slots /\ s \in S

EntryCounts(q, r, S, s) ==
  /\ UsersOf(q, MenuRefs(S)) = [UsersOf(r, MenuRefs(S \ {s})) EXCEPT ![s] = @ + 1]
  /\ UsersOf(q, MenuRefs(S \ {s})) = [UsersOf(r, MenuRefs(S)) EXCEPT ![s] = @ - 1]
  /\ UsersOf(r, MenuRefs(S))[s] > 0

LEMMA MenuUsers ==
  ASSUME NEW q, NEW r, NEW S, NEW s, EntryMoves(q, r, S, s)
  PROVE  EntryCounts(q, r, S, s)
<1> DEFINE a == UsersOf(r, MenuRefs(S))
           b == UsersOf(r, MenuRefs(S \ {s}))
<1>0. S \in SUBSET Slots /\ s \in S /\ q.graph = r.graph
  BY DEF EntryMoves
<1>1. \A u \in Slots : Bound(q, u) = Bound(r, u)
  BY <1>0 DEF Bound
<1>2. UsersOf(q, MenuRefs(S)) = a /\ UsersOf(q, MenuRefs(S \ {s})) = b
  BY <1>1 DEF UsersOf
<1>3. /\ IsCount(a) /\ IsCount(b)
      /\ \A u \in Slots : /\ Cardinality(Bound(r, u)) \in Nat
                          /\ a[u] = Cardinality(Bound(r, u)) + MenuRefs(S)[u]
                          /\ b[u] = Cardinality(Bound(r, u)) + MenuRefs(S \ {s})[u]
  <2> DEFINE S1 == S \ {s}
  <2>1. S1 \in SUBSET Slots
    BY <1>0
  <2> HIDE DEF S1
  <2>2. IsCount(MenuRefs(S)) /\ IsCount(MenuRefs(S1))
    BY <1>0, <2>1, MenuFacts
  <2> QED
    BY <2>2, UsersFacts DEF S1
<1>4. \A u \in Slots : /\ MenuRefs(S)[u] = IF u \in S THEN 1 ELSE 0
                       /\ MenuRefs(S \ {s})[u] = IF u \in S /\ u # s THEN 1 ELSE 0
  BY DEF MenuRefs
<1> HIDE DEF a, b
<1>5. ASSUME NEW u \in Slots PROVE a[u] = IF u = s THEN b[u] + 1 ELSE b[u]
  <2> DEFINE n == Cardinality(Bound(r, u))
             i == MenuRefs(S)[u]
             j == MenuRefs(S \ {s})[u]
  <2>1. n \in Nat /\ a[u] = n + i /\ b[u] = n + j
    BY <1>3
  <2>2. CASE u = s
    <3>1. i = 1 /\ j = 0
      BY <1>0, <1>4, <2>2
    <3> HIDE DEF n, i, j
    <3> QED
      BY <2>1, <2>2, <3>1
  <2>3. CASE u # s
    <3>1. i = j
      BY <1>0, <1>4, <2>3
    <3> HIDE DEF n, i, j
    <3> QED
      BY <2>1, <2>3, <3>1
  <2> QED
    BY <2>2, <2>3
<1>6. s \in Slots /\ a[s] > 0
  <2> DEFINE n == Cardinality(Bound(r, s))
  <2>1. s \in Slots /\ n \in Nat /\ a[s] = n + 1
    BY <1>0, <1>3, <1>4
  <2> HIDE DEF n
  <2> QED
    BY <2>1
<1>7. a = [b EXCEPT ![s] = @ + 1] /\ b = [a EXCEPT ![s] = @ - 1]
  BY <1>3, <1>5, <1>6 DEF IsCount
<1> QED
  BY <1>2, <1>6, <1>7 DEF a, b, EntryCounts

(* The entries of u refer to their slots.                                  *)
Reffed(v, r, u) ==
  /\ RegOK(v, MenuRefs(u), -1) /\ v.graph = r.graph /\ v.astray = r.astray
  /\ Occupied(v) = Occupied(r) /\ \A s \in Slots : SameSlot(v, r, s)

LEMMA RefStep ==
  ASSUME NEW r, NEW v, NEW u \in SUBSET Occupied(r), NEW s \in u, Reffed(v, r, u \ {s})
  PROVE  Reffed(AddRef(v, s), r, u)
<1> DEFINE u1 == u \ {s}
           c == UsersOf(v, MenuRefs(u1))
           q == AddRef(v, s)
           x == -1
<1>0. s \in Slots /\ u \in SUBSET Slots /\ u1 \in SUBSET Slots
  BY DEF Occupied
<1>1. /\ v \in Regs /\ SlotsDiffer(v) /\ CountIs(v, c, x) /\ GraphsOK(v)
      /\ v.graph = r.graph /\ v.astray = r.astray
      /\ Occupied(v) = Occupied(r) /\ \A y \in Slots : SameSlot(v, r, y)
  BY DEF Reffed, RegOK
<1>2. IsCount(c)
  BY <1>0, MenuFacts, UsersFacts
<1>3. s \in Occupied(v)
  BY <1>1
<1> HIDE DEF c, x, q
<1>4. /\ q \in Regs /\ SlotsDiffer(q) /\ CountIs(q, [c EXCEPT ![s] = @ + 1], x)
      /\ q.graph = v.graph /\ q.astray = v.astray
      /\ \A y \in Slots : SameSlot(q, v, y)
      /\ Occupied(q) = Occupied(v)
  BY <1>0, <1>1, <1>2, <1>3, AddRefCounts DEF q
<1>5. UsersOf(q, MenuRefs(u)) = [c EXCEPT ![s] = @ + 1]
  <2>1. EntryMoves(q, v, u, s)
    BY <1>0, <1>4 DEF EntryMoves
  <2>2. EntryCounts(q, v, u, s)
    BY <2>1, MenuUsers
  <2> QED
    BY <2>2 DEF c, u1, EntryCounts
<1>6. GraphsOK(q)
  <2>1. ASSUME NEW w \in Graphs PROVE GraphOK(q, q.graph[w])
    <3>1. v.graph[w].wdr_slot # -1 => v.graph[w].wdr_slot \in Slots
      BY <1>1 DEF Regs, GraphRecs
    <3>2. GraphOK(v, v.graph[w])
      BY <1>1 DEF GraphsOK
    <3> QED
      BY <1>4, <3>1, <3>2 DEF GraphOK, SameSlot
  <2> QED
    BY <2>1 DEF GraphsOK
<1>7. \A y \in Slots : SameSlot(q, r, y)
  BY <1>1, <1>4 DEF SameSlot
<1> QED
  BY <1>1, <1>4, <1>5, <1>6, <1>7 DEF Reffed, RegOK, q, x

LEMMA AddRefsKeep ==
  ASSUME NEW r, RegOK(r, MenuRefs({}), -1)
  PROVE  LET q == AddRefs(r, Occupied(r))
         IN  /\ RegOK(q, MenuRefs(Occupied(r)), -1) /\ q.graph = r.graph /\ q.astray = r.astray
             /\ Occupied(q) = Occupied(r) /\ \A s \in Slots : SameSlot(q, r, s)
<1> DEFINE U == Occupied(r)
           st == AddRefStep(U)
           ch == AnyOf(U)
           P == [u \in SUBSET U |-> {v \in Regs : Reffed(v, r, u)}]
           q == AddRefs(r, U)
<1>1. r \in Regs /\ U \subseteq Slots /\ IsFiniteSet(U) /\ Chooses(ch, U)
  BY OccupiedFinite, AnyChooses DEF RegOK
<1>2. Reffed(r, r, {})
  BY DEF Reffed, SameSlot
<1>3. \A v \in Regs, s \in U : AddRef(v, s) \in Regs
  BY <1>1, RefsTyped
<1>4. st \in [Regs \X U -> Regs] /\ \A v \in Regs, s \in U : st[<<v, s>>] = AddRef(v, s)
  <2>1. \A p \in Regs \X U : p[1] \in Regs /\ p[2] \in U
    OBVIOUS
  <2>2. st = [p \in Regs \X U |-> AddRef(p[1], p[2])]
    BY DEF AddRefStep
  <2> HIDE DEF U, st
  <2> QED
    BY <1>3, <2>1, <2>2
<1>5. \A u \in SUBSET U, s \in U, v \in Regs : s \in u /\ Reffed(v, r, u \ {s}) => Reffed(AddRef(v, s), r, u)
  BY RefStep
<1> HIDE DEF U, st, ch
<1>6. ASSUME NEW u \in SUBSET U, u # {}, NEW v \in Regs, v \in P[u \ {ch[u]}]
      PROVE  st[<<v, ch[u]>>] \in P[u]
  <2>1. ch[u] \in u /\ ch[u] \in U /\ u \ {ch[u]} \in SUBSET U
    BY <1>1, <1>6 DEF Chooses
  <2>2. Reffed(v, r, u \ {ch[u]})
    BY <1>6, <2>1
  <2>3. Reffed(AddRef(v, ch[u]), r, u)
    BY <1>5, <2>1, <2>2
  <2> QED
    BY <1>3, <1>4, <2>1, <2>3
<1>7. r \in P[{}] /\ \A v \in P[U] : Reffed(v, r, U)
  BY <1>1, <1>2
<1> HIDE DEF P
<1>8. FoldKeeps(P, U, Regs, r, st, ch)
  BY <1>1, <1>4, <1>6, <1>7 DEF FoldKeeps
<1>9. PICK f : FoldTable(f, U, Regs, r, st, ch) /\ f[U] \in P[U]
  BY <1>8, FoldSatisfies
<1>10. q = f[U]
  BY <1>9, AddRefsFolds DEF st, ch
<1> HIDE DEF q
<1>11. Reffed(q, r, U)
  BY <1>7, <1>9, <1>10
<1> QED
  BY <1>11 DEF Reffed, q, U
(* The references of the entries of u, of S, are given back.               *)
Released(v, r, S, u) ==
  /\ RegOK(v, MenuRefs(S \ u), -1) /\ v.graph = r.graph /\ v.astray = r.astray
  /\ Occupied(v) \subseteq Occupied(r)
  /\ \A s \in Slots : v.devices[s] = Empty \/ SameSlot(v, r, s)

LEMMA ReleaseStep ==
  ASSUME NEW r, NEW v, NEW S \in SUBSET Slots, NEW u \in SUBSET S, NEW s \in u,
         Released(v, r, S, u \ {s})
  PROVE  Released(DelRef(v, s), r, S, u)
<1> DEFINE T == S \ (u \ {s})
           c == UsersOf(v, MenuRefs(T))
           q == DelRef(v, s)
           x == -1
           d == UsersOf(q, MenuRefs(T \ {s}))
<1>0. s \in Slots /\ T \in SUBSET Slots /\ s \in T /\ T \ {s} = S \ u /\ T \ {s} \in SUBSET Slots
  OBVIOUS
<1>1. /\ v \in Regs /\ SlotsDiffer(v) /\ CountIs(v, c, x) /\ GraphsOK(v)
      /\ v.graph = r.graph /\ v.astray = r.astray
      /\ Occupied(v) \subseteq Occupied(r)
      /\ \A y \in Slots : v.devices[y] = Empty \/ SameSlot(v, r, y)
  BY DEF Released, RegOK
<1> HIDE DEF T
<1>2. IsCount(c) /\ IsCount(MenuRefs(T \ {s}))
  BY <1>0, MenuFacts, UsersFacts
<1>3. EntryCounts(v, v, T, s)
  BY <1>0, MenuUsers DEF EntryMoves
<1>4. c[s] > 0
  BY <1>3 DEF EntryCounts
<1> HIDE DEF c, x, q, d
<1>5. /\ q \in Regs /\ SlotsDiffer(q) /\ CountIs(q, [c EXCEPT ![s] = @ - 1], x)
      /\ q.graph = v.graph /\ q.astray = v.astray
      /\ \A y \in Slots : q.devices[y] = Empty \/ SameSlot(q, v, y)
      /\ Occupied(q) \subseteq Occupied(v)
  BY <1>0, <1>1, <1>2, <1>4, DelRefCounts DEF q
<1>6. d = [c EXCEPT ![s] = @ - 1]
  <2>1. EntryMoves(q, v, T, s)
    BY <1>0, <1>5 DEF EntryMoves
  <2>2. EntryCounts(q, v, T, s)
    BY <2>1, MenuUsers
  <2> QED
    BY <2>2 DEF c, d, EntryCounts
<1>7. GraphsOK(q)
  <2>1. ASSUME NEW w \in Graphs PROVE GraphOK(q, q.graph[w])
    <3> DEFINE g == v.graph[w]
    <3>1. g.wdr_slot # -1 => g.wdr_slot \in Slots
      BY <1>1 DEF Regs, GraphRecs
    <3>2. GraphOK(v, g) /\ q.graph[w] = g
      BY <1>1, <1>5 DEF GraphsOK
    <3>3. CASE g.wdr_slot = -1
      BY <3>2, <3>3 DEF GraphOK
    <3>4. CASE g.wdr_slot # -1
      <4> DEFINE y == g.wdr_slot
      <4>1. y \in Slots /\ w \in Bound(q, y)
        BY <3>1, <3>2, <3>4 DEF Bound
      <4> HIDE DEF y
      <4>2. d[y] > 0
        BY <1>2, <4>1, UsersFacts DEF d
      <4>3. q.devices[y].refcount > 0
        BY <1>5, <1>6, <4>1, <4>2 DEF CountIs
      <4>4. q.devices[y].phydev = v.devices[y].phydev
        BY <1>5, <4>1, <4>3, EmptyFacts DEF SameSlot
      <4>5. g.phydev = v.devices[y].phydev
        BY <3>2, <3>4 DEF GraphOK, y
      <4> QED
        BY <3>2, <3>4, <4>4, <4>5 DEF GraphOK, y
    <3> QED
      BY <3>3, <3>4
  <2> QED
    BY <2>1 DEF GraphsOK
<1>8. ASSUME NEW y \in Slots PROVE q.devices[y] = Empty \/ SameSlot(q, r, y)
  <2>1. CASE q.devices[y] = Empty
    BY <2>1
  <2>2. CASE SameSlot(q, v, y) /\ v.devices[y] = Empty /\ q.devices[y] # Empty
    <3>1. y \in Occupied(q)
      BY <2>2 DEF Occupied
    <3> QED
      BY <1>5, <2>2, <3>1 DEF Occupied
  <2>3. CASE SameSlot(q, v, y) /\ SameSlot(v, r, y)
    BY <2>3 DEF SameSlot
  <2> QED
    BY <1>1, <1>5, <2>1, <2>2, <2>3
<1> QED
  BY <1>0, <1>1, <1>5, <1>6, <1>7, <1>8 DEF Released, RegOK, q, x, d

(* What is true of the callbacks stays true when a slot closes.            *)
LEMMA ClosingKeepsCallbacks ==
  ASSUME NEW q, NEW r, q.graph = r.graph, q.astray = r.astray,
         Occupied(q) \subseteq Occupied(r),
         \A s \in Slots : q.devices[s] = Empty \/ SameSlot(q, r, s),
         CallbacksOK(r, Slots)
  PROVE  CallbacksOK(q, Slots)
<1>1. \A s \in Slots : Bound(q, s) = Bound(r, s)
  BY DEF Bound
<1>2. ASSUME NEW s \in Slots \cap Occupied(q), q.devices[s].polled
      PROVE  Lists(q.devices[s].sweep_cb_l, Bound(q, s))
  BY <1>1, <1>2 DEF CallbacksOK, Occupied, SameSlot
<1> QED
  BY <1>2 DEF CallbacksOK

LEMMA DelRefsKeep ==
  ASSUME NEW r, NEW S \in SUBSET Slots, RegOK(r, MenuRefs(S), -1)
  PROVE  LET q == DelRefs(r, S)
         IN  /\ RegOK(q, MenuRefs({}), -1) /\ q.graph = r.graph /\ q.astray = r.astray
             /\ CallbacksOK(r, Slots) => CallbacksOK(q, Slots)
<1> DEFINE st == DelRefStep(S)
           ch == AnyOf(S)
           P == [u \in SUBSET S |-> {v \in Regs : Released(v, r, S, u)}]
           q == DelRefs(r, S)
<1>1. r \in Regs /\ S \subseteq Slots /\ IsFiniteSet(S) /\ Chooses(ch, S)
  BY OccupiedFinite, AnyChooses, FS_Subset DEF RegOK
<1>2. Released(r, r, S, {})
  <2>1. S \ {} = S
    OBVIOUS
  <2> QED
    BY <2>1 DEF Released, SameSlot
<1>3. \A v \in Regs, s \in S : DelRef(v, s) \in Regs
  BY <1>1, RefsTyped
<1>4. st \in [Regs \X S -> Regs] /\ \A v \in Regs, s \in S : st[<<v, s>>] = DelRef(v, s)
  <2>1. \A p \in Regs \X S : p[1] \in Regs /\ p[2] \in S
    OBVIOUS
  <2>2. st = [p \in Regs \X S |-> DelRef(p[1], p[2])]
    BY DEF DelRefStep
  <2> HIDE DEF st
  <2> QED
    BY <1>3, <2>1, <2>2
<1>5. \A u \in SUBSET S, s \in S, v \in Regs : s \in u /\ Released(v, r, S, u \ {s}) => Released(DelRef(v, s), r, S, u)
  BY ReleaseStep
<1> HIDE DEF st, ch
<1>6. ASSUME NEW u \in SUBSET S, u # {}, NEW v \in Regs, v \in P[u \ {ch[u]}]
      PROVE  st[<<v, ch[u]>>] \in P[u]
  <2>1. ch[u] \in u /\ ch[u] \in S /\ u \ {ch[u]} \in SUBSET S
    BY <1>1, <1>6 DEF Chooses
  <2>2. Released(v, r, S, u \ {ch[u]})
    BY <1>6, <2>1
  <2>3. Released(DelRef(v, ch[u]), r, S, u)
    BY <1>5, <2>1, <2>2
  <2> QED
    BY <1>3, <1>4, <2>1, <2>3
<1>7. r \in P[{}] /\ \A v \in P[S] : Released(v, r, S, S)
  BY <1>1, <1>2
<1> HIDE DEF P
<1>8. FoldKeeps(P, S, Regs, r, st, ch)
  BY <1>1, <1>4, <1>6, <1>7 DEF FoldKeeps
<1>9. PICK f : FoldTable(f, S, Regs, r, st, ch) /\ f[S] \in P[S]
  BY <1>8, FoldSatisfies
<1>10. q = f[S]
  BY <1>9, DelRefsFolds DEF st, ch
<1> HIDE DEF q
<1>11. Released(q, r, S, S) /\ S \ S = {}
  BY <1>7, <1>9, <1>10
<1>12. CallbacksOK(r, Slots) => CallbacksOK(q, Slots)
  BY <1>11, ClosingKeepsCallbacks DEF Released
<1> QED
  BY <1>11, <1>12 DEF Released, q
-----------------------------------------------------------------------------
(***************************************************************************)
(* wdr_open_add: the device's slot, or the first free one.                 *)
(***************************************************************************)
Opens(q, s, cnt) ==
  /\ s \in Slots /\ s \in Occupied(q) /\ RegOK(q, cnt, s)
  /\ q.graph = reg.graph /\ q.astray = reg.astray
  /\ CallbacksOK(reg, Slots) => CallbacksOK(q, Slots)

LEMMA SlotTaken ==
  ASSUME NEW d \in Devices, NEW cnt, IsCount(cnt), RegOK(reg, cnt, -1),
         SlotOf(d) = {}, NEW s \in Slots, s \notin Occupied(reg)
  PROVE  Opens([reg EXCEPT !.devices[s] = [Empty EXCEPT !.phydev = d, !.polled = TRUE,
                                                         !.stage = "configuring"],
                           !.cur_dev = @ + 1], s, cnt)
<1> DEFINE T == TRUE
           v == [phydev |-> d, refcount |-> 0, sweep_cb_l |-> <<>>, polled |-> T,
                 stage |-> "configuring"]
           e == [Empty EXCEPT !.phydev = d, !.polled = TRUE, !.stage = "configuring"]
           D == [reg.devices EXCEPT ![s] = v]
           m == reg.cur_dev + 1
           q == [reg EXCEPT !.devices[s] = e, !.cur_dev = @ + 1]
           c == UsersOf(reg, cnt)
<1>1. /\ reg \in Regs /\ SlotsDiffer(reg) /\ CountIs(reg, c, -1) /\ GraphsOK(reg)
      /\ IsCount(c)
  BY UsersFacts DEF RegOK
<1>2. /\ reg = [devices |-> reg.devices, cur_dev |-> reg.cur_dev, graph |-> reg.graph, astray |-> reg.astray]
      /\ reg.devices \in [Slots -> DevRecs] /\ reg.cur_dev \in Int /\ reg.astray \in BOOLEAN
      /\ reg.graph \in [Graphs -> GraphRecs]
  BY <1>1 DEF Regs
<1>3. e = v
  <2> DEFINE F == FALSE
             y1 == [phydev |-> d, refcount |-> 0, sweep_cb_l |-> <<>>, polled |-> F, stage |-> "closed"]
             y2 == [phydev |-> d, refcount |-> 0, sweep_cb_l |-> <<>>, polled |-> T, stage |-> "closed"]
  <2>1. Empty = [phydev |-> NoDevice, refcount |-> 0, sweep_cb_l |-> <<>>, polled |-> F, stage |-> "closed"]
    BY DEF Empty
  <2>2. e = [[[Empty EXCEPT !.phydev = d] EXCEPT !.polled = T] EXCEPT !.stage = "configuring"]
    OBVIOUS
  <2> HIDE DEF e, T, F
  <2>3. [Empty EXCEPT !.phydev = d] = y1
    BY <2>1
  <2>4. [y1 EXCEPT !.polled = T] = y2
    OBVIOUS
  <2>5. [y2 EXCEPT !.stage = "configuring"] = v
    OBVIOUS
  <2> QED
    BY <2>2, <2>3, <2>4, <2>5
<1>4. v \in DevRecs /\ v.phydev = d /\ v.refcount = 0 /\ v.sweep_cb_l = <<>> /\ v # Empty
  <2>1. T \in BOOLEAN /\ <<>> \in Seq(Graphs) /\ d # NoDevice
    BY NoDeviceAssumption
  <2> HIDE DEF T
  <2>2. v \in DevRecs
    BY <2>1 DEF DevRecs
  <2> QED
    BY <2>1, <2>2, EmptyFacts
<1>5. q = [devices |-> D, cur_dev |-> m, graph |-> reg.graph, astray |-> reg.astray]
  <2> HIDE DEF e, v
  <2>1. q = [[reg EXCEPT !.devices[s] = v] EXCEPT !.cur_dev = reg.cur_dev + 1]
    BY <1>2, <1>3
  <2>2. [reg EXCEPT !.devices[s] = v] = [devices |-> D, cur_dev |-> reg.cur_dev, graph |-> reg.graph, astray |-> reg.astray]
    BY <1>2
  <2> HIDE DEF D, q
  <2> QED
    BY <2>1, <2>2
<1> HIDE DEF v, e
<1>6. /\ D \in [Slots -> DevRecs] /\ D[s] = v /\ \A u \in Slots : u # s => D[u] = reg.devices[u]
      /\ m \in Int
  BY <1>2, <1>4
<1> HIDE DEF D, q, m, c
<1>7. /\ q \in Regs /\ q.devices = D /\ q.cur_dev = m /\ q.graph = reg.graph /\ q.astray = reg.astray
  BY <1>2, <1>5, <1>6 DEF Regs
<1>8. Occupied(q) = Occupied(reg) \cup {s} /\ reg.devices[s] = Empty
  BY <1>4, <1>6, <1>7 DEF Occupied
<1>9. q.cur_dev = Cardinality(Occupied(q))
  <2>1. IsFiniteSet(Occupied(reg))
    BY OccupiedFinite
  <2>2. Cardinality(Occupied(reg) \cup {s}) = Cardinality(Occupied(reg)) + 1
    BY <2>1, FS_AddElement
  <2> QED
    BY <1>1, <1>7, <1>8, <2>2 DEF SlotsDiffer, m
<1>10. SlotsDiffer(q)
  <2>1. ASSUME NEW u \in Slots PROVE u \in Occupied(q) <=> q.devices[u].phydev # NoDevice
    <3>1. CASE u = s
      BY <1>4, <1>6, <1>7, <1>8, <3>1, NoDeviceAssumption
    <3>2. CASE u # s
      BY <1>1, <1>6, <1>7, <1>8, <3>2 DEF SlotsDiffer
    <3> QED
      BY <3>1, <3>2
  <2>2. ASSUME NEW u \in Occupied(reg) PROVE reg.devices[u].phydev # d /\ u # s /\ u \in Slots
    BY <2>2 DEF SlotOf, Occupied
  <2>3. ASSUME NEW u \in Occupied(q), NEW y \in Occupied(q), q.devices[u].phydev = q.devices[y].phydev
        PROVE  u = y
    <3>1. CASE u = s /\ y = s
      BY <3>1
    <3>2. CASE u = s /\ y # s
      BY <1>4, <1>6, <1>7, <1>8, <2>2, <2>3, <3>2
    <3>3. CASE u # s /\ y = s
      BY <1>4, <1>6, <1>7, <1>8, <2>2, <2>3, <3>3
    <3>4. CASE u # s /\ y # s
      BY <1>1, <1>6, <1>7, <1>8, <2>2, <2>3, <3>4 DEF SlotsDiffer
    <3> QED
      BY <3>1, <3>2, <3>3, <3>4
  <2> QED
    BY <1>9, <2>1, <2>3 DEF SlotsDiffer
<1>11. \A u \in Slots : Bound(q, u) = Bound(reg, u)
  BY <1>7 DEF Bound
<1>12. UsersOf(q, cnt) = c
  BY <1>11 DEF UsersOf, c
<1>13. c[s] = 0 /\ Bound(reg, s) = {}
  <2>1. c[s] = 0
    BY <1>1, <1>8, EmptyFacts DEF CountIs
  <2> QED
    BY <2>1, UsersFacts DEF c
<1>14. CountIs(q, c, s)
  <2>1. ASSUME NEW u \in Slots PROVE q.devices[u].refcount = c[u]
    BY <1>1, <1>4, <1>6, <1>7, <1>13 DEF CountIs
  <2>2. ASSUME NEW u \in Occupied(q) PROVE u = s \/ c[u] > 0
    <3>1. CASE u # s
      <4>1. u \in Occupied(reg) /\ u # -1
        BY <1>8, <3>1, EmptyFacts DEF Occupied
      <4> QED
        BY <1>1, <4>1 DEF CountIs
    <3> QED
      BY <3>1
  <2> QED
    BY <2>1, <2>2 DEF CountIs
<1>15. GraphsOK(q)
  <2>1. ASSUME NEW w \in Graphs PROVE GraphOK(q, q.graph[w])
    <3> DEFINE g == reg.graph[w]
    <3>1. GraphOK(reg, g) /\ q.graph[w] = g /\ (g.wdr_slot # -1 => g.wdr_slot \in Slots)
      BY <1>1, <1>2, <1>7 DEF GraphsOK, GraphRecs
    <3>2. g.wdr_slot # s
      BY <1>13 DEF Bound
    <3>3. g.wdr_slot # -1 => q.devices[g.wdr_slot] = reg.devices[g.wdr_slot]
      BY <1>6, <1>7, <3>1, <3>2
    <3> HIDE DEF g
    <3> QED
      BY <3>1, <3>3 DEF GraphOK
  <2> QED
    BY <2>1 DEF GraphsOK
<1>16. ASSUME CallbacksOK(reg, Slots) PROVE CallbacksOK(q, Slots)
  <2>1. ASSUME NEW u \in Slots \cap Occupied(q), q.devices[u].polled
        PROVE  Lists(q.devices[u].sweep_cb_l, Bound(q, u))
    <3>1. CASE u = s
      <4> DEFINE l == q.devices[u].sweep_cb_l
      <4>1. l = <<>> /\ Bound(q, u) = {}
        BY <1>4, <1>6, <1>7, <1>11, <1>13, <3>1
      <4>2. Len(<<>>) = 0 /\ \A i \in 1 .. 0 : FALSE
        OBVIOUS
      <4> HIDE DEF l
      <4>3. Lists(l, {})
        BY <4>1, <4>2 DEF Lists
      <4> QED
        BY <4>1, <4>3 DEF l
    <3>2. CASE u # s
      <4>1. u \in Slots /\ u \in Occupied(reg) /\ q.devices[u] = reg.devices[u]
        BY <1>6, <1>7, <1>8, <3>2
      <4> QED
        BY <1>11, <1>16, <2>1, <4>1 DEF CallbacksOK
    <3> QED
      BY <3>1, <3>2
  <2>2. \A w \in Graphs : q.graph[w].shown \subseteq {q.graph[w].phydev}
    BY <1>7, <1>16 DEF CallbacksOK
  <2>3. ~ q.astray
    BY <1>7, <1>16 DEF CallbacksOK
  <2> QED
    BY <2>1, <2>2, <2>3 DEF CallbacksOK
<1> QED
  BY <1>7, <1>8, <1>10, <1>12, <1>14, <1>15, <1>16 DEF Opens, RegOK, q, e

LEMMA KnownSlot ==
  ASSUME NEW r, NEW cnt, NEW s \in Slots, RegOK(r, cnt, -1)
  PROVE  RegOK(r, cnt, s)
BY EmptyFacts DEF RegOK, CountIs, Occupied

LEMMA OpenAddOpens ==
  ASSUME NEW d \in Devices, NEW cnt, IsCount(cnt), RegOK(reg, cnt, -1), OpenAdd(d).slot >= 0
  PROVE  Opens(OpenAdd(d).reg, OpenAdd(d).slot, cnt)
<1>1. Slots \subseteq Nat /\ Occupied(reg) \subseteq Slots
  BY BoundsAssumption DEF Slots, Occupied
<1>2. CASE SlotOf(d) # {}
  <2> DEFINE s == Min(SlotOf(d))
  <2>1. OpenAdd(d).reg = reg /\ OpenAdd(d).slot = s
    BY <1>2 DEF OpenAdd
  <2>2. s \in SlotOf(d)
    <3>1. SlotOf(d) \subseteq Nat
      BY <1>1 DEF SlotOf
    <3> QED
      BY <1>2, <3>1, MinOfNat
  <2> HIDE DEF s
  <2>3. s \in Slots /\ s \in Occupied(reg)
    BY <1>1, <2>2 DEF SlotOf
  <2>4. RegOK(reg, cnt, s)
    BY <2>3, KnownSlot
  <2> QED
    BY <2>1, <2>3, <2>4 DEF Opens
<1>3. CASE SlotOf(d) = {}
  <2>1. ~ (reg.cur_dev >= MaxDev)
    BY <1>3 DEF OpenAdd
  <2>2. FirstFree \in Slots \ Occupied(reg)
    <3>1. Slots # Occupied(reg)
      <4>1. reg.cur_dev = Cardinality(Occupied(reg)) /\ Cardinality(Slots) = MaxDev /\ MaxDev \in Nat
        BY BoundsAssumption, OccupiedFinite DEF RegOK, SlotsDiffer
      <4> QED
        BY <2>1, <4>1
    <3>2. Slots \ Occupied(reg) # {} /\ Slots \ Occupied(reg) \subseteq Nat
      BY <1>1, <3>1
    <3> QED
      BY <3>2, MinOfNat DEF FirstFree
  <2> DEFINE s == FirstFree
             q == [reg EXCEPT !.devices[s] = [Empty EXCEPT !.phydev = d, !.polled = TRUE,
                                                            !.stage = "configuring"],
                              !.cur_dev = @ + 1]
  <2>3. OpenAdd(d).reg = q /\ OpenAdd(d).slot = s
    BY <1>3, <2>1 DEF OpenAdd
  <2> HIDE DEF s
  <2>4. Opens(q, s, cnt)
    BY <1>3, <2>2, SlotTaken DEF s
  <2> QED
    BY <2>3, <2>4
<1> QED
  BY <1>2, <1>3
(* add_tab: the graphs of a new page have no device.                       *)
LEMMA PageBuilt ==
  ASSUME NEW r, NEW cnt, IsCount(cnt), RegOK(r, cnt, -1), NEW t \in Tabs, Fresh(r, t)
  PROVE  LET q == BuildPage(r, t)
         IN  /\ RegOK(q, cnt, -1) /\ q.astray = r.astray
             /\ \A i \in 1 .. NumGraphs : q.graph[<<t, i>>].alive
             /\ \A u \in Tabs, i \in 1 .. NumGraphs : u # t => q.graph[<<u, i>>] = r.graph[<<u, i>>]
             /\ CallbacksOK(r, Slots) => CallbacksOK(q, Slots)
<1> DEFINE G == [w \in Graphs |-> IF w[1] = t THEN Unbound ELSE r.graph[w]]
           q == BuildPage(r, t)
<1>1. /\ r \in Regs /\ SlotsDiffer(r) /\ CountIs(r, UsersOf(r, cnt), -1) /\ GraphsOK(r)
  BY DEF RegOK
<1>2. /\ r = [devices |-> r.devices, cur_dev |-> r.cur_dev, graph |-> r.graph, astray |-> r.astray]
      /\ r.devices \in [Slots -> DevRecs] /\ r.cur_dev \in Int /\ r.astray \in BOOLEAN
      /\ r.graph \in [Graphs -> GraphRecs]
  BY <1>1 DEF Regs
<1>3. q = [devices |-> r.devices, cur_dev |-> r.cur_dev, graph |-> G, astray |-> r.astray]
  <2>1. q = [r EXCEPT !.graph = G]
    BY DEF BuildPage
  <2> HIDE DEF G, q
  <2> QED
    BY <1>2, <2>1
<1>4. ASSUME NEW w \in Graphs, w[1] = t PROVE r.graph[w] = Gone
  <2>1. PICK k \in 1 .. NumGraphs : w = <<t, k>>
    BY <1>4 DEF Graphs
  <2>2. ~ r.graph[w].alive
    BY <2>1 DEF Fresh
  <2> QED
    BY <1>1, <2>2 DEF GraphsOK, GraphOK
<1>5. \A w \in Graphs : G[w] = IF w[1] = t THEN Unbound ELSE r.graph[w]
  OBVIOUS
<1>6. G \in [Graphs -> GraphRecs]
  BY <1>2, GraphConstants
<1> HIDE DEF G, q
<1>7. q \in Regs /\ q.devices = r.devices /\ q.cur_dev = r.cur_dev /\ q.graph = G /\ q.astray = r.astray
  BY <1>2, <1>3, <1>6 DEF Regs
<1>8. ASSUME NEW w \in Graphs
      PROVE  /\ G[w].wdr_slot = r.graph[w].wdr_slot /\ G[w].phydev = r.graph[w].phydev
             /\ G[w].shown = r.graph[w].shown
  BY <1>4, <1>5, GraphConstants
<1>9. \A u \in Slots : Bound(q, u) = Bound(r, u)
  BY <1>7, <1>8 DEF Bound
<1>10. UsersOf(q, cnt) = UsersOf(r, cnt)
  BY <1>9 DEF UsersOf
<1>11. Occupied(q) = Occupied(r)
  BY <1>7 DEF Occupied
<1>12. SlotsDiffer(q) /\ CountIs(q, UsersOf(r, cnt), -1)
  BY <1>1, <1>7, <1>11 DEF SlotsDiffer, CountIs
<1>13. GraphsOK(q)
  <2>1. ASSUME NEW w \in Graphs PROVE GraphOK(q, G[w])
    <3>1. CASE w[1] = t
      BY <1>5, <3>1, GraphConstants
    <3>2. CASE w[1] # t
      BY <1>1, <1>5, <1>7, <3>2 DEF GraphsOK, GraphOK
    <3> QED
      BY <3>1, <3>2
  <2> QED
    BY <1>7, <2>1 DEF GraphsOK
<1>14. ASSUME CallbacksOK(r, Slots) PROVE CallbacksOK(q, Slots)
  <2>1. \A u \in Slots \cap Occupied(q) : q.devices[u].polled =>
          Lists(q.devices[u].sweep_cb_l, Bound(q, u))
    BY <1>7, <1>9, <1>11, <1>14 DEF CallbacksOK
  <2>2. \A w \in Graphs : q.graph[w].shown \subseteq {q.graph[w].phydev}
    BY <1>7, <1>8, <1>14 DEF CallbacksOK
  <2> QED
    BY <1>7, <1>14, <2>1, <2>2 DEF CallbacksOK
<1>15. ASSUME NEW u \in Tabs, NEW i \in 1 .. NumGraphs
       PROVE  /\ u = t => q.graph[<<u, i>>].alive
              /\ u # t => q.graph[<<u, i>>] = r.graph[<<u, i>>]
  <2>1. <<u, i>> \in Graphs /\ <<u, i>>[1] = u
    BY DEF Graphs
  <2> QED
    BY <1>5, <1>7, <2>1, GraphConstants
<1> QED
  BY <1>7, <1>10, <1>12, <1>13, <1>14, <1>15 DEF RegOK, q

(* wdr_poll writes to the device itself.                                   *)
LEMMA Unpolled ==
  ASSUME NEW r \in Regs, NEW s \in Slots, s \in Occupied(r)
  PROVE  LET q == [r EXCEPT !.devices[s].polled = FALSE]
         IN  /\ Alike(q, r) /\ q.graph = r.graph /\ q.astray = r.astray
             /\ ~ q.devices[s].polled
             /\ \A u \in Slots : u # s => q.devices[u] = r.devices[u]
<1> DEFINE F == FALSE
           v == [r.devices[s] EXCEPT !.polled = F]
           q == [r EXCEPT !.devices[s].polled = F]
<1>1. r.devices[s] \in DevRecs /\ r.devices[s] # Empty
  BY SlotFacts
<1>2. F \in BOOLEAN /\ ~ F
  OBVIOUS
<1>3. q = [r EXCEPT !.devices[s] = v]
  OBVIOUS
<1> HIDE DEF F
<1>4. /\ v \in DevRecs /\ v.phydev = r.devices[s].phydev /\ v.refcount = r.devices[s].refcount
      /\ v.polled = F
  BY <1>1, <1>2 DEF DevRecs
<1> HIDE DEF v, q
<1>5. /\ Alike(q, r) /\ q.graph = r.graph /\ q.astray = r.astray
      /\ q.devices[s] = v /\ \A u \in Slots : u # s => q.devices[u] = r.devices[u]
  BY <1>1, <1>3, <1>4, SlotWritten
<1> QED
  BY <1>2, <1>4, <1>5 DEF q, F

LEMMA Staged ==
  ASSUME NEW r, NEW cnt, IsCount(cnt), RegOK(r, cnt, -1), NEW s \in Slots, s \in Occupied(r),
         NEW e \in {"closed", "configuring", "running", "error"}
  PROVE  LET q == [r EXCEPT !.devices[s].stage = e]
         IN  /\ RegOK(q, cnt, -1) /\ q.graph = r.graph
             /\ CallbacksOK(r, Slots) => CallbacksOK(q, Slots)
<1> DEFINE v == [r.devices[s] EXCEPT !.stage = e]
           q == [r EXCEPT !.devices[s].stage = e]
           x == -1
<1>0. r \in Regs /\ RegOK(r, cnt, x)
  BY DEF RegOK
<1>1. r.devices[s] \in DevRecs /\ r.devices[s] # Empty
  BY <1>0, SlotFacts
<1>3. q = [r EXCEPT !.devices[s] = v]
  OBVIOUS
<1>4. /\ v \in DevRecs /\ v.phydev = r.devices[s].phydev /\ v.refcount = r.devices[s].refcount
      /\ v.polled = r.devices[s].polled /\ v.sweep_cb_l = r.devices[s].sweep_cb_l
  BY <1>1 DEF DevRecs
<1> HIDE DEF v, q, x
<1>5. /\ Alike(q, r) /\ q.graph = r.graph /\ q.astray = r.astray
      /\ q.devices[s] = v /\ \A u \in Slots : u # s => q.devices[u] = r.devices[u]
  BY <1>0, <1>1, <1>3, <1>4, SlotWritten
<1>6. /\ RegOK(q, cnt, x) /\ Occupied(q) = Occupied(r)
      /\ \A u \in Slots : Bound(q, u) = Bound(r, u)
  BY <1>0, <1>5, AlikeKeeps
<1>7. ASSUME CallbacksOK(r, Slots) PROVE CallbacksOK(q, Slots)
  <2>1. ASSUME NEW u \in Slots
        PROVE  /\ q.devices[u].polled = r.devices[u].polled
               /\ q.devices[u].sweep_cb_l = r.devices[u].sweep_cb_l
    BY <1>4, <1>5
  <2>2. \A u \in Slots \cap Occupied(q) : q.devices[u].polled =>
          Lists(q.devices[u].sweep_cb_l, Bound(q, u))
    BY <1>6, <1>7, <2>1 DEF CallbacksOK
  <2> QED
    BY <1>5, <1>7, <2>2 DEF CallbacksOK
<1> QED
  BY <1>5, <1>6, <1>7 DEF q, x
(* The pickers of one tab are not more than those of all.                  *)
OpenPickers == FoldFunction(LAMBDA n, m : n + m, 0, pickers)

PickerTable(f, U) ==
  f = [u \in SUBSET U |->
         IF u = {} THEN 0
         ELSE pickers[CHOOSE x \in u : TRUE] + f[u \ {CHOOSE x \in u : TRUE}]]

LEMMA PickersFold ==
  ASSUME NEW f, PickerTable(f, DOMAIN pickers)
  PROVE  \E g : PickerTable(g, DOMAIN pickers) /\ OpenPickers = g[DOMAIN pickers]
BY DEF PickerTable, OpenPickers, FoldFunction, FoldFunctionOnSet, MapThenFoldSet

LEMMA PickersCounted ==
  ASSUME pickers \in [Tabs -> Nat]
  PROVE  OpenPickers \in Nat /\ \A t \in Tabs : pickers[t] <= OpenPickers
<1> DEFINE U == Tabs
           N == Nat
           z == 0
           ch == AnyOf(U)
           st == [p \in N \X U |-> pickers[p[2]] + p[1]]
           P == [u \in SUBSET U |-> {n \in N : \A x \in u : pickers[x] <= n}]
<1>1. IsFiniteSet(U) /\ Chooses(ch, U) /\ z \in N
  BY TabsAssumption, AnyChooses
<1>2. \A u \in SUBSET U : ch[u] = CHOOSE x \in u : TRUE
  BY DEF AnyOf
<1>3. \A n \in N, x \in U : pickers[x] + n \in N /\ pickers[x] \in N
  OBVIOUS
<1>4. st \in [N \X U -> N] /\ \A n \in N, x \in U : st[<<n, x>>] = pickers[x] + n
  BY <1>3
<1>5. \A n \in N, m \in N, k \in N : k <= n => k <= m + n /\ m <= m + n
  OBVIOUS
<1>a. \A n \in N, m \in N : m <= m + n
  OBVIOUS
<1>6. DOMAIN pickers = U
  OBVIOUS
<1>b. \A n, m : PickerTable(n, m) <=>
        n = [u \in SUBSET m |-> IF u = {} THEN z
                                ELSE pickers[CHOOSE x \in u : TRUE] + n[u \ {CHOOSE x \in u : TRUE}]]
  BY DEF PickerTable
<1> HIDE DEF U, N, z, ch, st
<1>7. ASSUME NEW u \in SUBSET U, u # {}, NEW v \in N, v \in P[u \ {ch[u]}]
      PROVE  st[<<v, ch[u]>>] \in P[u]
  <2>1. ch[u] \in u /\ ch[u] \in U /\ u \ {ch[u]} \in SUBSET U
    BY <1>1, <1>7 DEF Chooses
  <2>2. \A x \in u \ {ch[u]} : pickers[x] <= v
    BY <1>7, <2>1
  <2>3. st[<<v, ch[u]>>] = pickers[ch[u]] + v /\ pickers[ch[u]] + v \in N
    BY <1>3, <1>4, <2>1
  <2>4. \A x \in u : pickers[x] <= pickers[ch[u]] + v
    <3>1. ASSUME NEW x \in u PROVE pickers[x] <= pickers[ch[u]] + v
      <4>1. x \in U /\ pickers[x] \in N /\ pickers[ch[u]] \in N
        BY <1>3, <2>1
      <4>2. CASE x = ch[u]
        BY <1>a, <4>1, <4>2
      <4>3. CASE x # ch[u]
        BY <1>5, <2>2, <4>1, <4>3
      <4> QED
        BY <4>2, <4>3
    <3> QED
      BY <3>1
  <2> QED
    BY <2>3, <2>4
<1>8. z \in P[{}] /\ \A v \in P[U] : v \in N /\ \A x \in U : pickers[x] <= v
  BY <1>1
<1> HIDE DEF P
<1>9. FoldKeeps(P, U, N, z, st, ch)
  BY <1>1, <1>4, <1>7, <1>8 DEF FoldKeeps
<1>10. PICK f : FoldTable(f, U, N, z, st, ch) /\ f[U] \in P[U]
  BY <1>9, FoldSatisfies
<1>11. f \in [SUBSET U -> N] /\ IsFold(f, U, z, st, ch)
  BY <1>10 DEF FoldTable
<1>12. \A u \in SUBSET U : u # {} => ch[u] \in U /\ u \ {ch[u]} \in SUBSET U
  BY <1>1 DEF Chooses
<1>13. PickerTable(f, U)
  <2>1. ASSUME NEW u \in SUBSET U
        PROVE f[u] = IF u = {} THEN z
                     ELSE pickers[CHOOSE x \in u : TRUE] + f[u \ {CHOOSE x \in u : TRUE}]
    <3>1. CASE u = {}
      BY <1>11, <3>1 DEF IsFold
    <3>2. CASE u # {}
      <4>1. f[u] = st[<<f[u \ {ch[u]}], ch[u]>>]
        BY <1>11, <3>2 DEF IsFold
      <4>2. f[u \ {ch[u]}] \in N /\ ch[u] \in U
        BY <1>11, <1>12, <3>2
      <4>3. f[u] = pickers[ch[u]] + f[u \ {ch[u]}]
        BY <1>4, <4>1, <4>2
      <4> QED
        BY <1>2, <3>2, <4>3
    <3> QED
      BY <3>1, <3>2
  <2> QED
    BY <1>b, <1>11, <2>1
<1>14. PICK g : PickerTable(g, U) /\ OpenPickers = g[U]
  BY <1>6, <1>13, PickersFold
<1>15. LikeFold(g, U, N, z, st, ch)
  <2>1. g[{}] = z
    BY <1>b, <1>14
  <2>2. ASSUME NEW u \in SUBSET U, u # {}, g[u \ {ch[u]}] \in N
        PROVE g[u] = st[<<g[u \ {ch[u]}], ch[u]>>]
    <3>1. g[u] = pickers[CHOOSE x \in u : TRUE] + g[u \ {CHOOSE x \in u : TRUE}]
      BY <1>b, <1>14, <2>2
    <3>2. g[u] = pickers[ch[u]] + g[u \ {ch[u]}]
      BY <1>2, <3>1
    <3> QED
      BY <1>4, <1>12, <2>2, <3>2
  <2> QED
    BY <2>1, <2>2 DEF LikeFold
<1>16. g[U] = f[U]
  BY <1>10, <1>15, FoldUnique
<1> QED
  BY <1>8, <1>10, <1>14, <1>16 DEF U, N
-----------------------------------------------------------------------------
(***************************************************************************)
(* The invariant, and the handlers that keep it.                           *)
(***************************************************************************)
MenuTyped(m) == m \in [open : BOOLEAN, tab : Tabs, recs : SUBSET Slots]

LEMMA InvFacts ==
  ASSUME RegInv
  PROVE  /\ reg \in Regs /\ menu.recs \in SUBSET Slots /\ menu.open \in BOOLEAN /\ menu.tab \in Tabs
         /\ IsCount(MenuRefs(menu.recs)) /\ RegOK(reg, MenuRefs(menu.recs), -1)
         /\ PagesOK /\ MenuTyped(menu) /\ rebound \in BOOLEAN
         /\ ~ rebound => CallbacksOK(reg, Slots)
         /\ ~ menu.open => menu.recs = {}
         /\ menu.open => menu.tab \in nodev
<1>1. /\ RegOK(reg, MenuRefs(menu.recs), -1) /\ PagesOK /\ rebound \in BOOLEAN
      /\ ~ rebound => CallbacksOK(reg, Slots)
  BY DEF RegInv
<1>2. /\ menu \in [open : BOOLEAN, tab : Tabs, recs : SUBSET Slots]
      /\ IF menu.open THEN menu.tab \in nodev ELSE menu.recs = {}
  BY <1>1 DEF PagesOK
<1>3. menu.recs \in SUBSET Slots /\ menu.open \in BOOLEAN /\ menu.tab \in Tabs
  BY <1>2
<1>4. IsCount(MenuRefs(menu.recs))
  BY <1>3, MenuFacts
<1> QED
  BY <1>1, <1>2, <1>3, <1>4 DEF RegOK, MenuTyped

LEMMA PageFacts ==
  ASSUME RegInv
  PROVE  /\ \A t \in Tabs : <<t, 1>> \in Graphs
         /\ \A t \in Tabs, k \in 1 .. NumGraphs :
              /\ <<t, k>> \in Graphs
              /\ reg.graph[<<t, k>>].alive <=> TabOpen(t)
         /\ \A t \in nodev : t \in Tabs /\ TabOpen(t)
         /\ \A t \in Tabs : pickers[t] > 0 => TabOpen(t)
         /\ pickers \in [Tabs -> 0 .. MaxPickers]
BY InvFacts, BoundsAssumption DEF PagesOK, TabOpen, Graphs

(* A handler that neither adds nor removes a page.                         *)
LEMMA PagesKept ==
  ASSUME RegInv, \A w \in Graphs : reg'.graph[w].alive <=> reg.graph[w].alive,
         nodev' \subseteq nodev, pickers' \in [Tabs -> 0 .. MaxPickers],
         \A t \in Tabs : pickers'[t] > 0 => TabOpen(t),
         MenuTyped(menu'), IF menu'.open THEN menu'.tab \in nodev' ELSE menu'.recs = {}
  PROVE  PagesOK'
<1>1. \A t \in Tabs, k \in 1 .. NumGraphs : reg'.graph[<<t, k>>].alive <=> TabOpen(t)
  BY PageFacts
<1>2. \A t \in Tabs : reg'.graph[<<t, 1>>].alive <=> TabOpen(t)
  BY PageFacts DEF TabOpen
<1>3. \A t \in Tabs, k \in 1 .. NumGraphs :
        reg'.graph[<<t, k>>].alive <=> reg'.graph[<<t, 1>>].alive
  BY <1>1, <1>2
<1>4. nodev' \subseteq {t \in Tabs : reg'.graph[<<t, 1>>].alive}
  BY <1>2, PageFacts
<1>5. \A t \in Tabs : pickers'[t] > 0 => reg'.graph[<<t, 1>>].alive
  BY <1>2
<1> QED
  BY <1>3, <1>4, <1>5 DEF PagesOK, TabOpen, MenuTyped

LEMMA InvRestored ==
  ASSUME RegOK(reg', MenuRefs(menu'.recs), -1), PagesOK', rebound' \in BOOLEAN,
         ~ rebound' => CallbacksOK(reg', Slots)
  PROVE  RegInv'
BY DEF RegInv

LEMMA AddTabKeeps ==
  ASSUME RegInv, NEW t \in Tabs, AddTab(t)
  PROVE  RegInv'
<1> DEFINE cnt == MenuRefs(menu.recs)
           q == BuildPage(reg, t)
<1>1. /\ Fresh(reg, t) /\ reg' = q /\ nodev' = nodev \cup {t}
      /\ pickers' = pickers /\ menu' = menu /\ rebound' = rebound /\ ~ menu.open
  BY DEF AddTab, UserActs
<1>2. /\ RegOK(q, cnt, -1) /\ q.astray = reg.astray
      /\ \A i \in 1 .. NumGraphs : q.graph[<<t, i>>].alive
      /\ \A u \in Tabs, i \in 1 .. NumGraphs : u # t => q.graph[<<u, i>>] = reg.graph[<<u, i>>]
      /\ CallbacksOK(reg, Slots) => CallbacksOK(q, Slots)
  BY <1>1, InvFacts, PageBuilt
<1> HIDE DEF q
<1>3. 1 \in 1 .. NumGraphs
  BY BoundsAssumption
<1>4. \A u \in Tabs, i \in 1 .. NumGraphs : q.graph[<<u, i>>].alive <=> (u = t \/ TabOpen(u))
  BY <1>2, PageFacts
<1>5. PagesOK'
  <2>1. \A u \in Tabs : q.graph[<<u, 1>>].alive <=> (u = t \/ TabOpen(u))
    BY <1>3, <1>4
  <2>2. \A u \in Tabs, i \in 1 .. NumGraphs :
          reg'.graph[<<u, i>>].alive <=> reg'.graph[<<u, 1>>].alive
    BY <1>1, <1>4, <2>1
  <2>3. nodev' \subseteq {u \in Tabs : reg'.graph[<<u, 1>>].alive}
    BY <1>1, <2>1, PageFacts
  <2>4. pickers' \in [Tabs -> 0 .. MaxPickers] /\ \A u \in Tabs : pickers'[u] > 0 => reg'.graph[<<u, 1>>].alive
    BY <1>1, <2>1, PageFacts
  <2>5. MenuTyped(menu') /\ ~ menu'.open /\ menu'.recs = {}
    BY <1>1, InvFacts
  <2> QED
    BY <2>2, <2>3, <2>4, <2>5 DEF PagesOK, TabOpen, MenuTyped
<1>6. /\ RegOK(reg', MenuRefs(menu'.recs), -1) /\ rebound' \in BOOLEAN
      /\ ~ rebound' => CallbacksOK(reg', Slots)
  BY <1>1, <1>2, InvFacts
<1> QED
  BY <1>5, <1>6, InvRestored

(* Two pages go away, or one twice: the second time nothing is left of it. *)
LEMMA TwoDestroyed ==
  ASSUME RegInv, NEW t \in Tabs, NEW v \in Tabs
  PROVE  LET q == Destroyed(Destroyed(reg, t), v) IN
         /\ RegOK(q, MenuRefs(menu.recs), -1) /\ q.astray = reg.astray
         /\ \A u \in Tabs, i \in 1 .. NumGraphs :
              q.graph[<<u, i>>].alive <=> (u \notin {t, v} /\ TabOpen(u))
         /\ CallbacksOK(reg, Slots) => CallbacksOK(q, Slots)
<1> DEFINE cnt == MenuRefs(menu.recs)
           p == Destroyed(reg, t)
           q == Destroyed(p, v)
<1>1. IsCount(cnt) /\ RegOK(reg, cnt, -1)
  BY InvFacts
<1> HIDE DEF cnt
<1>2. Removed(p, reg, t, cnt, NumGraphs)
  BY <1>1, DestroyedKeeps
<1> HIDE DEF p
<1>3. RegOK(p, cnt, -1)
  BY <1>2 DEF Removed
<1>4. Removed(q, p, v, cnt, NumGraphs)
  BY <1>1, <1>3, DestroyedKeeps
<1> HIDE DEF q
<1>5. ASSUME NEW u \in Tabs, NEW i \in 1 .. NumGraphs
      PROVE  p.graph[<<u, i>>].alive <=> (u # t /\ TabOpen(u))
  BY <1>2, PageFacts, GraphConstants DEF Removed
<1>6. ASSUME NEW u \in Tabs, NEW i \in 1 .. NumGraphs
      PROVE  q.graph[<<u, i>>].alive <=> (u \notin {t, v} /\ TabOpen(u))
  BY <1>4, <1>5, GraphConstants DEF Removed
<1>7. /\ RegOK(q, cnt, -1) /\ q.astray = reg.astray
      /\ CallbacksOK(reg, Slots) => CallbacksOK(q, Slots)
  BY <1>2, <1>4 DEF Removed
<1> QED
  BY <1>6, <1>7 DEF cnt, p, q

LEMMA DelTabKeeps ==
  ASSUME RegInv, NEW t \in Tabs, DelTab(t)
  PROVE  RegInv'
<1>0. PICK v \in PageRemoved(t) :
        LET left == Destroyed(Destroyed(reg, t), v) IN
        /\ pickers[v] = 0
        /\ \/ reg' = left /\ nodev' = nodev \ {t, v}
           \/ /\ Alive(left) = {}
              /\ \E new \in Tabs : /\ Fresh(left, new) /\ reg' = BuildPage(left, new)
                                   /\ nodev' = (nodev \ {t, v}) \cup {new}
  BY DEF DelTab
<1>v. v \in Tabs
  BY DEF PageRemoved
<1> DEFINE cnt == MenuRefs(menu.recs)
           q == Destroyed(Destroyed(reg, t), v)
<1>1. /\ pickers[t] = 0 /\ pickers[v] = 0
      /\ pickers' = pickers /\ menu' = menu /\ rebound' = rebound /\ ~ menu.open
      /\ \/ reg' = q /\ nodev' = nodev \ {t, v}
         \/ /\ Alive(q) = {}
            /\ \E new \in Tabs : /\ Fresh(q, new) /\ reg' = BuildPage(q, new)
                                 /\ nodev' = (nodev \ {t, v}) \cup {new}
  BY <1>0 DEF DelTab, UserActs
<1>2. /\ RegOK(q, cnt, -1) /\ q.astray = reg.astray
      /\ \A u \in Tabs, i \in 1 .. NumGraphs :
           q.graph[<<u, i>>].alive <=> (u \notin {t, v} /\ TabOpen(u))
      /\ CallbacksOK(reg, Slots) => CallbacksOK(q, Slots)
  BY <1>v, TwoDestroyed
<1>a. IsCount(cnt)
  BY InvFacts
<1> HIDE DEF q, cnt
<1>3. 1 \in 1 .. NumGraphs
  BY BoundsAssumption
<1>4. \A u \in Tabs : q.graph[<<u, 1>>].alive <=> (u \notin {t, v} /\ TabOpen(u))
  BY <1>2, <1>3
<1>5. /\ MenuTyped(menu') /\ ~ menu'.open /\ menu'.recs = {} /\ rebound' \in BOOLEAN
      /\ MenuRefs(menu'.recs) = cnt
      /\ pickers' \in [Tabs -> 0 .. MaxPickers]
      /\ \A u \in Tabs : pickers'[u] > 0 => u \notin {t, v} /\ TabOpen(u)
      /\ \A u \in nodev \ {t, v} : u \in Tabs /\ u \notin {t, v} /\ TabOpen(u)
  <2>1. ~ (0 > 0)
    OBVIOUS
  <2> QED
    BY <1>1, <2>1, InvFacts, PageFacts DEF cnt
<1>6. CASE reg' = q /\ nodev' = nodev \ {t, v}
  <2>1. PagesOK'
    <3>1. \A u \in Tabs, i \in 1 .. NumGraphs :
            reg'.graph[<<u, i>>].alive <=> reg'.graph[<<u, 1>>].alive
      BY <1>2, <1>4, <1>6
    <3>2. nodev' \subseteq {u \in Tabs : reg'.graph[<<u, 1>>].alive}
      BY <1>4, <1>5, <1>6
    <3>3. \A u \in Tabs : pickers'[u] > 0 => reg'.graph[<<u, 1>>].alive
      BY <1>4, <1>5, <1>6
    <3> QED
      BY <1>5, <3>1, <3>2, <3>3 DEF PagesOK, TabOpen, MenuTyped
  <2>2. /\ RegOK(reg', MenuRefs(menu'.recs), -1)
        /\ ~ rebound' => CallbacksOK(reg', Slots)
    BY <1>1, <1>2, <1>5, <1>6, InvFacts
  <2> QED
    BY <1>5, <2>1, <2>2, InvRestored
<1>7. CASE /\ Alive(q) = {}
           /\ \E new \in Tabs : /\ Fresh(q, new) /\ reg' = BuildPage(q, new)
                                /\ nodev' = (nodev \ {t, v}) \cup {new}
  <2>1. PICK new \in Tabs : /\ Fresh(q, new) /\ reg' = BuildPage(q, new)
                            /\ nodev' = (nodev \ {t, v}) \cup {new}
    BY <1>7
  <2> DEFINE p == BuildPage(q, new)
  <2>2. /\ RegOK(p, cnt, -1) /\ p.astray = q.astray
        /\ \A i \in 1 .. NumGraphs : p.graph[<<new, i>>].alive
        /\ \A u \in Tabs, i \in 1 .. NumGraphs : u # new => p.graph[<<u, i>>] = q.graph[<<u, i>>]
        /\ CallbacksOK(q, Slots) => CallbacksOK(p, Slots)
    BY <1>2, <1>a, <2>1, PageBuilt
  <2>3. reg' = p
    BY <2>1
  <2> HIDE DEF p
  <2>4. \A u \in Tabs, i \in 1 .. NumGraphs : ~ q.graph[<<u, i>>].alive
    BY <1>7 DEF Alive, Graphs
  <2>5. \A u \in Tabs : ~ (u \notin {t, v} /\ TabOpen(u))
    BY <1>3, <1>4, <2>4
  <2>6. \A u \in Tabs, i \in 1 .. NumGraphs : p.graph[<<u, i>>].alive <=> u = new
    BY <2>2, <2>4
  <2>7. PagesOK'
    <3>1. \A u \in Tabs : reg'.graph[<<u, 1>>].alive <=> u = new
      BY <1>3, <2>3, <2>6
    <3>2. \A u \in Tabs, i \in 1 .. NumGraphs :
            reg'.graph[<<u, i>>].alive <=> reg'.graph[<<u, 1>>].alive
      BY <2>3, <2>6, <3>1
    <3>3. nodev' \subseteq {u \in Tabs : reg'.graph[<<u, 1>>].alive}
      BY <1>5, <2>1, <2>5, <3>1
    <3>4. \A u \in Tabs : pickers'[u] > 0 => reg'.graph[<<u, 1>>].alive
      BY <1>5, <2>5
    <3> QED
      BY <1>5, <3>2, <3>3, <3>4 DEF PagesOK, TabOpen, MenuTyped
  <2>8. /\ RegOK(reg', MenuRefs(menu'.recs), -1)
        /\ ~ rebound' => CallbacksOK(reg', Slots)
    BY <1>1, <1>2, <1>5, <2>2, <2>3, InvFacts
  <2> QED
    BY <1>5, <2>7, <2>8, InvRestored
<1> QED
  BY <1>1, <1>6, <1>7

LEMMA SpawnPickerKeeps ==
  ASSUME RegInv, NEW t \in Tabs, SpawnPicker(t)
  PROVE  RegInv'
<1>1. /\ t \in nodev /\ OpenPickers < MaxPickers
      /\ pickers' = [pickers EXCEPT ![t] = @ + 1]
      /\ reg' = reg /\ nodev' = nodev /\ menu' = menu /\ rebound' = rebound
  BY DEF SpawnPicker, OpenPickers
<1>2. pickers \in [Tabs -> 0 .. MaxPickers] /\ pickers \in [Tabs -> Nat] /\ MaxPickers \in Nat
  BY PageFacts, BoundsAssumption
<1>3. pickers[t] < MaxPickers
  <2>1. OpenPickers \in Nat /\ pickers[t] <= OpenPickers
    BY <1>2, PickersCounted
  <2> HIDE DEF OpenPickers
  <2> QED
    BY <1>1, <1>2, <2>1
<1>4. pickers[t] + 1 \in 0 .. MaxPickers
  BY <1>2, <1>3
<1>5. pickers' \in [Tabs -> 0 .. MaxPickers]
  BY <1>1, <1>2, <1>4
<1>6. \A u \in Tabs : pickers'[u] > 0 => TabOpen(u)
  BY <1>1, <1>2, PageFacts
<1>7. PagesOK'
  BY <1>1, <1>5, <1>6, InvFacts, PagesKept
<1> QED
  BY <1>1, <1>7, InvFacts, InvRestored

(* A picker goes away.                                                     *)
LEMMA PickerGone ==
  ASSUME RegInv, NEW t \in Tabs, pickers[t] > 0, pickers' = [pickers EXCEPT ![t] = @ - 1]
  PROVE  /\ pickers' \in [Tabs -> 0 .. MaxPickers]
         /\ \A u \in Tabs : pickers'[u] > 0 => TabOpen(u)
<1>1. pickers \in [Tabs -> 0 .. MaxPickers] /\ MaxPickers \in Nat
  BY PageFacts, BoundsAssumption
<1>2. pickers[t] - 1 \in 0 .. MaxPickers
  BY <1>1
<1> QED
  BY <1>1, <1>2, PageFacts

LEMMA PickerClosesKeeps ==
  ASSUME RegInv, NEW t \in Tabs, PickerCloses(t)
  PROVE  RegInv'
<1>1. /\ pickers[t] > 0 /\ pickers' = [pickers EXCEPT ![t] = @ - 1]
      /\ reg' = reg /\ nodev' = nodev /\ menu' = menu /\ rebound' = rebound
  BY DEF PickerCloses
<1>2. PagesOK'
  BY <1>1, InvFacts, PickerGone, PagesKept
<1> QED
  BY <1>1, <1>2, InvFacts, InvRestored

LEMMA Rebinding ==
  ASSUME RegInv, NEW r, r.graph = reg.graph, NEW t
  PROVE  ~ Rebinds(t) <=> Unlinked(r, t)
BY DEF Rebinds, Unlinked

LEMMA PickerPicksKeeps ==
  ASSUME RegInv, NEW t \in Tabs, NEW d \in Devices, PickerPicks(t, d)
  PROVE  RegInv'
<1> DEFINE cnt == MenuRefs(menu.recs)
           r == OpenAdd(d).reg
           s == OpenAdd(d).slot
           q == DevOpen(r, t, s)
<1>1. /\ ~ menu.open /\ pickers[t] > 0 /\ pickers' = [pickers EXCEPT ![t] = @ - 1]
      /\ s >= 0 /\ reg' = q /\ nodev' = nodev \ {t}
      /\ rebound' = (rebound \/ Rebinds(t)) /\ menu' = menu
  BY DEF PickerPicks, UserActs
<1>2. /\ IsCount(cnt) /\ RegOK(reg, cnt, -1) /\ menu.recs = {}
      /\ ~ rebound => CallbacksOK(reg, Slots)
  BY <1>1, InvFacts
<1> HIDE DEF cnt
<1>3. Opens(r, s, cnt)
  BY <1>1, <1>2, OpenAddOpens
<1> HIDE DEF r, s
<1>4. /\ s \in Slots /\ s \in Occupied(r) /\ RegOK(r, cnt, s)
      /\ r.graph = reg.graph /\ r.astray = reg.astray
      /\ CallbacksOK(reg, Slots) => CallbacksOK(r, Slots)
  BY <1>3 DEF Opens
<1>5. CanOpen(r, t, s, cnt)
  <2>1. TabOpen(t)
    BY <1>1, PageFacts
  <2>2. \A i \in 1 .. NumGraphs : r.graph[<<t, i>>].alive
    BY <1>4, <2>1, PageFacts
  <2> QED
    BY <1>2, <1>4, <2>2 DEF CanOpen
<1>6. /\ RegOK(q, cnt, -1)
      /\ \A w \in Graphs : q.graph[w].alive <=> r.graph[w].alive
      /\ Unlinked(r, t) /\ CallbacksOK(r, Slots) => CallbacksOK(q, Slots)
  BY <1>5, DevOpenKeeps
<1> HIDE DEF q
<1>7. rebound' \in BOOLEAN /\ (~ rebound' => ~ rebound /\ ~ Rebinds(t))
  BY <1>1, InvFacts
<1>8. ~ rebound' => CallbacksOK(reg', Slots)
  BY <1>1, <1>2, <1>4, <1>6, <1>7, Rebinding
<1>9. PagesOK'
  <2>1. \A w \in Graphs : reg'.graph[w].alive <=> reg.graph[w].alive
    BY <1>1, <1>4, <1>6
  <2>2. nodev' \subseteq nodev
    BY <1>1
  <2>3. MenuTyped(menu') /\ ~ menu'.open /\ menu'.recs = {}
    BY <1>1, <1>2, InvFacts
  <2> QED
    BY <1>1, <2>1, <2>2, <2>3, PickerGone, PagesKept
<1>10. RegOK(reg', MenuRefs(menu'.recs), -1)
  BY <1>1, <1>6 DEF cnt
<1> QED
  BY <1>7, <1>8, <1>9, <1>10, InvRestored

LEMMA PopulateMenuKeeps ==
  ASSUME RegInv, NEW t \in Tabs, PopulateMenu(t)
  PROVE  RegInv'
<1> DEFINE q == AddRefs(reg, Occupied(reg))
<1>1. /\ ~ menu.open /\ t \in nodev /\ menu' = [open |-> TRUE, tab |-> t, recs |-> Listed]
      /\ reg' = AddRefs(reg, Listed)
      /\ nodev' = nodev /\ pickers' = pickers /\ rebound' = rebound
  BY DEF PopulateMenu, UserActs, AddRefs
<1>2. menu.recs = {} /\ RegOK(reg, MenuRefs({}), -1)
  BY <1>1, InvFacts
<1>3. Listed = Occupied(reg)
  <2>1. /\ reg.cur_dev = Cardinality(Occupied(reg)) /\ IsFiniteSet(Occupied(reg))
        /\ Cardinality(Occupied(reg)) \in Nat
    BY <1>2, OccupiedFinite, FS_CardinalityType DEF RegOK, SlotsDiffer
  <2>2. reg.cur_dev <= 0 => Occupied(reg) = {}
    BY <2>1, FS_EmptySet
  <2> QED
    BY <2>2 DEF Listed
<1>4. /\ RegOK(q, MenuRefs(Occupied(reg)), -1) /\ q.graph = reg.graph /\ q.astray = reg.astray
      /\ Occupied(q) = Occupied(reg) /\ \A s \in Slots : SameSlot(q, reg, s)
  BY <1>2, AddRefsKeep
<1>5. CallbacksOK(reg, Slots) => CallbacksOK(q, Slots)
  BY <1>4, ClosingKeepsCallbacks
<1> HIDE DEF q
<1>6. reg' = q
  BY <1>1, <1>3 DEF q
<1>7. MenuTyped(menu') /\ menu'.open /\ menu'.tab = t /\ menu'.recs = Occupied(reg)
  <2> DEFINE T == TRUE
  <2>1. menu' = [open |-> T, tab |-> t, recs |-> Occupied(reg)]
    BY <1>1, <1>3
  <2>2. T \in BOOLEAN /\ Occupied(reg) \in SUBSET Slots /\ T
    BY DEF Occupied
  <2> HIDE DEF T
  <2> QED
    BY <2>1, <2>2 DEF MenuTyped
<1>8. PagesOK'
  BY <1>1, <1>4, <1>6, <1>7, PageFacts, PagesKept
<1> QED
  BY <1>1, <1>4, <1>5, <1>6, <1>7, <1>8, InvFacts, InvRestored

(* selection-done.                                                         *)
LEMMA MenuGone ==
  /\ MenuTyped(NoMenu) /\ ~ NoMenu.open /\ NoMenu.recs = {}
<1> DEFINE F == FALSE
           t == CHOOSE t \in Tabs : TRUE
<1>1. t \in Tabs /\ F \in BOOLEAN /\ ~ F
  BY TabsAssumption
<1>2. NoMenu = [open |-> F, tab |-> t, recs |-> {}]
  BY DEF NoMenu
<1> HIDE DEF F, t
<1> QED
  BY <1>1, <1>2 DEF MenuTyped

LEMMA MenuCancelsKeeps ==
  ASSUME RegInv, MenuCancels
  PROVE  RegInv'
<1> DEFINE q == DelRefs(reg, menu.recs)
<1>1. /\ reg' = q /\ menu' = NoMenu
      /\ nodev' = nodev /\ pickers' = pickers /\ rebound' = rebound
  BY DEF MenuCancels, FreeMenu, DelRefs
<1>2. /\ RegOK(q, MenuRefs({}), -1) /\ q.graph = reg.graph
      /\ CallbacksOK(reg, Slots) => CallbacksOK(q, Slots)
  BY InvFacts, DelRefsKeep
<1> HIDE DEF q
<1>3. PagesOK'
  BY <1>1, <1>2, MenuGone, PageFacts, PagesKept
<1> QED
  BY <1>1, <1>2, <1>3, MenuGone, InvFacts, InvRestored

LEMMA MenuPicksKeeps ==
  ASSUME RegInv, NEW s \in Slots, MenuPicks(s)
  PROVE  RegInv'
<1> DEFINE t == menu.tab
           S == menu.recs
           cnt == MenuRefs(S)
           r == DevOpen(reg, t, s)
           q == DelRefs(r, S)
<1>1. /\ menu.open /\ s \in S /\ reg' = q /\ menu' = NoMenu /\ nodev' = nodev \ {t}
      /\ rebound' = (rebound \/ Rebinds(t)) /\ pickers' = pickers
  BY DEF MenuPicks, FreeMenu, DelRefs
<1>2. /\ IsCount(cnt) /\ RegOK(reg, cnt, -1) /\ S \in SUBSET Slots
      /\ ~ rebound => CallbacksOK(reg, Slots)
      /\ t \in Tabs /\ t \in nodev
  BY <1>1, InvFacts
<1>3. s \in Occupied(reg)
  <2>1. cnt[s] = 1
    BY <1>1, <1>2, MenuFacts
  <2>2. UsersOf(reg, cnt)[s] > 0
    <3> HIDE DEF cnt
    <3>1. UsersOf(reg, cnt)[s] = Cardinality(Bound(reg, s)) + cnt[s] /\ Cardinality(Bound(reg, s)) \in Nat
      BY <1>2, UsersFacts
    <3> QED
      BY <2>1, <3>1
  <2>3. reg.devices[s].refcount > 0
    BY <1>2, <2>2 DEF RegOK, CountIs
  <2> QED
    BY <2>3, EmptyFacts DEF Occupied
<1> HIDE DEF t, cnt
<1>4. CanOpen(reg, t, s, cnt)
  <2>1. \A i \in 1 .. NumGraphs : reg.graph[<<t, i>>].alive
    BY <1>2, PageFacts
  <2>2. RegOK(reg, cnt, s)
    BY <1>2, KnownSlot
  <2> QED
    BY <1>2, <1>3, <2>1, <2>2 DEF CanOpen
<1>5. /\ RegOK(r, cnt, -1)
      /\ \A w \in Graphs : r.graph[w].alive <=> reg.graph[w].alive
      /\ Unlinked(reg, t) /\ CallbacksOK(reg, Slots) => CallbacksOK(r, Slots)
  BY <1>4, DevOpenKeeps
<1> HIDE DEF r
<1>6. /\ RegOK(q, MenuRefs({}), -1) /\ q.graph = r.graph
      /\ CallbacksOK(r, Slots) => CallbacksOK(q, Slots)
  BY <1>2, <1>5, DelRefsKeep DEF cnt
<1> HIDE DEF q, S
<1>7. rebound' \in BOOLEAN /\ (~ rebound' => ~ rebound /\ ~ Rebinds(t))
  BY <1>1, InvFacts
<1>8. ~ rebound' => CallbacksOK(reg', Slots)
  BY <1>1, <1>2, <1>5, <1>6, <1>7, Rebinding
<1>9. PagesOK'
  <2>1. \A w \in Graphs : reg'.graph[w].alive <=> reg.graph[w].alive
    BY <1>1, <1>5, <1>6
  <2>2. nodev' \subseteq nodev
    BY <1>1
  <2> QED
    BY <1>1, <2>1, <2>2, MenuGone, PageFacts, PagesKept
<1> QED
  BY <1>1, <1>6, <1>7, <1>8, <1>9, MenuGone, InvRestored
-----------------------------------------------------------------------------
(* The device's thread ends, and what wdr_poll makes of it.                *)
LEMMA PollKeeps ==
  ASSUME RegInv, \A w \in Graphs : reg'.graph[w].alive <=> reg.graph[w].alive,
         RegOK(reg', MenuRefs(menu.recs), -1), ~ rebound => CallbacksOK(reg', Slots),
         UNCHANGED <<nodev, pickers, menu, rebound>>
  PROVE  RegInv'
<1>1. PagesOK'
  <2>1. IF menu'.open THEN menu'.tab \in nodev' ELSE menu'.recs = {}
    BY InvFacts
  <2> QED
    BY <2>1, InvFacts, PageFacts, PagesKept
<1> QED
  BY <1>1, InvFacts, InvRestored

LEMMA DeviceFailsKeeps ==
  ASSUME RegInv, NEW s \in Slots, DeviceFails(s)
  PROVE  RegInv'
<1> DEFINE cnt == MenuRefs(menu.recs)
           e == "error"
           q == [reg EXCEPT !.devices[s].stage = e]
<1>1. s \in Occupied(reg) /\ reg' = q /\ UNCHANGED <<nodev, pickers, menu, rebound>>
  BY DEF DeviceFails
<1>2. /\ IsCount(cnt) /\ RegOK(reg, cnt, -1)
      /\ ~ rebound => CallbacksOK(reg, Slots)
      /\ e \in {"closed", "configuring", "running", "error"}
  BY InvFacts
<1> HIDE DEF cnt, e
<1>3. /\ RegOK(q, cnt, -1) /\ q.graph = reg.graph
      /\ CallbacksOK(reg, Slots) => CallbacksOK(q, Slots)
  BY <1>1, <1>2, Staged
<1> HIDE DEF q
<1> QED
  BY <1>1, <1>2, <1>3, PollKeeps DEF cnt

LEMMA Polled ==
  ASSUME RegInv, NEW s \in Slots, NEW stage, Polls(s, stage)
  PROVE  /\ CanPoll(s, MenuRefs(menu.recs)) /\ UNCHANGED <<nodev, pickers, menu, rebound>>
         /\ ~ rebound => Listening(s)
BY InvFacts DEF Polls, CanPoll, Listening

LEMMA AlikeAlive ==
  ASSUME NEW q, NEW r, Alike(q, r)
  PROVE  \A w \in Graphs : q.graph[w].alive <=> r.graph[w].alive
BY DEF Alike

LEMMA PollErrorKeeps ==
  ASSUME RegInv, NEW s \in Slots, PollError(s)
  PROVE  RegInv'
<1> DEFINE cnt == MenuRefs(menu.recs)
           q == SweepUpdate(s, "error", Graphs)
           p == [q EXCEPT !.devices[s].polled = FALSE]
<1>1. /\ CanPoll(s, cnt) /\ UNCHANGED <<nodev, pickers, menu, rebound>>
      /\ ~ rebound => Listening(s)
  BY Polled DEF PollError
<1>2. reg' = IF s \in Occupied(q) THEN p ELSE q
  BY DEF PollError
<1> HIDE DEF cnt
<1>3. Erring(q, s, cnt, Len(CbList(s)))
  BY <1>1, ErrorKeeps
<1> HIDE DEF q
<1>4. /\ RegOK(q, cnt, -1) /\ q \in Regs /\ IsCount(cnt)
      /\ \A w \in Graphs : q.graph[w].alive <=> reg.graph[w].alive
      /\ ~ rebound => CallbacksOK(q, Slots \ {s})
  BY <1>1, <1>3 DEF Erring, RegOK, CanPoll
<1>5. CASE s \in Occupied(q)
  <2>1. /\ Alike(p, q) /\ p.graph = q.graph /\ p.astray = q.astray
        /\ ~ p.devices[s].polled
        /\ \A u \in Slots : u # s => p.devices[u] = q.devices[u]
    BY <1>4, <1>5, Unpolled
  <2>2. reg' = p
    BY <1>2, <1>5
  <2> HIDE DEF p
  <2>3. /\ RegOK(p, cnt, -1) /\ Occupied(p) = Occupied(q)
        /\ \A u \in Slots : Bound(p, u) = Bound(q, u)
    BY <1>4, <2>1, AlikeKeeps
  <2>4. ASSUME ~ rebound PROVE CallbacksOK(p, Slots)
    <3>1. CallbacksOK(q, Slots \ {s})
      BY <1>4, <2>4
    <3>2. ~ p.astray /\ \A w \in Graphs : p.graph[w].shown \subseteq {p.graph[w].phydev}
      BY <2>1, <3>1 DEF CallbacksOK
    <3>3. ASSUME NEW u \in Slots \cap Occupied(p), p.devices[u].polled
          PROVE  Lists(p.devices[u].sweep_cb_l, Bound(p, u))
      <4>1. u # s /\ u \in (Slots \ {s}) \cap Occupied(q) /\ u \in Slots
        BY <2>1, <2>3, <3>3
      <4>2. p.devices[u] = q.devices[u]
        BY <2>1, <4>1
      <4> QED
        BY <2>3, <3>1, <3>3, <4>1, <4>2 DEF CallbacksOK
    <3> QED
      BY <3>2, <3>3 DEF CallbacksOK
  <2> QED
    BY <1>1, <1>4, <2>1, <2>2, <2>3, <2>4, PollKeeps DEF cnt
<1>6. CASE s \notin Occupied(q)
  <2>1. Slots \cap Occupied(q) = (Slots \ {s}) \cap Occupied(q)
    BY <1>6
  <2>2. ~ rebound => CallbacksOK(q, Slots)
    BY <1>4, <2>1 DEF CallbacksOK
  <2>3. reg' = q
    BY <1>2, <1>6
  <2> QED
    BY <1>1, <1>4, <2>2, <2>3, PollKeeps DEF cnt
<1> QED
  BY <1>5, <1>6

LEMMA PollConfiguredKeeps ==
  ASSUME RegInv, NEW s \in Slots, PollConfigured(s)
  PROVE  RegInv'
<1> DEFINE cnt == MenuRefs(menu.recs)
           m == "configured"
           e == "running"
           q == SweepUpdate(s, m, Graphs)
           p == [q EXCEPT !.devices[s].stage = e]
<1>1. /\ CanPoll(s, cnt) /\ UNCHANGED <<nodev, pickers, menu, rebound>>
      /\ ~ rebound => Listening(s)
  BY Polled DEF PollConfigured
<1>2. reg' = p
  BY DEF PollConfigured
<1>3. m \in {"configured", "sweep"} /\ e \in {"closed", "configuring", "running", "error"}
  OBVIOUS
<1> HIDE DEF cnt, m, e
<1>4. Quiet(q, s)
  BY <1>1, <1>3, QuietKeeps
<1> HIDE DEF q
<1>5. /\ Alike(q, reg) /\ IsCount(cnt) /\ RegOK(reg, cnt, -1) /\ s \in Occupied(reg)
      /\ ~ rebound => CallbacksOK(q, Slots)
  BY <1>1, <1>4 DEF Quiet, CanPoll
<1>6. RegOK(q, cnt, -1) /\ s \in Occupied(q)
  BY <1>5, AlikeKeeps
<1>7. /\ RegOK(p, cnt, -1) /\ p.graph = q.graph
      /\ CallbacksOK(q, Slots) => CallbacksOK(p, Slots)
  BY <1>3, <1>5, <1>6, Staged
<1> HIDE DEF p
<1>8. \A w \in Graphs : q.graph[w].alive <=> reg.graph[w].alive
  BY <1>5, AlikeAlive
<1> QED
  BY <1>1, <1>2, <1>5, <1>7, <1>8, PollKeeps DEF cnt

LEMMA PollSweepKeeps ==
  ASSUME RegInv, NEW s \in Slots, NEW complete, PollSweep(s, complete)
  PROVE  RegInv'
<1> DEFINE cnt == MenuRefs(menu.recs)
           m == "sweep"
           q == SweepUpdate(s, m, complete)
<1>1. /\ CanPoll(s, cnt) /\ UNCHANGED <<nodev, pickers, menu, rebound>>
      /\ ~ rebound => Listening(s)
  BY Polled DEF PollSweep
<1>2. reg' = q /\ m \in {"configured", "sweep"}
  BY DEF PollSweep
<1> HIDE DEF cnt, m
<1>3. Quiet(q, s)
  BY <1>1, <1>2, QuietKeeps
<1> HIDE DEF q
<1>4. /\ Alike(q, reg) /\ IsCount(cnt) /\ RegOK(reg, cnt, -1)
      /\ ~ rebound => CallbacksOK(q, Slots)
  BY <1>1, <1>3 DEF Quiet, CanPoll
<1>5. RegOK(q, cnt, -1)
  BY <1>4, AlikeKeeps
<1>6. \A w \in Graphs : q.graph[w].alive <=> reg.graph[w].alive
  BY <1>4, AlikeAlive
<1> QED
  BY <1>1, <1>2, <1>4, <1>5, <1>6, PollKeeps DEF cnt
-----------------------------------------------------------------------------
(* wdr_init: the slots are empty and no page has been built.               *)
NoDevices ==
  [devices |-> [s \in Slots |-> Empty], cur_dev |-> 0,
   graph |-> [w \in Graphs |-> Gone], astray |-> FALSE]

LEMMA NoDevicesFacts ==
  /\ NoDevices \in Regs /\ NoDevices.cur_dev = 0 /\ ~ NoDevices.astray
  /\ \A s \in Slots : NoDevices.devices[s] = Empty
  /\ \A w \in Graphs : NoDevices.graph[w] = Gone
<1> DEFINE D == [s \in Slots |-> Empty]
           G == [w \in Graphs |-> Gone]
           F == FALSE
           z == 0
<1>1. /\ D \in [Slots -> DevRecs] /\ \A s \in Slots : D[s] = Empty
      /\ G \in [Graphs -> GraphRecs] /\ \A w \in Graphs : G[w] = Gone
      /\ F \in BOOLEAN /\ ~ F /\ z \in Int /\ z = 0
  BY EmptyFacts, GraphConstants
<1>2. NoDevices = [devices |-> D, cur_dev |-> z, graph |-> G, astray |-> F]
  BY DEF NoDevices
<1> HIDE DEF D, G, F, z
<1>3. NoDevices \in Regs
  BY <1>1, <1>2 DEF Regs
<1>4. /\ NoDevices.devices = D /\ NoDevices.cur_dev = z /\ NoDevices.graph = G
      /\ NoDevices.astray = F
  BY <1>2
<1> QED
  BY <1>1, <1>3, <1>4

LEMMA NoDevicesOK ==
  /\ RegOK(NoDevices, MenuRefs({}), -1) /\ CallbacksOK(NoDevices, Slots)
  /\ \A t \in Tabs : Fresh(NoDevices, t)
<1> DEFINE r == NoDevices
           cnt == MenuRefs({})
<1>1. /\ r \in Regs /\ r.cur_dev = 0 /\ ~ r.astray
      /\ \A s \in Slots : r.devices[s] = Empty
      /\ \A w \in Graphs : r.graph[w] = Gone
  BY NoDevicesFacts
<1>2. IsCount(cnt) /\ \A s \in Slots : cnt[s] = 0
  <2>1. {} \in SUBSET Slots
    OBVIOUS
  <2> QED
    BY <2>1, MenuFacts
<1> HIDE DEF r, cnt
<1>3. Occupied(r) = {} /\ \A s \in Slots : Bound(r, s) = {}
  BY <1>1, EmptyFacts, GraphConstants DEF Occupied, Bound
<1>4. SlotsDiffer(r)
  BY <1>1, <1>3, EmptyFacts, FS_EmptySet DEF SlotsDiffer
<1>5. CountIs(r, UsersOf(r, cnt), -1)
  <2>1. ASSUME NEW s \in Slots PROVE r.devices[s].refcount = UsersOf(r, cnt)[s]
    <3>1. Cardinality(Bound(r, s)) = 0 /\ cnt[s] = 0
      BY <1>2, <1>3, FS_EmptySet
    <3>2. UsersOf(r, cnt)[s] = Cardinality(Bound(r, s)) + cnt[s]
      BY DEF UsersOf
    <3> QED
      BY <1>1, <3>1, <3>2, EmptyFacts
  <2> QED
    BY <1>3, <2>1 DEF CountIs
<1>6. GraphsOK(r)
  BY <1>1, GraphConstants DEF GraphsOK
<1>7. CallbacksOK(r, Slots)
  BY <1>1, <1>3, GraphConstants DEF CallbacksOK
<1>8. ASSUME NEW t \in Tabs PROVE Fresh(r, t)
  <2>1. ASSUME NEW k \in 1 .. NumGraphs
        PROVE  /\ ~ r.graph[<<t, k>>].alive
               /\ \A s \in Slots : <<t, k>> \notin ToSet(r.devices[s].sweep_cb_l)
    <3>1. <<t, k>> \in Graphs
      BY DEF Graphs
    <3>2. ToSet(<<>>) = {}
      BY DEF ToSet
    <3> QED
      BY <1>1, <3>1, <3>2, EmptyFacts, GraphConstants
  <2> QED
    BY <2>1 DEF Fresh
<1> QED
  BY <1>1, <1>4, <1>5, <1>6, <1>7, <1>8 DEF RegOK, r, cnt

LEMMA InitOK == Init => RegInv
<1> DEFINE first == CHOOSE t \in Tabs : TRUE
           q == BuildPage(NoDevices, first)
           cnt == MenuRefs({})
<1> SUFFICES ASSUME Init PROVE RegInv
  OBVIOUS
<1>1. /\ reg = q /\ nodev = {first} /\ pickers = [t \in Tabs |-> 0]
      /\ menu = NoMenu /\ rebound = FALSE /\ first \in Tabs
  BY TabsAssumption DEF Init, NoDevices
<1>2. /\ IsCount(cnt) /\ RegOK(NoDevices, cnt, -1) /\ CallbacksOK(NoDevices, Slots)
      /\ Fresh(NoDevices, first)
  <2>1. {} \in SUBSET Slots
    OBVIOUS
  <2> QED
    BY <1>1, <2>1, MenuFacts, NoDevicesOK
<1> HIDE DEF first, cnt
<1>3. /\ RegOK(q, cnt, -1) /\ CallbacksOK(q, Slots)
      /\ \A i \in 1 .. NumGraphs : q.graph[<<first, i>>].alive
      /\ \A u \in Tabs, i \in 1 .. NumGraphs :
           u # first => q.graph[<<u, i>>] = NoDevices.graph[<<u, i>>]
  BY <1>1, <1>2, PageBuilt
<1> HIDE DEF q
<1>4. \A u \in Tabs, i \in 1 .. NumGraphs : q.graph[<<u, i>>].alive <=> u = first
  <2>1. ASSUME NEW u \in Tabs, NEW i \in 1 .. NumGraphs
        PROVE  ~ NoDevices.graph[<<u, i>>].alive
    <3>1. <<u, i>> \in Graphs
      BY DEF Graphs
    <3> QED
      BY <3>1, NoDevicesFacts, GraphConstants
  <2>2. ASSUME NEW u \in Tabs, NEW i \in 1 .. NumGraphs
        PROVE  q.graph[<<u, i>>].alive <=> u = first
    BY <1>3, <2>1
  <2> QED
    BY <2>2
<1>5. PagesOK
  <2>1. 1 \in 1 .. NumGraphs /\ MaxPickers \in Nat
    BY BoundsAssumption
  <2>2. \A u \in Tabs : TabOpen(u) <=> u = first
    BY <1>1, <1>4, <2>1 DEF TabOpen
  <2>3. \A u \in Tabs, i \in 1 .. NumGraphs : reg.graph[<<u, i>>].alive <=> reg.graph[<<u, 1>>].alive
    BY <1>1, <1>4, <2>1
  <2>4. pickers \in [Tabs -> 0 .. MaxPickers] /\ \A u \in Tabs : ~ (pickers[u] > 0)
    BY <1>1, <2>1
  <2>5. MenuTyped(menu) /\ ~ menu.open /\ menu.recs = {}
    BY <1>1, MenuGone
  <2>6. nodev \subseteq {u \in Tabs : TabOpen(u)}
    BY <1>1, <2>2
  <2> QED
    BY <2>3, <2>4, <2>5, <2>6 DEF PagesOK, MenuTyped
<1>6. menu.recs = {}
  BY <1>1, MenuGone
<1> QED
  BY <1>1, <1>3, <1>5, <1>6 DEF RegInv, cnt

LEMMA NextKeeps == RegInv /\ [Next]_vars => RegInv'
<1> SUFFICES ASSUME RegInv, [Next]_vars PROVE RegInv'
  OBVIOUS
<1>1. CASE UNCHANGED vars
  <2>1. /\ reg' = reg /\ nodev' = nodev /\ pickers' = pickers /\ menu' = menu
        /\ rebound' = rebound
    BY <1>1 DEF vars
  <2>2. PagesOK'
    <3>1. IF menu'.open THEN menu'.tab \in nodev' ELSE menu'.recs = {}
      BY <2>1, InvFacts
    <3> QED
      BY <2>1, <3>1, InvFacts, PageFacts, PagesKept
  <2> QED
    BY <2>1, <2>2, InvFacts, InvRestored
<1>2. ASSUME NEW t \in Tabs, AddTab(t) PROVE RegInv'
  BY <1>2, AddTabKeeps
<1>3. ASSUME NEW t \in Tabs, DelTab(t) PROVE RegInv'
  BY <1>3, DelTabKeeps
<1>4. ASSUME NEW t \in Tabs, SpawnPicker(t) PROVE RegInv'
  BY <1>4, SpawnPickerKeeps
<1>5. ASSUME NEW t \in Tabs, PickerCloses(t) PROVE RegInv'
  BY <1>5, PickerClosesKeeps
<1>6. ASSUME NEW t \in Tabs, PopulateMenu(t) PROVE RegInv'
  BY <1>6, PopulateMenuKeeps
<1>7. ASSUME NEW t \in Tabs, NEW d \in Devices, PickerPicks(t, d) PROVE RegInv'
  BY <1>7, PickerPicksKeeps
<1>8. CASE MenuCancels
  BY <1>8, MenuCancelsKeeps
<1>9. ASSUME NEW s \in Slots, MenuPicks(s) PROVE RegInv'
  BY <1>9, MenuPicksKeeps
<1>10. ASSUME NEW s \in Slots, DeviceFails(s) PROVE RegInv'
  BY <1>10, DeviceFailsKeeps
<1>11. ASSUME NEW s \in Slots, PollError(s) PROVE RegInv'
  BY <1>11, PollErrorKeeps
<1>12. ASSUME NEW s \in Slots, PollConfigured(s) PROVE RegInv'
  BY <1>12, PollConfiguredKeeps
<1>13. ASSUME NEW s \in Slots, NEW complete \in SUBSET ToSet(reg.devices[s].sweep_cb_l),
              PollSweep(s, complete)
       PROVE  RegInv'
  BY <1>13, PollSweepKeeps
<1> QED
  BY <1>1, <1>2, <1>3, <1>4, <1>5, <1>6, <1>7, <1>8, <1>9, <1>10, <1>11, <1>12, <1>13
  DEF Next

(* What holds between two handlers holds always.                           *)
THEOREM RegistryInvariant == Spec => []RegInv
BY InitOK, NextKeeps, PTL DEF Spec
-----------------------------------------------------------------------------
(* The places of the pages, which nothing but the tabs' own steps touch.   *)
PageTyped == page \in [Tabs -> [place : Int, pagenum : Int]] /\ overcounted \in BOOLEAN

LEMMA TabsCounted ==
  ASSUME NEW T, T \subseteq Tabs
  PROVE  Cardinality(T) \in Nat
BY TabsAssumption, FS_Subset, FS_CardinalityType

LEMMA PageAppended ==
  ASSUME NEW p \in [Tabs -> [place : Int, pagenum : Int]], NEW t \in Tabs
  PROVE  AppendPage(p, t) \in [Tabs -> [place : Int, pagenum : Int]]
<1> DEFINE n == Cardinality({u \in Tabs : p[u] # NoPage})
<1>1. n \in Nat
  BY TabsCounted
<1> HIDE DEF n
<1>2. [place |-> n, pagenum |-> n] \in [place : Int, pagenum : Int]
  BY <1>1
<1> QED
  BY <1>2 DEF AppendPage, n

LEMMA PagesRemoved ==
  ASSUME NEW p \in [Tabs -> [place : Int, pagenum : Int]], NEW ts, ts \subseteq Tabs
  PROVE  RemovePages(p, ts) \in [Tabs -> [place : Int, pagenum : Int]]
<1> SUFFICES ASSUME NEW u \in Tabs
             PROVE  RemovePages(p, ts)[u] \in [place : Int, pagenum : Int]
  BY DEF RemovePages
<1> DEFINE n == Cardinality({x \in ts : p[x].place < p[u].place})
<1>1. n \in Nat
  BY TabsCounted
<1> HIDE DEF n
<1>2. NoPage \in [place : Int, pagenum : Int]
  BY DEF NoPage
<1>3. [p[u] EXCEPT !.place = @ - n] \in [place : Int, pagenum : Int]
  BY <1>1
<1>4. RemovePages(p, ts)[u] \in {NoPage, [p[u] EXCEPT !.place = @ - n]}
  BY DEF RemovePages, n
<1> QED
  BY <1>2, <1>3, <1>4

LEMMA InitPages == Init => PageTyped
<1> SUFFICES ASSUME Init PROVE PageTyped
  OBVIOUS
<1> DEFINE first == CHOOSE t \in Tabs : TRUE
           none == [t \in Tabs |-> NoPage]
<1>1. first \in Tabs /\ none \in [Tabs -> [place : Int, pagenum : Int]]
  BY TabsAssumption DEF NoPage
<1>2. page = AppendPage(none, first) /\ overcounted = FALSE
  BY DEF Init
<1> HIDE DEF first, none
<1> QED
  BY <1>1, <1>2, PageAppended DEF PageTyped

LEMMA NextPages == PageTyped /\ [Next]_vars => PageTyped'
<1> SUFFICES ASSUME PageTyped, [Next]_vars PROVE PageTyped'
  OBVIOUS
<1>1. ASSUME NEW t \in Tabs, AddTab(t) PROVE PageTyped'
  BY <1>1, PageAppended DEF AddTab, PageTyped
<1>2. ASSUME NEW t \in Tabs, DelTab(t) PROVE PageTyped'
  <2>1. PICK v \in PageRemoved(t) :
          LET rest == RemovePages(page, {t, v}) IN
          /\ overcounted' = (overcounted \/ v # t)
          /\ page' = rest \/ \E new \in Tabs : page' = AppendPage(rest, new)
    BY <1>2 DEF DelTab
  <2> DEFINE rest == RemovePages(page, {t, v})
  <2>2. v \in Tabs
    BY DEF PageRemoved
  <2>3. rest \in [Tabs -> [place : Int, pagenum : Int]]
    BY <2>2, PagesRemoved DEF PageTyped
  <2>4. page' = rest \/ \E new \in Tabs : page' = AppendPage(rest, new)
    BY <2>1
  <2> HIDE DEF rest
  <2>5. page' \in [Tabs -> [place : Int, pagenum : Int]]
    BY <2>3, <2>4, PageAppended
  <2> QED
    BY <2>1, <2>5 DEF PageTyped
<1>3. CASE UNCHANGED pageVars
  BY <1>3 DEF pageVars, PageTyped
<1>4. \/ UNCHANGED pageVars
      \/ \E t \in Tabs : AddTab(t) \/ DelTab(t)
  BY DEF Next, vars, SpawnPicker, PickerCloses, PopulateMenu, PickerPicks, MenuCancels,
     MenuPicks, DeviceFails, PollError, PollConfigured, PollSweep, Polls
<1> QED
  BY <1>1, <1>2, <1>3, <1>4

LEMMA InvTyped == RegInv /\ PageTyped => TypeOK
<1> SUFFICES ASSUME RegInv, PageTyped PROVE TypeOK
  OBVIOUS
<1>1. reg \in Regs /\ RegOK(reg, MenuRefs(menu.recs), -1) /\ PagesOK
  BY InvFacts
<1>2. /\ reg = [devices |-> reg.devices, cur_dev |-> reg.cur_dev, graph |-> reg.graph,
                astray |-> reg.astray]
      /\ reg.devices \in [Slots -> DevRecs] /\ reg.graph \in [Graphs -> GraphRecs]
  BY <1>1 DEF Regs
<1>3. DOMAIN reg = {"devices", "cur_dev", "graph", "astray"}
  BY <1>2
<1>4. \A s \in Slots : LET v == reg.devices[s] IN
        /\ v.phydev \in Devices \cup {NoDevice} /\ v.refcount \in Nat
        /\ v.sweep_cb_l \in Seq(Graphs) /\ v.polled \in BOOLEAN
        /\ v.stage \in {"closed", "configuring", "running", "error"}
  <2>1. ASSUME NEW s \in Slots, NEW v \in DevRecs
        PROVE  /\ v.phydev \in Devices \cup {NoDevice} /\ v.refcount \in Nat
               /\ v.sweep_cb_l \in Seq(Graphs) /\ v.polled \in BOOLEAN
               /\ v.stage \in {"closed", "configuring", "running", "error"}
    BY DEF DevRecs
  <2> QED
    BY <1>2, <2>1
<1>5. reg.cur_dev \in 0 .. MaxDev
  BY <1>1, OccupiedFinite DEF RegOK, SlotsDiffer
<1>6. /\ nodev \subseteq {t \in Tabs : TabOpen(t)}
      /\ pickers \in [Tabs -> 0 .. MaxPickers]
      /\ menu \in [open : BOOLEAN, tab : Tabs, recs : SUBSET Slots]
  BY <1>1 DEF PagesOK
<1> QED
  BY <1>2, <1>3, <1>4, <1>5, <1>6 DEF TypeOK, GraphRecs, PageTyped

(***************************************************************************)
(* Whatever pages, pickers, menus and devices do, the registry, the        *)
(* graphs and the menu have the types of the structs, cur_dev counts at    *)
(* most max_dev devices, and a "No device" panel is on an open page.       *)
(***************************************************************************)
THEOREM TypeCorrect == Spec => []TypeOK
BY RegistryInvariant, InitPages, NextPages, InvTyped, PTL DEF Spec

(* Users counts what CountIs counts.                                       *)
LEMMA UsersCounted ==
  ASSUME RegInv, NEW s \in Slots
  PROVE  Users(s) = UsersOf(reg, MenuRefs(menu.recs))[s] /\ Users(s) \in Nat
<1> DEFINE cnt == MenuRefs(menu.recs)
           c == UsersOf(reg, cnt)
<1>1. IsCount(cnt) /\ cnt[s] = IF s \in menu.recs THEN 1 ELSE 0
  BY InvFacts, MenuFacts
<1> HIDE DEF cnt
<1>2. IsCount(c) /\ c[s] = Cardinality(Bound(reg, s)) + cnt[s]
  BY <1>1, UsersFacts
<1>3. Users(s) = Cardinality(Bound(reg, s)) + cnt[s]
  BY <1>1 DEF Users, Bound
<1>4. c[s] \in Nat
  BY <1>2 DEF IsCount
<1> QED
  BY <1>2, <1>3, <1>4 DEF cnt

LEMMA InvCounts == RegInv => RefsMatch
<1> SUFFICES ASSUME RegInv PROVE RefsMatch
  OBVIOUS
<1> DEFINE c == UsersOf(reg, MenuRefs(menu.recs))
<1>1. SlotsDiffer(reg) /\ CountIs(reg, c, -1) /\ Occupied(reg) \subseteq Slots
  BY InvFacts, OccupiedFinite DEF RegOK
<1>2. \A s \in Slots : Users(s) = c[s] /\ s # -1
  BY UsersCounted, EmptyFacts
<1> HIDE DEF c
<1>3. /\ \A s \in Slots : reg.devices[s].refcount = Users(s)
      /\ \A s \in Occupied(reg) : Users(s) > 0
  BY <1>1, <1>2 DEF CountIs
<1> QED
  BY <1>1, <1>3 DEF RefsMatch, SlotsDiffer

(***************************************************************************)
(* The reference count of an open device is always the number of graphs    *)
(* bound to it and menu entries that name it, never zero; cur_dev counts   *)
(* the open devices, and no device is open twice: wdr_add_ref and          *)
(* wdr_del_ref are balanced along every path, the error walk included.     *)
(***************************************************************************)
THEOREM RefsCorrect == Spec => []RefsMatch
BY RegistryInvariant, InvCounts, PTL

(* A slot with a user is open.                                             *)
LEMMA UsedIsOpen ==
  ASSUME RegInv, NEW s \in Slots, Bound(reg, s) # {} \/ s \in menu.recs
  PROVE  s \in Occupied(reg)
<1> DEFINE cnt == MenuRefs(menu.recs)
           c == UsersOf(reg, cnt)
<1>1. IsCount(cnt) /\ cnt[s] = IF s \in menu.recs THEN 1 ELSE 0
  BY InvFacts, MenuFacts
<1> HIDE DEF cnt
<1>2. c[s] > 0
  <2> DEFINE n == Cardinality(Bound(reg, s))
  <2>0. IsCount(cnt)
    BY <1>1
  <2>1. n \in Nat /\ c[s] = n + cnt[s]
    BY <2>0, UsersFacts
  <2>a. Bound(reg, s) # {} => c[s] > 0
    BY <2>0, UsersFacts
  <2>2. CASE Bound(reg, s) # {}
    BY <2>a, <2>2
  <2>3. CASE s \in menu.recs
    <3>1. cnt[s] = 1
      BY <1>1, <2>3
    <3> HIDE DEF n, c
    <3> QED
      BY <2>1, <3>1
  <2> QED
    BY <2>2, <2>3
<1>3. reg.devices[s].refcount = c[s]
  BY InvFacts DEF RegOK, CountIs, cnt
<1> HIDE DEF c
<1> QED
  BY <1>2, <1>3, EmptyFacts DEF Occupied

LEMMA InvPhys == RegInv => PhyValid
<1> SUFFICES ASSUME RegInv PROVE PhyValid
  OBVIOUS
<1>1. reg \in Regs /\ GraphsOK(reg) /\ menu.recs \in SUBSET Slots
  BY InvFacts DEF RegOK
<1>2. ASSUME NEW w \in Alive(reg)
      PROVE  IF reg.graph[w].wdr_slot = -1 THEN reg.graph[w].phydev = NoDevice
             ELSE /\ reg.graph[w].wdr_slot \in Occupied(reg)
                  /\ reg.graph[w].phydev = reg.devices[reg.graph[w].wdr_slot].phydev
  <2> DEFINE g == reg.graph[w]
  <2>1. w \in Graphs /\ g.alive
    BY DEF Alive
  <2>2. GraphOK(reg, g) /\ (g.wdr_slot # -1 => g.wdr_slot \in Slots)
    BY <1>1, <2>1 DEF GraphsOK, Regs, GraphRecs
  <2>3. CASE g.wdr_slot = -1
    <3>1. g = Unbound
      BY <2>1, <2>2, <2>3 DEF GraphOK
    <3> QED
      BY <2>3, <3>1, GraphConstants
  <2>4. CASE g.wdr_slot # -1
    <3> DEFINE s == g.wdr_slot
    <3>1. s \in Slots /\ w \in Bound(reg, s)
      BY <2>1, <2>2, <2>4 DEF Bound
    <3> HIDE DEF s
    <3>2. s \in Occupied(reg)
      BY <3>1, UsedIsOpen
    <3> QED
      BY <2>2, <2>4, <3>2 DEF GraphOK, s
  <2> QED
    BY <2>3, <2>4
<1>3. menu.recs \subseteq Occupied(reg)
  BY <1>1, UsedIsOpen
<1> QED
  BY <1>2, <1>3 DEF PhyValid

(***************************************************************************)
(* No pointer to a device dangles: the phy of a graph is at every moment   *)
(* the open device of its slot, or NULL when it has none, and a menu entry *)
(* names an open device, whatever closed or failed while the menu was up.  *)
(***************************************************************************)
THEOREM PhysValid == Spec => []PhyValid
BY RegistryInvariant, InvPhys, PTL

LEMMA InvCallbacks == RegInv => CallbacksMatch
<1> SUFFICES ASSUME RegInv, ~ rebound PROVE
      /\ ~ reg.astray
      /\ \A s \in Occupied(reg) : reg.devices[s].polled =>
           /\ ToSet(reg.devices[s].sweep_cb_l) = {w \in Graphs : reg.graph[w].wdr_slot = s}
           /\ Len(reg.devices[s].sweep_cb_l) = Cardinality(ToSet(reg.devices[s].sweep_cb_l))
  BY DEF CallbacksMatch
<1>1. CallbacksOK(reg, Slots) /\ reg \in Regs
  BY InvFacts
<1>2. ASSUME NEW s \in Occupied(reg), reg.devices[s].polled
      PROVE  /\ ToSet(reg.devices[s].sweep_cb_l) = {w \in Graphs : reg.graph[w].wdr_slot = s}
             /\ Len(reg.devices[s].sweep_cb_l) = Cardinality(ToSet(reg.devices[s].sweep_cb_l))
  <2> DEFINE l == reg.devices[s].sweep_cb_l
             B == Bound(reg, s)
  <2>1. s \in Slots
    BY DEF Occupied
  <2>2. l \in Seq(Graphs)
    BY <1>1, <2>1, SlotFacts DEF DevRecs
  <2>3. Lists(l, B)
    BY <1>1, <1>2, <2>1 DEF CallbacksOK
  <2> HIDE DEF l, B
  <2>4. ToSet(l) = B /\ Len(l) = Cardinality(ToSet(l))
    BY <2>2, <2>3, ListCounts
  <2> QED
    BY <2>4 DEF l, B, Bound
<1> QED
  BY <1>1, <1>2 DEF CallbacksOK

(***************************************************************************)
(* As long as no tab is given a second device, a polled device calls back  *)
(* the graphs bound to it, each once, and no other: the error walk, which  *)
(* takes callbacks off the list it walks, still reaches every user, and    *)
(* no callback finds its slot freed or its widget gone.                    *)
(***************************************************************************)
THEOREM CallbacksCorrect == Spec => []CallbacksMatch
BY RegistryInvariant, InvCallbacks, PTL

LEMMA InvShows == RegInv => ShowsOwnDevice
BY InvFacts DEF CallbacksOK, ShowsOwnDevice, Alive

(***************************************************************************)
(* As long as no tab is given a second device, a graph shows only sweeps   *)
(* of the device it is bound to, also when another device takes the slot   *)
(* of a failed one.                                                        *)
(***************************************************************************)
THEOREM OwnDeviceShown == Spec => []ShowsOwnDevice
BY RegistryInvariant, InvShows, PTL
=============================================================================
