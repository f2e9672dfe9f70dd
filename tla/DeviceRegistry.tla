--------------------------- MODULE DeviceRegistry ---------------------------
(***************************************************************************)
(* The device registry of the GTK program (spectool_gtk_hw_registry.c),    *)
(* the graphs bound to its slots (spectool_gtk_widget.c) and the tabs,     *)
(* pickers and menus that open devices (spectool_gtk.c).                   *)
(*                                                                         *)
(* GTK runs one handler at a time, so a handler is one action.  A handler  *)
(* calls many functions that each change the registry a little: they are   *)
(* operators from a registry record to the next one, and an action         *)
(* composes them in the order of the calls.                                *)
(*                                                                         *)
(* A callback list that is walked after its slot was freed, and a callback *)
(* to a graph that was destroyed or has no device to ask, are undefined:   *)
(* `astray' is set and nothing is said of what follows.  The last callback *)
(* of an error walk frees the list it stands on; the walk is taken to end  *)
(* there, as it would have with the list intact.                           *)
(***************************************************************************)
EXTENDS Integers, FiniteSets, SequencesExt, TLC

CONSTANTS
  Devices,      \* the devices a user can pick, local or of a server
  NoDevice,     \* NULL
  MaxDev,       \* wdr->max_dev: WDR_MAX_DEV - 1 slots
  Tabs,         \* names for notebook pages (a bound of the model)
  NumGraphs,    \* graphs on a page: planar, topo, spectral and channel
  MaxPickers    \* picker windows open at once (a bound of the model)

ASSUME NoDeviceAssumption == NoDevice \notin Devices
ASSUME TabsAssumption == IsFiniteSet(Tabs) /\ Tabs # {}
ASSUME BoundsAssumption ==
  MaxDev \in Nat \ {0} /\ NumGraphs \in Nat \ {0} /\ MaxPickers \in Nat \ {0}

Slots  == 0 .. MaxDev - 1
Graphs == Tabs \X (1 .. NumGraphs)
GraphsOf(t) == [k \in 1 .. NumGraphs |-> <<t, k>>]

VARIABLES
  reg,          \* devices[slot] and cur_dev of the registry; graph[w], the
                \* state of a widget; astray
  page,         \* of each tab: the place of its page in the notebook now, and
                \* pagenum, the place it had when it was appended
  overcounted,  \* num_tabs counts a page that is gone
  nodev,        \* the tabs that still show the "No device" panel
  pickers,      \* the picker windows open for each tab
  menu,         \* the popup menu of open devices
  rebound       \* history: some tab was given a device while it had one

pageVars == <<page, overcounted>>
vars == <<reg, pageVars, nodev, pickers, menu, rebound>>

Empty  == [phydev |-> NoDevice, refcount |-> 0, sweep_cb_l |-> <<>>,
           polled |-> FALSE, stage |-> "closed"]
Gone   == [alive |-> FALSE, wdr_slot |-> -1, phydev |-> NoDevice,
           sweepcache |-> FALSE, shown |-> {}]
Unbound == [Gone EXCEPT !.alive = TRUE]
NoMenu == [open |-> FALSE, tab |-> CHOOSE t \in Tabs : TRUE, recs |-> {}]

Occupied(r) == {s \in Slots : r.devices[s] # Empty}
Alive(r)    == {w \in Graphs : r.graph[w].alive}
TabOpen(t)  == reg.graph[<<t, 1>>].alive

-----------------------------------------------------------------------------
(* wdr_add_ref and wdr_del_ref: the last reference closes the device.      *)
AddRef(r, s) ==
  IF s \in Occupied(r) THEN [r EXCEPT !.devices[s].refcount = @ + 1] ELSE r

(* Mutant: the count is tested the way one that starts at 0 would be.      *)
LastRefLate(r, s) == r.devices[s].refcount - 1 < 0

LastRef(r, s) == r.devices[s].refcount - 1 <= 0

DelRef(r, s) ==
  IF s \notin Occupied(r) THEN r
  ELSE IF LastRef(r, s)
       THEN [r EXCEPT !.devices[s] = Empty, !.cur_dev = @ - 1]
       ELSE [r EXCEPT !.devices[s].refcount = @ - 1]

(* wdr_add_sweepcb and wdr_del_sweepcb.                                    *)
AddSweepCb(r, s, w) ==
  IF s \in Occupied(r)
  THEN [r EXCEPT !.devices[s].sweep_cb_l = Append(@, w)] ELSE r

DelSweepCb(r, s, w) ==
  IF s \in Occupied(r)
  THEN [r EXCEPT !.devices[s].sweep_cb_l = RemoveFirst(@, w)] ELSE r

(* Mutant: the cache survives the error.                                   *)
FailedKeepsCache(r, w) ==
  [DelRef([r EXCEPT !.graph[w].phydev = NoDevice], r.graph[w].wdr_slot)
     EXCEPT !.graph[w].wdr_slot = -1]

(***************************************************************************)
(* spectool_widget_wdr_sweep.  An error drops the reference to the slot    *)
(* the graph has NOW, whichever device failed.                             *)
(***************************************************************************)
Failed(r, w) ==
  LET cleared == [r EXCEPT !.graph[w].phydev = NoDevice,
                           !.graph[w].sweepcache = FALSE,
                           !.graph[w].shown = {}]
  IN  [DelRef(cleared, r.graph[w].wdr_slot) EXCEPT !.graph[w].wdr_slot = -1]

Configured(r, w) ==
  [r EXCEPT !.graph[w].sweepcache = TRUE, !.graph[w].shown = {}]

Swept(r, w, d) ==
  IF r.graph[w].sweepcache
  THEN [r EXCEPT !.graph[w].shown = @ \cup {d}] ELSE r

(* What the widget does with a call in one of three modes; on CONFIGURED   *)
(* it asks its own phy for the profile.                                    *)
WdrSweep(r, w, mode, d) ==
  CASE mode = "error"      -> Failed(r, w)
    [] mode = "configured" -> Configured(r, w)
    [] mode = "sweep"      -> Swept(r, w, d)

CanBeCalled(r, w, mode) ==
  r.graph[w].alive /\ (mode = "configured" => r.graph[w].phydev # NoDevice)

(* wdr_sweep_update: each callback in turn, if it is one of ws.            *)
SweepUpdate(s, mode, ws) ==
  LET Call(r, w) ==
        IF r.astray \/ s \notin Occupied(r) \/ ~CanBeCalled(r, w, mode)
        THEN [r EXCEPT !.astray = TRUE]
        ELSE IF w \in ws THEN WdrSweep(r, w, mode, reg.devices[s].phydev) ELSE r
  IN  FoldLeft(Call, reg, reg.devices[s].sweep_cb_l)

(***************************************************************************)
(* spectool_widget_bind_dev: "Unref using the old slot, but only after     *)
(* we've reffed using the new one, incase someone picked the same dev      *)
(* twice".  The callback at the old slot stays.                            *)
(***************************************************************************)
Linked(r, w, s) ==
  LET held == DelRef(AddRef(r, s), r.graph[w].wdr_slot)
  IN  [held EXCEPT !.graph[w].wdr_slot = s,
                   !.graph[w].phydev = held.devices[s].phydev]

BindDev(r, w, s) ==
  LET listed == AddSweepCb(Linked(r, w, s), s, w)
  IN  IF listed.devices[s].stage \in {"running", "error"}
      THEN Configured(listed, w) ELSE listed

(* main_devopen.                                                           *)
DevOpen(r, t, s) ==
  FoldLeft(LAMBDA x, w : BindDev(x, w, s), r, GraphsOf(t))

Rebinds(t) == \E k \in 1 .. NumGraphs : reg.graph[<<t, k>>].wdr_slot # -1

(* wdr_open_add and wdr_open_phy: [registry, slot], the slot -1 when there *)
(* is no room.                                                             *)
SlotOf(d)    == {s \in Occupied(reg) : reg.devices[s].phydev = d}
FirstFree    == Min(Slots \ Occupied(reg))
OpenAdd(d) ==
  IF SlotOf(d) # {} THEN [reg |-> reg, slot |-> Min(SlotOf(d))]
  ELSE IF reg.cur_dev >= MaxDev THEN [reg |-> reg, slot |-> -1]
  ELSE [reg  |-> [reg EXCEPT !.devices[FirstFree] =
                    [Empty EXCEPT !.phydev = d, !.polled = TRUE,
                                  !.stage = "configuring"],
                  !.cur_dev = @ + 1],
        slot |-> FirstFree]

(* Mutant: the callback of a destroyed widget stays in the list.           *)
DestroyKeepsCallback(r, w) ==
  [DelRef(r, r.graph[w].wdr_slot) EXCEPT !.graph[w] = Gone]

(* spectool_widget_destroy.                                                *)
Destroy(r, w) ==
  LET s == r.graph[w].wdr_slot
  IN  [DelRef(DelSweepCb(r, s, w), s) EXCEPT !.graph[w] = Gone]

(* A destroyed widget's memory is given to a new one only in name: a name  *)
(* is used again when no callback list holds the old widget any more.      *)
Fresh(r, t) ==
  \A k \in 1 .. NumGraphs :
     /\ ~r.graph[<<t, k>>].alive
     /\ \A s \in Slots : <<t, k>> \notin ToSet(r.devices[s].sweep_cb_l)

BuildPage(r, t) ==
  [r EXCEPT !.graph = [w \in Graphs |-> IF w[1] = t THEN Unbound ELSE @[w]]]

(* gtk_notebook_append_page, and what its removal of the pages of ts does  *)
(* to those after them.                                                    *)
NoPage == [place |-> -1, pagenum |-> -1]

AppendPage(p, t) ==
  LET n == Cardinality({u \in Tabs : p[u] # NoPage})
  IN  [p EXCEPT ![t] = [place |-> n, pagenum |-> n]]

RemovePages(p, ts) ==
  [u \in Tabs |->
     IF u \in ts \/ p[u] = NoPage THEN NoPage
     ELSE [p[u] EXCEPT !.place = @ - Cardinality({x \in ts : p[x].place < p[u].place})]]

-----------------------------------------------------------------------------
(* wdr_init, and the first page main builds.                               *)
Init ==
  LET first == CHOOSE t \in Tabs : TRUE
  IN  /\ reg = BuildPage([devices |-> [s \in Slots |-> Empty], cur_dev |-> 0,
                          graph |-> [w \in Graphs |-> Gone], astray |-> FALSE],
                         first)
      /\ page = AppendPage([t \in Tabs |-> NoPage], first)
      /\ overcounted = FALSE
      /\ nodev = {first}
      /\ pickers = [t \in Tabs |-> 0]
      /\ menu = NoMenu
      /\ rebound = FALSE

(* The menu grabs the pointer: while it is up, only devices act.           *)
UserActs == ~reg.astray /\ ~menu.open

(* add_tab.                                                                *)
AddTab(t) ==
  /\ UserActs
  /\ Fresh(reg, t)
  /\ reg' = BuildPage(reg, t)
  /\ page' = AppendPage(page, t)
  /\ nodev' = nodev \cup {t}
  /\ UNCHANGED <<overcounted, pickers, menu, rebound>>

(***************************************************************************)
(* del_tab removes the page at pagenum, which nobody updates when a page   *)
(* before it goes away: another tab's page may be there by then, and is    *)
(* destroyed with its graphs, or none.  The tab's own page is destroyed    *)
(* after that in any case.  num_tabs counts one page less, and a new page  *)
(* is built when it is zero: once it counts a page that is gone, the last  *)
(* page has no successor.  A page whose tab has a picker open is not       *)
(* closed here, either way: the picker would bind graphs that are gone.    *)
(***************************************************************************)
Destroyed(r, t) == FoldLeft(Destroy, r, GraphsOf(t))

PageRemoved(t) ==
  LET there == {u \in Tabs : page[u] # NoPage /\ page[u].place = page[t].pagenum}
  IN  IF there = {} THEN {t} ELSE there

(* Mutant: the page goes away without the panel on it.                     *)
DelTabKeepsPanel(t) ==
  /\ UserActs
  /\ TabOpen(t) /\ pickers[t] = 0
  /\ Alive(Destroyed(reg, t)) # {}
  /\ reg' = Destroyed(reg, t)
  /\ page' = RemovePages(page, {t})
  /\ UNCHANGED <<overcounted, nodev, pickers, menu, rebound>>

DelTab(t) ==
  /\ UserActs
  /\ TabOpen(t) /\ pickers[t] = 0
  /\ \E v \in PageRemoved(t) :
       LET left == Destroyed(Destroyed(reg, t), v)
           rest == RemovePages(page, {t, v})
       IN
       /\ pickers[v] = 0
       /\ overcounted' = (overcounted \/ v # t)
       /\ \/ /\ Alive(left) # {} \/ overcounted'
             /\ reg' = left /\ page' = rest /\ nodev' = nodev \ {t, v}
          \/ /\ Alive(left) = {} /\ ~overcounted'
             /\ \E new \in Tabs : /\ Fresh(left, new)
                                  /\ reg' = BuildPage(left, new)
                                  /\ page' = AppendPage(rest, new)
                                  /\ nodev' = (nodev \ {t, v}) \cup {new}
  /\ UNCHANGED <<pickers, menu, rebound>>

(* main_menu_spawnpicker and main_menu_spawnnetpicker.                     *)
SpawnPicker(t) ==
  /\ UserActs
  /\ t \in nodev
  /\ FoldFunction(LAMBDA n, m : n + m, 0, pickers) < MaxPickers
  /\ pickers' = [pickers EXCEPT ![t] = @ + 1]
  /\ UNCHANGED <<reg, pageVars, nodev, menu, rebound>>

(* The picker's window goes away: cancelled, or the device did not open.   *)
PickerCloses(t) ==
  /\ UserActs
  /\ pickers[t] > 0
  /\ pickers' = [pickers EXCEPT ![t] = @ - 1]
  /\ UNCHANGED <<reg, pageVars, nodev, menu, rebound>>

(* wdr_devpicker_onrowactivated, wdr_devpicker_button and                  *)
(* wdr_netmanager_button: the device is opened and bound to the tab.       *)
PickerPicks(t, d) ==
  /\ UserActs
  /\ pickers[t] > 0
  /\ pickers' = [pickers EXCEPT ![t] = @ - 1]
  /\ OpenAdd(d).slot >= 0
  /\ reg' = DevOpen(OpenAdd(d).reg, t, OpenAdd(d).slot)
  /\ nodev' = nodev \ {t}
  /\ rebound' = (rebound \/ Rebinds(t))
  /\ UNCHANGED <<pageVars, menu>>

(* main_nodev_menu_button_press and wdr_populate_menu: "no race for        *)
(* devices if a graph is being closed".                                    *)
Listed == IF reg.cur_dev <= 0 THEN {} ELSE Occupied(reg)

(* Mutant: the entries claim no reference.                                 *)
PopulateMenuUnreffed(t) ==
  /\ UserActs
  /\ t \in nodev
  /\ menu' = [open |-> TRUE, tab |-> t, recs |-> Listed]
  /\ UNCHANGED <<reg, pageVars, nodev, pickers, rebound>>

PopulateMenu(t) ==
  /\ UserActs
  /\ t \in nodev
  /\ menu' = [open |-> TRUE, tab |-> t, recs |-> Listed]
  /\ reg' = FoldSet(LAMBDA s, r : AddRef(r, s), reg, Listed)
  /\ UNCHANGED <<pageVars, nodev, pickers, rebound>>

(* wdr_free_menu, on the menu's selection-done.                            *)
FreeMenu(r) == FoldSet(LAMBDA s, x : DelRef(x, s), r, menu.recs)

MenuCancels ==
  /\ ~reg.astray /\ menu.open
  /\ reg' = FreeMenu(reg)
  /\ menu' = NoMenu
  /\ UNCHANGED <<pageVars, nodev, pickers, rebound>>

(* main_menu_devpicker, then selection-done.                               *)
MenuPicks(s) ==
  /\ ~reg.astray /\ menu.open /\ s \in menu.recs
  /\ reg' = FreeMenu(DevOpen(reg, menu.tab, s))
  /\ menu' = NoMenu
  /\ nodev' = nodev \ {menu.tab}
  /\ rebound' = (rebound \/ Rebinds(menu.tab))
  /\ UNCHANGED <<pageVars, pickers>>

-----------------------------------------------------------------------------
(* The device's thread or its server ends; wdr_poll has not seen it.       *)
DeviceFails(s) ==
  /\ ~reg.astray
  /\ s \in Occupied(reg) /\ reg.devices[s].stage # "error"
  /\ reg' = [reg EXCEPT !.devices[s].stage = "error"]
  /\ UNCHANGED <<pageVars, nodev, pickers, menu, rebound>>

Polls(s, stage) ==
  /\ ~reg.astray
  /\ s \in Occupied(reg) /\ reg.devices[s].polled
  /\ reg.devices[s].stage = stage
  /\ UNCHANGED <<pageVars, nodev, pickers, menu, rebound>>

(* wdr_poll on an error: the walk, then the input is removed.              *)
PollError(s) ==
  /\ Polls(s, "error")
  /\ LET after == SweepUpdate(s, "error", Graphs)
     IN  reg' = IF s \in Occupied(after)
                THEN [after EXCEPT !.devices[s].polled = FALSE] ELSE after

(* wdr_poll on CONFIGURED, after which the device sweeps.                  *)
PollConfigured(s) ==
  /\ Polls(s, "configuring")
  /\ reg' = [SweepUpdate(s, "configured", Graphs) EXCEPT !.devices[s].stage = "running"]

(* wdr_poll on a complete sweep: it reaches the callbacks whose batch it   *)
(* completes (SweepAggregator).                                            *)
PollSweep(s, complete) ==
  /\ Polls(s, "running")
  /\ reg' = SweepUpdate(s, "sweep", complete)

Next ==
  \/ \E t \in Tabs : AddTab(t) \/ DelTab(t) \/ SpawnPicker(t) \/ PickerCloses(t)
                     \/ PopulateMenu(t)
  \/ \E t \in Tabs, d \in Devices : PickerPicks(t, d)
  \/ MenuCancels
  \/ \E s \in Slots : \/ MenuPicks(s) \/ DeviceFails(s)
                      \/ PollError(s) \/ PollConfigured(s)
                      \/ \E complete \in SUBSET ToSet(reg.devices[s].sweep_cb_l) :
                            PollSweep(s, complete)

Spec == Init /\ [][Next]_vars

Symmetry == Permutations(Devices)

-----------------------------------------------------------------------------
(***************************************************************************)
(* The registry, the graphs and the menu have the types of the structs.    *)
(***************************************************************************)
TypeOK ==
  /\ DOMAIN reg = {"devices", "cur_dev", "graph", "astray"}
  /\ \A s \in Slots : LET v == reg.devices[s] IN
       /\ v.phydev \in Devices \cup {NoDevice} /\ v.refcount \in Nat
       /\ v.sweep_cb_l \in Seq(Graphs) /\ v.polled \in BOOLEAN
       /\ v.stage \in {"closed", "configuring", "running", "error"}
  /\ reg.cur_dev \in 0 .. MaxDev
  /\ reg.graph \in [Graphs -> [alive : BOOLEAN, wdr_slot : Slots \cup {-1},
                               phydev : Devices \cup {NoDevice},
                               sweepcache : BOOLEAN, shown : SUBSET Devices]]
  /\ page \in [Tabs -> [place : Int, pagenum : Int]] /\ overcounted \in BOOLEAN
  /\ nodev \subseteq {t \in Tabs : TabOpen(t)}
  /\ pickers \in [Tabs -> 0 .. MaxPickers]
  /\ menu \in [open : BOOLEAN, tab : Tabs, recs : SUBSET Slots]

(***************************************************************************)
(* The reference count of an open device is the number of graphs bound to  *)
(* it and of menu entries that name it, at least one; cur_dev counts the   *)
(* open devices, and none is open twice.                                   *)
(***************************************************************************)
Users(s) == Cardinality({w \in Graphs : reg.graph[w].wdr_slot = s})
            + (IF s \in menu.recs THEN 1 ELSE 0)

RefsMatch ==
  /\ reg.cur_dev = Cardinality(Occupied(reg))
  /\ \A s \in Slots : reg.devices[s].refcount = Users(s)
  /\ \A s \in Occupied(reg) : Users(s) > 0
  /\ \A s, u \in Occupied(reg) :
        reg.devices[s].phydev = reg.devices[u].phydev => s = u

(***************************************************************************)
(* The phy a graph draws from at any moment is the open device of its      *)
(* slot, and a menu entry names an open device: no pointer dangles,        *)
(* whatever was closed, failed or was picked again in between.             *)
(***************************************************************************)
PhyValid ==
  /\ \A w \in Alive(reg) : LET g == reg.graph[w] IN
       IF g.wdr_slot = -1 THEN g.phydev = NoDevice
       ELSE /\ g.wdr_slot \in Occupied(reg)
            /\ g.phydev = reg.devices[g.wdr_slot].phydev
  /\ menu.recs \subseteq Occupied(reg)

(***************************************************************************)
(* Unless a tab was given a second device, a polled device calls back the  *)
(* graphs bound to it, each once and no other, so that the error walk      *)
(* reaches every user and no callback goes astray.                         *)
(***************************************************************************)
CallbacksMatch ==
  ~rebound =>
    /\ ~reg.astray
    /\ \A s \in Occupied(reg) : reg.devices[s].polled =>
         LET l == reg.devices[s].sweep_cb_l IN
         /\ ToSet(l) = {w \in Graphs : reg.graph[w].wdr_slot = s}
         /\ Len(l) = Cardinality(ToSet(l))

(***************************************************************************)
(* Unless a tab was given a second device, the sweeps in a graph's cache   *)
(* are those of the device it is bound to, also after that device failed   *)
(* and another one took its slot or its tab.                               *)
(***************************************************************************)
ShowsOwnDevice ==
  ~rebound => \A w \in Alive(reg) : reg.graph[w].shown \subseteq {reg.graph[w].phydev}
=============================================================================
