----------------------------- MODULE MCServices -----------------------------
(***************************************************************************)
(* Three components that share no state, checked for liveness in one run:  *)
(* the streams of one terminal, terminal inventories and camera streams.   *)
(* Which of them a behaviour is about is chosen at its start, and the      *)
(* others stay as they were initialised.  Each property is that of the     *)
(* component's module, of the behaviours that are about it.                *)
(***************************************************************************)
EXTENDS VideoStream

CONSTANTS
  w1, w2, d1, e1, e2,     \* inventory: workers, a device, reports
  r1, s1, s2              \* camera control: a request to start, streams

VARIABLES
  part,
  holder, reports, item, due, posting, boot, page, spent,
  active, last, on, record, claimed, starter, stopper, events, reporter, loop,
  used

Inventory == INSTANCE InventoryDelivery WITH
  Workers <- {w1, w2}, Devices <- {d1}, Orgs <- {"a", "b"}, Events <- {e1, e2},
  MaxFailures <- 1, MaxBinds <- 1, MaxStarts <- 1, owner <- holder

Camera == INSTANCE CameraControl WITH
  Starters <- {r1}, Streams <- {s1, s2}, Negotiated <- {s2}, MaxLeases <- 1,
  MaxStarts <- 2, MaxStops <- 1, MaxCrashes <- 1, spent <- used

inventoryVars == <<holder, reports, item, due, posting, boot, page, spent>>
cameraVars == <<active, last, on, record, claimed, starter, stopper, events, reporter,
                loop, used>>
vars == <<part, videoVars, inventoryVars, cameraVars>>

Init ==
  /\ part \in {"video", "inventory", "camera"}
  /\ VideoInit /\ Inventory!Init /\ Camera!Init

Next ==
  /\ UNCHANGED part
  /\ \/ part = "video" /\ VideoNext /\ UNCHANGED <<inventoryVars, cameraVars>>
     \/ part = "inventory" /\ Inventory!Next /\ UNCHANGED <<videoVars, cameraVars>>
     \/ part = "camera" /\ Camera!Next /\ UNCHANGED <<videoVars, inventoryVars>>

\* The fairness of each component, in the behaviours that are about it.
FairVideo ==
  /\ \A p \in Procs : WF_videoVars(part = "video" /\ Work(p))
  /\ WF_videoVars(part = "video" /\ Clean) /\ WF_videoVars(part = "video" /\ Deliver)

FairInventory ==
  /\ \A w \in {w1, w2} : WF_inventoryVars(part = "inventory" /\ Inventory!Work(w))
  /\ \A e \in {e1, e2} : /\ WF_inventoryVars(part = "inventory" /\ Inventory!ComesDue(e))
                         /\ WF_inventoryVars(part = "inventory" /\ Inventory!Expires(e))

FairCamera == WF_cameraVars(part = "camera" /\ Camera!Loop)

Spec == Init /\ [][Next]_vars /\ FairVideo /\ FairInventory /\ FairCamera

\* In a behaviour about the streams: without a fault the agent does not go on publishing
\* an epoch that is retired and not yet replaced (video_control.py, OrphanStops).
RetiredStops == part = "video" => OrphanStops

\* In a behaviour about inventories: every row is finished in the end, whatever the
\* receiver answers (terminal_inventory_delivery.py, deliver_one).
EveryRowFinishes == part = "inventory" => Inventory!EveryRowFinishes

\* In a behaviour about camera streams: one whose lease is gone is retired, also after a
\* crash (control.py, reconcile).
OrphanRetired == part = "camera" => Camera!OrphanRetired
=============================================================================
