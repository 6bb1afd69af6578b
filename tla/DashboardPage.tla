---------------------------- MODULE DashboardPage ----------------------------
(***************************************************************************)
(* The overview (src/web/src/pages/DashboardPage.tsx, DashboardCharts.tsx):*)
(* panels that each ask for their own figures.  Some follow the range of   *)
(* days chosen, some do not, two are for administrators and are asked for  *)
(* again every 30 s, and two come with the charts, which are loaded late.  *)
(*                                                                         *)
(* The panels do not meet, so that one of them, chosen at the start, is    *)
(* followed.  A figure is the number of changes the server had made when   *)
(* it counted.                                                             *)
(***************************************************************************)
EXTENDS Mutations, FiniteSets

CONSTANTS
    Ranges,         \* the choices of days
    MaxElsewhere,   \* bound: changes of what is counted
    MaxGestures     \* bound: what the user does, and polls

VARIABLES server, cache, page

vars == <<server, cache, page, calls>>

(* By the range chosen, and not.                                           *)
RangePanels  == {"stats", "hot-keys", "error-reasons", "channel-performance"}
TodayPanels  == {"summary"}
OpsPanels    == {"readyz", "metrics"}
ChartPanels  == {"requests", "channels"}
Panels == RangePanels \cup TodayPanels \cup OpsPanels \cup ChartPanels

ByRange == RangePanels \cup {"requests"}

None == [days |-> 0, figure |-> 0]

(* A bug: the key of a range's figures does not name the range.            *)
KeyOfPanel(days) == 0
Key(days) == IF page.panel \in ByRange THEN days ELSE 0

(* Only a panel that is on the screen asks.                                *)
enabled ==
    /\ page.panel \in OpsPanels => page.isAdmin
    /\ page.panel \in ChartPanels => page.shouldLoadCharts

Gesture(p) ==
    /\ page.gestures < MaxGestures
    /\ page' = [p EXCEPT !.gestures = page.gestures + 1]
    /\ UNCHANGED <<server, cache, calls>>

(* One fetch of a key at a time; a figure of 0 is yet to be counted.       *)
Ask ==
    /\ enabled
    /\ \A a \in cache.asked : a.key # Key(page.days)
    /\ \/ cache.entry[Key(page.days)] = None
       \/ page.panel \in OpsPanels                  \* refetchInterval
       \/ page.refocused
    /\ cache' = [cache EXCEPT !.asked = @ \cup
                    {[key |-> Key(page.days), days |-> page.days, figure |-> 0]}]
    /\ page' = [page EXCEPT !.refocused = FALSE]
    /\ UNCHANGED <<server, calls>>

Serve(a) ==
    /\ a.figure = 0
    /\ cache' = [cache EXCEPT !.asked =
                    (@ \ {a}) \cup {[a EXCEPT !.figure = server.changes]}]
    /\ UNCHANGED <<server, page, calls>>

Land(a) ==
    /\ a.figure > 0
    /\ cache' = [entry |-> [cache.entry EXCEPT ![a.key] =
                               [days |-> a.days, figure |-> a.figure]],
                 asked |-> cache.asked \ {a}]
    /\ UNCHANGED <<server, page, calls>>

(* A query that had figures keeps them.                                    *)
Fail(a) ==
    /\ cache' = [cache EXCEPT !.asked = @ \ {a}]
    /\ UNCHANGED <<server, page, calls>>

Elsewhere ==
    /\ server.changes <= MaxElsewhere
    /\ server' = [server EXCEPT !.changes = @ + 1]
    /\ UNCHANGED <<cache, page, calls>>

(* The toggle group: exactly one range is pressed.                         *)
setTimeRange(days) ==
    /\ days # page.days
    /\ Gesture([page EXCEPT !.days = days])

(* The charts' place comes into view, or 1200 ms have passed.              *)
loadCharts ==
    /\ ~page.shouldLoadCharts
    /\ Gesture([page EXCEPT !.shouldLoadCharts = TRUE])

focus ==
    /\ ~page.refocused
    /\ Gesture([page EXCEPT !.refocused = TRUE])

(* What the panel shows: nothing yet, or these figures.                    *)
Shown == IF enabled THEN cache.entry[Key(page.days)] ELSE None

Init ==
    /\ server = [changes |-> 1]
    /\ cache = [entry |-> [k \in Ranges \cup {0} |-> None], asked |-> {}]
    /\ \E panel \in Panels, admin \in BOOLEAN :
          page = [panel |-> panel, isAdmin |-> admin,
                  days |-> CHOOSE d \in Ranges : \A e \in Ranges : d <= e,
                  shouldLoadCharts |-> FALSE, refocused |-> FALSE, gestures |-> 0]
    /\ calls = <<>>

Next ==
    \/ Ask \/ Elsewhere \/ loadCharts \/ focus
    \/ \E days \in Ranges : setTimeRange(days)
    \/ \E a \in cache.asked : Serve(a) \/ Land(a) \/ Fail(a)

Spec == Init /\ [][Next]_vars

(***************************************************************************)
(* Properties.                                                             *)
(***************************************************************************)
(* The figures under "last n days" were counted over those n days, however *)
(* late the answer for another range arrives, and the figures of a panel   *)
(* never go back to older ones while it stays on one range.                *)
FiguresOfRange ==
    /\ page.panel \in ByRange /\ Shown # None => Shown.days = page.days
    /\ Shown # None /\ page'.days = page.days => Shown'.figure >= Shown.figure
=============================================================================
