---------------------------------- MODULE Panel ----------------------------------
(***************************************************************************)
(* The panel: the sessions of its tabs (AdminSession) and the page of the  *)
(* gateway settings (GatewaySettings), which is open in the tabs that are  *)
(* on it.  Every request of the page carries the stored token and passes   *)
(* AdminJwtGuard, which looks when the request is sent; one it refuses is  *)
(* a Call of AdminSession.                                                 *)
(***************************************************************************)
EXTENDS AdminSession, GatewaySettings

CONSTANT MaxGestures    \* bound: what the administrators do

ASSUME PanelAssumption == Pages = Tabs /\ MaxGestures \in Nat

VARIABLE gestures

vars == <<sessionVars, settingsVars, gestures>>

TypeOK == SessionTypeOK /\ SettingsTypeOK /\ gestures \in 0 .. MaxGestures

Init == SessionInit /\ SettingsInit /\ gestures = 0

Counted == gestures < MaxGestures /\ gestures' = gestures + 1

\* The tabs that are not on the page, after a step of the sessions.
Elsewhere == {t \in Tabs : tab'[t].page # "panel"}

SessionGesture(t) ==
  \/ (\E page \in {"login", "change", "panel"} : Visit(t, page)) /\ LeavePage(Elsewhere \cup {t})
  \/ ((\E a \in Admins : Login(t, a)) \/ ChangePassword(t) \/ Call(t) \/ Logout(t))
       /\ LeavePage(Elsewhere)

Admitted(t) == tab[t].page = "panel" /\ Guard(local.token, "call") = "ok"

SettingsGesture(t) ==
  /\ \/ Admitted(t) /\ Requests(t)
     \/ \E k \in Accounts \cup {Empty} : Type(t, k)
  /\ UNCHANGED sessionVars

\* Choosing is not counted: it makes no more than the forms hold.
Chooses(t) == (\E g \in Gateways : Choose(t, g)) /\ UNCHANGED <<sessionVars, gestures>>

Next ==
  \/ (Background \/ \E t \in Tabs : Progress(t)) /\ LeavePage(Elsewhere) /\ UNCHANGED gestures
  \/ (\E t \in Tabs : SessionGesture(t) \/ SettingsGesture(t)) /\ Counted
  \/ \E t \in Tabs : Chooses(t)
  \/ (UsedElsewhere \/ \E t \in Tabs : Serves(t) \/ Replies(t)) /\ UNCHANGED <<sessionVars, gestures>>

Spec == Init /\ [][Next]_vars
================================================================================
