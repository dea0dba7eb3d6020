-------------------------- MODULE MCNotifications --------------------------
(* Model checking of Notifications: a job every tick, quiet hours in half   *)
(* of the ticks, two ticks between the messages of an alert and between the *)
(* digests of a failure, a window of two rows.                              *)
EXTENDS Notifications

\* One generation: two calm hours or two windy ones.
Calm == <<FALSE, FALSE>>
Windy == <<TRUE, TRUE>>
PlainForecasts == {<<Calm>>, <<Windy>>}
=============================================================================
