------------------------- MODULE NotificationsProofs -------------------------
(***************************************************************************)
(* Proofs about the spacing of messages in Notifications, for every number *)
(* of alerts and failures, every interval and every set of forecasts.      *)
(*                                                                         *)
(* Neither spacing property follows from the guard of the step that sends: *)
(* the guard was tested on rows read at the start of the run, and on what  *)
(* the process remembers.  The invariants relate both to what the reader   *)
(* has seen.                                                               *)
(***************************************************************************)
EXTENDS Notifications, TLAPS

\* The mark of a message is as young as the message, and an alert a run
\* still means to send has no young mark: only this run could set one.
MarksCover ==
    /\ \A a \in Alerts : a \notin unmarked => marked[a] <= since[a]
    /\ \A a \in todo : marked[a] = Spacing
    /\ pc = "send" => \A a \in sending : marked[a] = Spacing
    /\ \A a \in sending : a \notin todo
    /\ pc \notin {"send", "mark"} => sending = {}

\* The entry of a failure the process has told of is as young as the digest.
EntriesCover ==
    /\ \A k \in toldHere : age[k] <= told[k]
    /\ pc = "push" => \A k \in lines : age[k] = 0
    /\ pc = "push" => \A k \in lines \cap toldHere : told[k] = DigestTtl

SpacingInv == TypeOK /\ MarksCover /\ EntriesCover

-----------------------------------------------------------------------------
\* Ageing stays within the cap, keeps the order of two ages and stops there.
LEMMA OlderProperties ==
    ASSUME NEW cap \in Nat, NEW m \in 0..cap, NEW n \in 0..cap
    PROVE  /\ Older(m, cap) \in 0..cap
           /\ m <= n => Older(m, cap) <= Older(n, cap)
           /\ m = cap => Older(m, cap) = cap
BY DEF Older

LEMMA InitSpacingInv == ASSUME Init PROVE SpacingInv
<1>1. TypeOK
  BY NotificationsConstants DEF Init, TypeOK
<1>2. MarksCover
  BY NotificationsConstants DEF Init, MarksCover
<1>3. EntriesCover
  BY DEF Init, EntriesCover
<1>4. QED
  BY <1>1, <1>2, <1>3 DEF SpacingInv

-----------------------------------------------------------------------------
\* What a tick does to the ages.
LEMMA TickTypes ==
    ASSUME TypeOK, Tick
    PROVE  /\ marked' \in [Alerts -> 0..Spacing] /\ since' \in [Alerts -> 0..Spacing]
           /\ age' \in [Keys -> 0..DigestTtl] /\ told' \in [Keys -> 0..DigestTtl]
           /\ up' \in 0..DigestTtl /\ next' \in 0..Period /\ tod' \in 0..(Day - 1)
<1>1. Spacing \in Nat /\ DigestTtl \in Nat
  BY NotificationsConstants
<1>2. marked' \in [Alerts -> 0..Spacing] /\ since' \in [Alerts -> 0..Spacing]
  BY <1>1, OlderProperties DEF TypeOK, Tick
<1>3. age' \in [Keys -> 0..DigestTtl] /\ told' \in [Keys -> 0..DigestTtl]
  BY <1>1, OlderProperties DEF TypeOK, Tick
<1>4. up' \in 0..DigestTtl
  BY <1>1, OlderProperties DEF TypeOK, Tick
<1>5. next' \in 0..Period
  BY NotificationsConstants DEF TypeOK, Tick
<1>6. tod' \in 0..(Day - 1)
  BY NotificationsConstants DEF TypeOK, Tick
<1>7. QED
  BY <1>2, <1>3, <1>4, <1>5, <1>6

\* The type invariant, action by action.
LEMMA NextTypeOK == ASSUME TypeOK, [Next]_vars PROVE TypeOK'
<1> USE NotificationsConstants DEF alertRows, job, digest, world, history
<1>1. ASSUME NEW a \in Alerts, CreateAlert(a) \/ DeleteAlert(a) PROVE TypeOK'
  BY <1>1 DEF TypeOK, CreateAlert, DeleteAlert
<1>2. CASE Fire
  BY <1>2 DEF TypeOK, Fire, Eligible, Live
<1>3. ASSUME NEW a \in Alerts, CheckAlert(a) PROVE TypeOK'
  BY <1>3 DEF TypeOK, CheckAlert
<1>4. ASSUME NEW a \in Alerts, Deliver(a) PROVE TypeOK'
  BY <1>4 DEF TypeOK, Deliver
<1>5. ASSUME NEW a \in Alerts, DeliverUnanswered(a) PROVE TypeOK'
  BY <1>5 DEF TypeOK, DeliverUnanswered
<1>6. CASE SendFails
  BY <1>6 DEF TypeOK, SendFails
<1>7. ASSUME NEW a \in Alerts, MarkAlertTriggered(a) PROVE TypeOK'
  BY <1>7 DEF TypeOK, MarkAlertTriggered
<1>8. CASE EndAlerts
  BY <1>8 DEF TypeOK, EndAlerts
<1>9. CASE OperationalDigest
  <2>1. age' \in [Keys -> 0..DigestTtl] /\ lines' \subseteq Keys
    BY <1>9 DEF TypeOK, OperationalDigest
  <2>2. QED
    BY <1>9, <2>1 DEF TypeOK, OperationalDigest
<1>10. CASE Push
  BY <1>10 DEF TypeOK, Push
<1>11. CASE PushFails
  BY <1>11 DEF TypeOK, PushFails
<1>12. CASE Die
  BY <1>12 DEF TypeOK, Die
<1>13. CASE Start
  BY <1>13 DEF TypeOK, Start
<1>14. CASE Tick
  BY <1>14, TickTypes DEF TypeOK, Tick
<1>15. CASE NewForecast
  BY <1>15 DEF TypeOK, NewForecast
<1>16. CASE FailuresChange
  BY <1>16 DEF TypeOK, FailuresChange
<1>17. CASE UNCHANGED vars
  BY <1>17 DEF TypeOK, vars
<1>18. QED
  BY <1>1, <1>2, <1>3, <1>4, <1>5, <1>6, <1>7, <1>8, <1>9, <1>10, <1>11, <1>12,
     <1>13, <1>14, <1>15, <1>16, <1>17 DEF Next, Users, JobStep

-----------------------------------------------------------------------------
\* Marks follow messages, and a run's plans stay unmarked.
LEMMA NextMarksCover == ASSUME SpacingInv, [Next]_vars PROVE MarksCover'
<1> USE NotificationsConstants
        DEF SpacingInv, MarksCover, alertRows, job, digest, world, history
<1>1. ASSUME NEW a \in Alerts, CreateAlert(a) \/ DeleteAlert(a) PROVE MarksCover'
  BY <1>1 DEF CreateAlert, DeleteAlert
<1>2. CASE Fire
  BY <1>2 DEF Fire, Eligible, Live
<1>3. ASSUME NEW a \in Alerts, CheckAlert(a) PROVE MarksCover'
  BY <1>3 DEF CheckAlert
<1>4. ASSUME NEW a \in Alerts, Deliver(a) PROVE MarksCover'
  BY <1>4 DEF TypeOK, Deliver
<1>5. ASSUME NEW a \in Alerts, DeliverUnanswered(a) PROVE MarksCover'
  BY <1>5 DEF TypeOK, DeliverUnanswered
<1>6. CASE SendFails
  BY <1>6 DEF SendFails
<1>7. ASSUME NEW a \in Alerts, MarkAlertTriggered(a) PROVE MarksCover'
  <2>1. marked' = [marked EXCEPT ![a] = 0] /\ unmarked' = unmarked \ {a}
        /\ since' = since /\ todo' = todo /\ a \notin todo /\ sending' = {}
        /\ pc' = "alerts"
    BY <1>7 DEF MarkAlertTriggered
  <2>2. \A b \in Alerts : b \notin unmarked' => marked'[b] <= since'[b]
    BY <2>1 DEF TypeOK
  <2>3. QED
    BY <2>1, <2>2 DEF TypeOK
<1>8. CASE EndAlerts
  BY <1>8 DEF EndAlerts
<1>9. CASE OperationalDigest
  BY <1>9 DEF OperationalDigest
<1>10. CASE Push
  BY <1>10 DEF Push
<1>11. CASE PushFails
  BY <1>11 DEF PushFails
<1>12. CASE Die
  BY <1>12 DEF Die
<1>13. CASE Start
  BY <1>13 DEF Start
<1>14. CASE Tick
  <2>1. ASSUME NEW a \in Alerts, a \notin unmarked PROVE marked'[a] <= since'[a]
    <3>1. marked[a] \in 0..Spacing /\ since[a] \in 0..Spacing /\ marked[a] <= since[a]
      BY <2>1 DEF TypeOK
    <3>2. marked'[a] = Older(marked[a], Spacing) /\ since'[a] = Older(since[a], Spacing)
      BY <1>14 DEF Tick
    <3>3. QED
      BY <3>1, <3>2, OlderProperties
  <2>2. ASSUME NEW a \in Alerts, marked[a] = Spacing PROVE marked'[a] = Spacing
    BY <1>14, <2>2 DEF Tick, Older
  <2>3. todo' = todo /\ sending' = sending /\ pc' = pc /\ unmarked' = unmarked
        /\ todo \subseteq Alerts /\ sending \subseteq Alerts
    BY <1>14 DEF Tick, TypeOK
  <2>4. QED
    BY <2>1, <2>2, <2>3
<1>15. CASE NewForecast
  BY <1>15 DEF NewForecast
<1>16. CASE FailuresChange
  BY <1>16 DEF FailuresChange
<1>17. CASE UNCHANGED vars
  BY <1>17 DEF vars
<1>18. QED
  BY <1>1, <1>2, <1>3, <1>4, <1>5, <1>6, <1>7, <1>8, <1>9, <1>10, <1>11, <1>12,
     <1>13, <1>14, <1>15, <1>16, <1>17 DEF Next, Users, JobStep

-----------------------------------------------------------------------------
\* Entries follow digests.
LEMMA NextEntriesCover == ASSUME SpacingInv, [Next]_vars PROVE EntriesCover'
<1> USE NotificationsConstants
        DEF SpacingInv, EntriesCover, alertRows, job, digest, world, history
<1>1. ASSUME NEW a \in Alerts, CreateAlert(a) \/ DeleteAlert(a) PROVE EntriesCover'
  BY <1>1 DEF CreateAlert, DeleteAlert
<1>2. CASE Fire
  BY <1>2 DEF Fire
<1>3. ASSUME NEW a \in Alerts,
             CheckAlert(a) \/ Deliver(a) \/ DeliverUnanswered(a) \/ MarkAlertTriggered(a)
      PROVE  EntriesCover'
  BY <1>3 DEF CheckAlert, Deliver, DeliverUnanswered, MarkAlertTriggered
<1>4. CASE SendFails
  BY <1>4 DEF SendFails
<1>5. CASE EndAlerts
  BY <1>5 DEF EndAlerts
<1>6. CASE OperationalDigest
  <2>1. toldHere' = toldHere /\ told' = told /\ toldHere \subseteq Keys
        /\ lines' = {k \in failing : age[k] = DigestTtl} /\ failing \subseteq Keys
    BY <1>6 DEF OperationalDigest, TypeOK
  <2>2. \A k \in Keys : age'[k] = IF k \in lines' THEN 0 ELSE age[k]
    BY <1>6 DEF OperationalDigest
  <2>3. \A k \in toldHere' : age'[k] <= told'[k]
    BY <2>1, <2>2 DEF TypeOK
  <2>4. \A k \in lines' : age'[k] = 0
    BY <2>1, <2>2
  <2>5. \A k \in lines' \cap toldHere' : told'[k] = DigestTtl
    BY <2>1 DEF TypeOK
  <2>6. QED
    BY <2>3, <2>4, <2>5
<1>7. CASE Push
  <2>1. \A k \in toldHere' : age'[k] <= told'[k]
    BY <1>7 DEF Push, TypeOK
  <2>2. pc' = "idle"
    BY <1>7 DEF Push
  <2>3. QED
    BY <2>1, <2>2
<1>8. CASE PushFails
  BY <1>8 DEF PushFails
<1>9. CASE Die
  BY <1>9 DEF Die
<1>10. CASE Start
  BY <1>10 DEF Start
<1>11. CASE Tick
  <2>1. pc' = pc /\ pc # "push" /\ toldHere' = toldHere /\ toldHere \subseteq Keys
    BY <1>11 DEF Tick, TypeOK
  <2>2. ASSUME NEW k \in toldHere PROVE age'[k] <= told'[k]
    <3>1. age[k] \in 0..DigestTtl /\ told[k] \in 0..DigestTtl /\ age[k] <= told[k]
      BY <2>1 DEF TypeOK
    <3>2. age'[k] = Older(age[k], DigestTtl) /\ told'[k] = Older(told[k], DigestTtl)
      BY <1>11, <2>1 DEF Tick
    <3>3. QED
      BY <3>1, <3>2, OlderProperties
  <2>3. QED
    BY <2>1, <2>2
<1>12. CASE NewForecast
  BY <1>12 DEF NewForecast
<1>13. CASE FailuresChange
  BY <1>13 DEF FailuresChange
<1>14. CASE UNCHANGED vars
  BY <1>14 DEF vars
<1>15. QED
  BY <1>1, <1>2, <1>3, <1>4, <1>5, <1>6, <1>7, <1>8, <1>9, <1>10, <1>11, <1>12,
     <1>13, <1>14 DEF Next, Users, JobStep

-----------------------------------------------------------------------------
\* The inductive invariant holds in every behaviour.
THEOREM SpacingInvariant == Spec => []SpacingInv
<1>1. Init => SpacingInv
  BY InitSpacingInv
<1>2. SpacingInv /\ [Next]_vars => SpacingInv'
  BY NextTypeOK, NextMarksCover, NextEntriesCover DEF SpacingInv
<1>3. QED
  BY <1>1, <1>2, PTL DEF Spec

\* Every age, set and position of the job stays in its range.
THEOREM NotificationsTypeCorrect == Spec => []TypeOK
BY SpacingInvariant, PTL DEF SpacingInv

\* An alert is repeated within the interval only if its last mark was lost.
THEOREM AlertsAreSpaced == Spec => AlertsSpaced
<1>1. SpacingInv /\ [Next]_vars =>
         [\A a \in Alerts : (Deliver(a) \/ DeliverUnanswered(a)) =>
              since[a] = Spacing \/ a \in unmarked]_vars
  BY NotificationsConstants DEF SpacingInv, MarksCover, TypeOK, Deliver, DeliverUnanswered
<1>2. QED
  BY <1>1, SpacingInvariant, PTL DEF Spec, AlertsSpaced

\* A process repeats a failure in a digest only after the interval.
THEOREM DigestsAreSpaced == Spec => DigestSpaced
<1>1. SpacingInv /\ [Next]_vars =>
         [\A k \in Keys : (Push /\ k \in lines /\ k \in toldHere) =>
              told[k] = DigestTtl]_vars
  BY DEF SpacingInv, EntriesCover, Push
<1>2. QED
  BY <1>1, SpacingInvariant, PTL DEF Spec, DigestSpaced
=============================================================================
