-------------------------------- MODULE Bot --------------------------------
(***************************************************************************)
(* The conversations of the Telegram bot: commands, inline keyboards and   *)
(* what they write.                                                        *)
(*                                                                         *)
(* A button's callback_data is the tuple of its parts between colons, a    *)
(* keyboard the set of its buttons.  A keyboard is made when it is sent    *)
(* and stays pressable, while a restart may change which points are        *)
(* operational.  Updates are handled one after the other, so a handler is  *)
(* one step.  What an answer says is left out: a result is the keyboard    *)
(* below it, and {} stands for a message without one.                      *)
(***************************************************************************)
EXTENDS Naturals, Sequences, FiniteSets

CONSTANTS
    Users, Admins,
    Lakes,        \* settings.lakes
    Points,       \* settings.virtual_points
    LakeOf,       \* the lake of each point
    Configs,      \* sets of operational points a version may start with
    First(_),     \* the first operational point of the settings
    Languages, Units, Hours, Thresholds,
    Limit,        \* commands of a user that are answered in an hour
    Hour,         \* ticks in an hour
    MaxMessages,  \* bound: the last messages of each user's chat
    MaxAlerts,    \* bound: alerts created
    NoPoint       \* a favourite_point_id that is NULL

BotAssumption ==
    /\ Admins \subseteq Users
    /\ LakeOf \in [Points -> Lakes]
    /\ \A c \in Configs : c \subseteq Points /\ First(c) \in Points
    /\ NoPoint \notin Points
    /\ "en" \in Languages /\ "kn" \in Units
    /\ Limit \in Nat \ {0} /\ Hour \in Nat \ {0}
    /\ MaxMessages \in [Users -> Nat] /\ MaxAlerts \in Nat

VARIABLES
    points,   \* operational_point_ids of the running version
    row,      \* v2_users: each user's row, as a set of at most one
    alerts,   \* v2_alerts
    created,  \* alerts created so far
    chat,     \* the keyboards of each user's last messages
    recent,   \* _rate_counts: the answered commands each user's list still holds
    answered, \* history: those answered by this process within the last hour
    told,     \* history: users told that they are all set
    gone,     \* history: those who had picked a spot that is no longer one
    wanted,   \* history: users who pressed a threshold
    owners    \* history: users an alert was created for

alertRows == <<alerts, created, owners>>
history == <<answered, told, gone, wanted>>
vars == <<points, row, alertRows, chat, recent, history>>

Row == [favourite : Points \cup {NoPoint}, language : Languages, units : Units]
Alert == [id : 1..MaxAlerts, owner : Users, point : Points, kn : Thresholds]

\* An entry of _rate_counts: its age in ticks, Hour for everything older, and a
\* number that tells it from the others of the list.
Entry == [nr : Nat \ {0}, age : 0..Hour]

-----------------------------------------------------------------------------
(* Keyboards.                                                              *)

Back == <<"m", "back">>

MenuItems == {"wind", "today", "map", "sail", "best", "tomorrow", "trend",
              "alert", "settings", "status"}

MainMenuKb(u) ==
    {<<"m", x>> : x \in MenuItems \cup {y \in {"admin"} : u \in Admins}}

LakeKb(action) == {<<"wl", action, l>> : l \in Lakes} \cup {Back}

PointsOf(lake) == {p \in points : LakeOf[p] = lake}

SpotKb(action, lake) ==
    {<<action, p>> : p \in PointsOf(lake)} \cup {<<"wl", action>>, Back}

TimeKb(p) ==
    {<<"w", p, h>> : h \in Hours} \cup {<<"wl", "w", LakeOf[p]>>, Back}

WindKb(p) == {<<"wl", "w", LakeOf[p]>>, Back}

MapLakeKb == {<<"mp", l>> : l \in Lakes \cup {"all"}} \cup {Back}

MapTimeKb(lake) == {<<"map", lake, h>> : h \in Hours} \cup {<<"m", "map">>, Back}

AlertKb(u) ==
    {<<"al", "new">>, Back} \cup {<<"m", "alert">> : a \in {b \in alerts : b.owner = u}}

ThresholdKb(p) ==
    {<<"al", "set", p, kn>> : kn \in Thresholds} \cup {<<"al", "new">>, Back}

LanguageKb == {<<"ob", "lang", x>> : x \in Languages}
UnitsKb == {<<"ob", "units", x>> : x \in Units}

\* Buttons of earlier versions that the handler still answers.
LegacyKb ==
    {<<a, "back">> : a \in {"w", "t", "tr"}} \cup {<<"map", h>> : h \in Hours}
        \cup {<<"ob", "skip">>} \cup {<<"ob", "fav", p>> : p \in Points}

Init ==
    /\ points \in Configs
    /\ row = [u \in Users |-> {}]
    /\ alerts = {} /\ created = 0
    /\ \E old \in {<<>>, <<LegacyKb>>} :
          chat = [u \in Users |-> IF MaxMessages[u] = 0 THEN <<>> ELSE old]
    /\ recent = [u \in Users |-> {}]
    /\ answered = [u \in Users |-> {}]
    /\ told = {} /\ gone = {} /\ wanted = {} /\ owners = {}

-----------------------------------------------------------------------------
(* Updates.                                                                *)

NewRow == [favourite |-> NoPoint, language |-> "en", units |-> "kn"]

\* _authorize() registers who is not known yet, and a row it has inserted is
\* allowed.
User(u) == IF row[u] = {} THEN NewRow ELSE CHOOSE r \in row[u] : TRUE

Authorize(u) == row' = [row EXCEPT ![u] = {User(u)}]
Prefer(u, key, value) ==
    row' = [row EXCEPT ![u] = {[User(u) EXCEPT ![key] = value]}]

\* The chat after one more message.
Reply(u, kb) ==
    LET all == Append(chat[u], kb)
    IN  chat' = [chat EXCEPT ![u] = IF Len(all) > MaxMessages[u] THEN Tail(all) ELSE all]

\* edit_message_text() puts another keyboard in the message's place.
Edit(u, i, kb) == chat' = [chat EXCEPT ![u][i] = kb]

Press(u, i, b) == i \in DOMAIN chat[u] /\ b \in chat[u][i]

\* What the buttons of the main menu lead to; a report, also one that has
\* nothing to say, keeps the menu below it.
MenuAnswer(u, x) ==
    CASE x = "wind" -> LakeKb("w")
      [] x = "today" -> LakeKb("t")
      [] x = "trend" -> LakeKb("tr")
      [] x = "map" -> MapLakeKb
      [] x = "alert" -> AlertKb(u)
      [] OTHER -> MainMenuKb(u)

PressMenu(u, i) ==
    \E x \in MenuItems \cup {"back", "admin"} :
        /\ Press(u, i, <<"m", x>>)
        /\ x = "admin" => u \in Admins
        /\ Edit(u, i, MenuAnswer(u, x)) /\ Authorize(u)
        /\ UNCHANGED <<points, alertRows, recent, history>>

\* wl:<action> and al:new, and the legacy buttons that led to a flat list.
PressLakes(u, i) ==
    \E a \in {"w", "t", "tr", "al", "fav"} :
        /\ \E b \in {<<"wl", a>>, <<a, "back">>, <<a, "new">>} :
              Press(u, i, b) /\ (b[2] = "new" => a = "al")
        /\ Edit(u, i, LakeKb(a)) /\ Authorize(u)
        /\ UNCHANGED <<points, alertRows, recent, history>>

\* wl:<action>:<lake>; a lake without spots shows the lakes again.
PressLake(u, i) ==
    \E a \in {"w", "t", "tr", "al", "fav"}, l \in Lakes :
        /\ Press(u, i, <<"wl", a, l>>)
        /\ Edit(u, i, IF PointsOf(l) = {} THEN LakeKb(a) ELSE SpotKb(a, l))
        /\ Authorize(u)
        /\ UNCHANGED <<points, alertRows, recent, history>>

\* A spot: times for the wind, the table of today, the chart of the trend, or
\* thresholds for an alert when the spot still is one.
PressSpot(u, i) ==
    \E p \in Points :
        /\ \/ Press(u, i, <<"w", p>>) /\ Edit(u, i, TimeKb(p))
           \/ Press(u, i, <<"t", p>>) /\ Edit(u, i, {Back})
           \/ Press(u, i, <<"tr", p>>) /\ Edit(u, i, MainMenuKb(u))
           \/ /\ Press(u, i, <<"al", p>>)
              /\ Edit(u, i, IF p \in points THEN ThresholdKb(p) ELSE LakeKb("al"))
        /\ Authorize(u)
        /\ UNCHANGED <<points, alertRows, recent, history>>

\* A time: the forecast, or that there is none.
PressTime(u, i) ==
    \E p \in Points, h \in Hours :
        /\ Press(u, i, <<"w", p, h>>)
        /\ Edit(u, i, WindKb(p)) \/ Edit(u, i, MainMenuKb(u))
        /\ Authorize(u)
        /\ UNCHANGED <<points, alertRows, recent, history>>

PressMap(u, i) ==
    /\ \/ \E l \in Lakes \cup {"all"} :
             \/ Press(u, i, <<"mp", l>>) /\ Edit(u, i, MapTimeKb(l))
             \/ \E h \in Hours :
                   Press(u, i, <<"map", l, h>>) /\ Edit(u, i, MainMenuKb(u))
       \/ \E h \in Hours : Press(u, i, <<"map", h>>) /\ Edit(u, i, MainMenuKb(u))
    /\ Authorize(u)
    /\ UNCHANGED <<points, alertRows, recent, history>>

\* create_alert()
CreateAlert(u, p, kn) ==
    /\ created < MaxAlerts
    /\ created' = created + 1 /\ owners' = owners \cup {u}
    /\ alerts' = alerts \cup {[id |-> created + 1, owner |-> u, point |-> p, kn |-> kn]}

\* al:set: the handler wants three parts, of which the second would be the
\* point; a button that no branch wants is ignored.
PressThreshold(u, i) ==
    \E b \in UNION {chat[u][j] : j \in DOMAIN chat[u]} :
        /\ Press(u, i, b) /\ Len(b) > 2 /\ b[1] = "al" /\ b[2] = "set"
        /\ IF Len(b) = 3
           THEN CreateAlert(u, b[2], CHOOSE kn \in Thresholds : TRUE)
                    /\ Edit(u, i, MainMenuKb(u))
           ELSE UNCHANGED <<alertRows, chat>>
        /\ wanted' = wanted \cup {u}
        /\ Authorize(u)
        /\ UNCHANGED <<points, recent, answered, told, gone>>

-----------------------------------------------------------------------------
(* Onboarding.                                                             *)

PressPreference(u, i) ==
    /\ \/ \E x \in Languages :
             /\ Press(u, i, <<"ob", "lang", x>>)
             /\ Prefer(u, "language", x) /\ Edit(u, i, UnitsKb)
       \/ \E x \in Units :
             /\ Press(u, i, <<"ob", "units", x>>)
             /\ Prefer(u, "units", x) /\ Edit(u, i, LakeKb("fav"))
    /\ UNCHANGED <<points, alertRows, recent, history>>

\* Mutant of PressFavourite: skipping stores nothing.
PressFavouriteSkips(u, i) ==
    /\ \/ \E p \in Points :
             /\ Press(u, i, <<"fav", p>>)
             /\ IF p \in points THEN Prefer(u, "favourite", p) /\ UNCHANGED gone
                                ELSE Authorize(u) /\ gone' = gone \cup {u}
       \/ \E p \in Points :
             Press(u, i, <<"ob", "fav", p>>) /\ Prefer(u, "favourite", p) /\ UNCHANGED gone
       \/ Press(u, i, <<"ob", "skip">>) /\ Authorize(u) /\ UNCHANGED gone
    /\ told' = told \cup {u} /\ Edit(u, i, MainMenuKb(u))
    /\ UNCHANGED <<points, alertRows, recent, answered, wanted>>

\* The last answer, or none: "All set!", also for a spot that is gone.
PressFavourite(u, i) ==
    /\ \/ \E p \in Points :
             /\ Press(u, i, <<"fav", p>>)
             /\ IF p \in points THEN Prefer(u, "favourite", p) /\ UNCHANGED gone
                                ELSE Authorize(u) /\ gone' = gone \cup {u}
       \/ \E p \in Points :
             Press(u, i, <<"ob", "fav", p>>) /\ Prefer(u, "favourite", p) /\ UNCHANGED gone
       \/ /\ Press(u, i, <<"ob", "skip">>)
          /\ Prefer(u, "favourite", First(points)) /\ UNCHANGED gone
    /\ told' = told \cup {u} /\ Edit(u, i, MainMenuKb(u))
    /\ UNCHANGED <<points, alertRows, recent, answered, wanted>>

\* /start and /menu
Start(u) ==
    /\ Reply(u, IF User(u).favourite = NoPoint THEN LanguageKb ELSE MainMenuKb(u))
    /\ Authorize(u)
    /\ UNCHANGED <<points, alertRows, recent, history>>

-----------------------------------------------------------------------------
(* Commands.                                                               *)

\* The commands that _check_rate_limit() still counts.
Recent(u) == {c \in recent[u] : c.age < Hour}

\* _rate_counts[user_id].append(now)
Counted(entries) ==
    LET free == CHOOSE n \in 1..(Cardinality(entries) + 1) : \A c \in entries : c.nr # n
    IN  entries \cup {[nr |-> free, age |-> 0]}

\* The answer of a command about a point: the point given, or the favourite.
About(u, flow) ==
    \E p \in {User(u).favourite} \cup Points :
        Reply(u, IF p \in points THEN {} ELSE LakeKb(flow))

\* /wind [point] and /best
Limited(u) ==
    /\ IF Cardinality(Recent(u)) >= Limit
       THEN /\ Reply(u, {})
            /\ recent' = [recent EXCEPT ![u] = Recent(u)]
            /\ UNCHANGED answered
       ELSE /\ About(u, "w") \/ Reply(u, MainMenuKb(u))
            /\ recent' = [recent EXCEPT ![u] = Counted(Recent(u))]
            /\ answered' = [answered EXCEPT ![u] = @ \cup (Counted(Recent(u)) \ Recent(u))]
    /\ Authorize(u)
    /\ UNCHANGED <<points, alertRows, told, gone, wanted>>

\* /today, /trend, /map, and /help, /sailing or /tomorrow; commands that answer
\* with text alone; and a command that is not known.
Unlimited(u) ==
    /\ \/ Reply(u, {})
       \/ About(u, "t") \/ About(u, "tr")
       \/ Reply(u, MapLakeKb) \/ Reply(u, MainMenuKb(u))
    /\ Authorize(u)
    /\ UNCHANGED <<points, alertRows, recent, history>>

\* /language and /units
Preference(u) ==
    /\ \/ \E x \in Languages : Prefer(u, "language", x)
       \/ \E x \in Units : Prefer(u, "units", x)
    /\ Reply(u, {})
    /\ UNCHANGED <<points, alertRows, recent, history>>

\* /alert set <kn> <point>
AlertSet(u) ==
    /\ \E p \in points, kn \in Thresholds : CreateAlert(u, p, kn)
    /\ Reply(u, {}) /\ Authorize(u)
    /\ UNCHANGED <<points, recent, history>>

\* Mutant of Deleted: the id alone is enough.
DeletedOfAnyone(u, id) == {a \in alerts : a.id = id}

\* delete_alert()
Deleted(u, id) == {a \in alerts : a.id = id /\ a.owner = u}

\* /alert del <id>, of anybody's alert
AlertDel(u) ==
    /\ \E id \in 1..created : alerts' = alerts \ Deleted(u, id)
    /\ Reply(u, {}) /\ Authorize(u)
    /\ UNCHANGED <<points, created, owners, recent, history>>

-----------------------------------------------------------------------------
(* Time, and another version of the settings.                              *)

Older(c) == [c EXCEPT !.age = IF @ < Hour THEN @ + 1 ELSE Hour]

Tick ==
    /\ recent' = [u \in Users |-> {Older(c) : c \in recent[u]}]
    /\ answered' = [u \in Users |-> {Older(c) : c \in {d \in answered[u] : d.age + 1 < Hour}}]
    /\ UNCHANGED <<points, row, alertRows, chat, told, gone, wanted>>

\* The process starts again: the counts of the commands are lost.
Restart ==
    /\ points' \in Configs
    /\ recent' = [u \in Users |-> {}] /\ answered' = [u \in Users |-> {}]
    /\ UNCHANGED <<row, alertRows, chat, told, gone, wanted>>

Pressed(u) ==
    \E i \in DOMAIN chat[u] :
        \/ PressMenu(u, i) \/ PressLakes(u, i) \/ PressLake(u, i) \/ PressSpot(u, i)
        \/ PressTime(u, i) \/ PressMap(u, i) \/ PressThreshold(u, i)
        \/ PressPreference(u, i) \/ PressFavourite(u, i)

Command(u) ==
    Start(u) \/ Limited(u) \/ Unlimited(u) \/ Preference(u) \/ AlertSet(u) \/ AlertDel(u)

Next == (\E u \in Users : Pressed(u) \/ Command(u)) \/ Tick \/ Restart

Spec == Init /\ [][Next]_vars

-----------------------------------------------------------------------------
(* Properties.                                                             *)

TypeOK ==
    /\ points \in Configs
    /\ \A u \in Users : row[u] \subseteq Row /\ Cardinality(row[u]) <= 1
    /\ alerts \subseteq Alert /\ created \in 0..MaxAlerts
    /\ \A u \in Users : Len(chat[u]) <= MaxMessages[u]
    /\ \A u \in Users : recent[u] \subseteq Entry /\ Cardinality(recent[u]) <= Limit
    /\ told \subseteq Users /\ gone \subseteq told
    /\ wanted \subseteq Users /\ owners \subseteq Users

\* "One-time guided onboarding" (telegram_bot.py:668-670): who was told that
\* all is set is not asked again, unless the spot had left the settings
\* between the keyboard and the press.
OnboardedOnce ==
    \A u \in told \ gone : User(u).favourite # NoPoint

\* The foreign key of v2_alerts: an alert's owner has a row.
OwnersKnown == \A a \in alerts : row[a.owner] # {}

\* An alert comes and goes by a word of its owner, whatever ids and stale
\* keyboards the others send.
ByOwner ==
    \A u \in Users :
        AlertSet(u) \/ AlertDel(u) \/ (\E i \in DOMAIN chat[u] : PressThreshold(u, i)) =>
            \A a \in (alerts \ alerts') \cup (alerts' \ alerts) : a.owner = u

AlertsOwned == [][ByOwner]_vars

\* "60 commands/hour" (telegram_bot.py:292): what a process counts against a
\* user's limit are the commands it answered within the last hour, each of them
\* once, so a refusal does not put off the next answer.
CountsAnswered ==
    \A u \in Users :
        /\ Recent(u) = answered[u]
        /\ \A c, d \in recent[u] : c.nr = d.nr => c = d

\* "al:new -> wl:al:<lake> -> al:<point> -> threshold buttons ->
\* al:set:<point>:<kn> (created)" (telegram_bot.py:863-864): pressing a
\* threshold creates an alert.
ThresholdCreates == wanted \subseteq owners
=============================================================================
