----------------------------- MODULE MCServing -----------------------------
(* Model checking of what the users are served: the predictions (Serving),  *)
(* what is concluded from them (Sailing), or the conversations of the bot   *)
(* (Bot).  The three share no state, so a behaviour is one of one of them,  *)
(* as `part` says, and the variables of the others stay put.                *)
(*                                                                          *)
(* Serving: a request and the cycle, a version in production and a          *)
(* candidate, each fitted once, or one fitted again.  Sailing: two lakes    *)
(* and three spots.  Bot: an administrator who looks at the last message of *)
(* a chat, and a user who only sends commands; a restart may take a spot    *)
(* out of the settings.                                                     *)
EXTENDS Serving, Integers

CONSTANTS
    LakeOrder, SpotsOf, MinGoHours, Rows, MaxHours, NoReport  \* of the decisions

CONSTANTS  \* of the conversations
    Users, Admins, Lakes, Points, LakeOf, Configs, First(_), Languages, Units, Hours,
    Thresholds, Limit, Hour, MaxMessages, MaxAlerts, NoPoint

VARIABLES
    part,
    series, report,
    points, row, alerts, created, chat, recent, answered, told, gone,
    wanted, owners

MCLakeOrder == <<"como", "garda">>
MCSpotsOf == [como |-> <<"dongo", "dervio">>, garda |-> <<"torbole">>]
MCRows ==
    {[above |-> 3, band |-> 4, error |-> 2], [above |-> 0, band |-> 2, error |-> 1],
     [above |-> -2, band |-> 6, error |-> 3], [above |-> 2, band |-> 0, error |-> 1],
     [above |-> -1, band |-> 0, error |-> 0]}

MCLakeOf == [dongo |-> "como", torbole |-> "garda"]
MCConfigs == {{"dongo", "torbole"}, {"torbole"}}
MCFirst(operational) == IF "dongo" \in operational THEN "dongo" ELSE "torbole"
MCMaxMessages == [ada |-> 1, bob |-> 0]

Deciding == INSTANCE Sailing WITH Lakes <- LakeOrder
Chatting == INSTANCE Bot

ASSUME ServedAssumption == Deciding!SailingAssumption /\ Chatting!BotAssumption

deciding == <<series, report>>
chatting == <<points, row, alerts, created, chat, recent, answered, told, gone,
              wanted, owners>>

NoDeciding == series = <<>> /\ report = NoReport
NoChatting ==
    /\ points = {} /\ row = <<>> /\ alerts = {} /\ created = 0 /\ chat = <<>>
    /\ recent = {} /\ answered = {} /\ told = {} /\ gone = {}
    /\ wanted = {} /\ owners = {}

MCInit ==
    \/ part = "predictions" /\ Init /\ NoDeciding /\ NoChatting
    \/ part = "decisions" /\ Init /\ Deciding!Init /\ NoChatting
    \/ part = "conversations" /\ Init /\ NoDeciding /\ Chatting!Init

MCNext ==
    /\ UNCHANGED part
    /\ \/ part = "predictions" /\ Next /\ UNCHANGED <<deciding, chatting>>
       \/ part = "decisions" /\ Deciding!Next /\ UNCHANGED <<vars, chatting>>
       \/ part = "conversations" /\ Chatting!Next /\ UNCHANGED <<vars, deciding>>

MCSpec == MCInit /\ [][MCNext]_<<part, vars, deciding, chatting>>


-----------------------------------------------------------------------------
\* Properties of the modules, under their own names.
DecisionSound ==
    part = "decisions" => Deciding!VerdictOfMedians /\ Deciding!AdvisedHourSails
LeadersUnbeaten == part = "decisions" => Deciding!LeadersUnbeaten
ChatSound ==
    part = "conversations" =>
        Chatting!TypeOK /\ Chatting!OnboardedOnce /\ Chatting!OwnersKnown
            /\ Chatting!CountsAnswered
AlertsOwned == [][part = "conversations" => Chatting!ByOwner]_<<part, chatting>>
ThresholdCreates == part = "conversations" => Chatting!ThresholdCreates
=============================================================================
