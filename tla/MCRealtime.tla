-------------------------------- MODULE MCRealtime --------------------------------
(* What stays connected to a server, for TLC: the WebSocket channels, the dashboard and *)
(* the sessions of Studio, and the gate every request passes. They share no state, so   *)
(* "part" says which of them a behaviour is about; the variables u1 to u8 stand for      *)
(* those of the part, when it is not the channels.                                       *)
EXTENDS ChannelRegistry, TLC

CONSTANTS Browsers, Ips, Allowed,         \* of StudioAccess
          SessionLife, MaxTime, MaxStarts,
          Threads, TTL,                   \* of MaintenanceGate
          Recorders, Kinds, MaxOf, Ring, MaxRecords  \* of StudioCollector

VARIABLES part, u1, u2, u3, u4, u5, u6, u7, u8

state == <<u1, u2, u3, u4, u5, u6, u7, u8>>

MCMaxOf == [request |-> 2, job |-> 1]

Symmetry == Permutations(Clients) \union Permutations(Channels) \union Permutations(Recorders)
              \union Permutations(Browsers)

Collector == INSTANCE StudioCollector WITH
                 data <- u1, recorders <- u2, ring <- u3, dashboard <- u4, page <- u5, history <- u6

Debug == INSTANCE StudioAccess WITH
             server <- u1, browsers <- u2, clock <- u3, cached <- u4, answer <- u5, grants <- u6

Gate == INSTANCE MaintenanceGate WITH
            file <- u1, flag <- u2, present <- u3, checked <- u4, thread <- u5, ordered <- u6,
            settled <- u7, prompt <- u8

ASSUME InstanceAssumptions == /\ Collector!CollectorAssumption /\ Debug!AccessAssumption
                              /\ Gate!GateAssumption

-----------------------------------------------------------------------------------

Rooms == part = "rooms" /\ Next /\ UNCHANGED <<part, state>>

Unused == u1 = 0 /\ u2 = 0 /\ u3 = 0 /\ u4 = 0 /\ u5 = 0 /\ u6 = 0

SafetyInit == /\ Init /\ u7 = 0 /\ u8 = 0
              /\ \/ part = "rooms" /\ Unused
                 \/ part = "studio" /\ Collector!Init
                 \/ part = "access" /\ Debug!Init

SafetyNext == \/ Rooms
              \/ /\ UNCHANGED <<part, vars, u7, u8>>
                 /\ \/ part = "studio" /\ Collector!Next
                    \/ part = "access" /\ Debug!Next

SafetySpec == SafetyInit /\ [][SafetyNext]_<<part, vars, state>>

LiveInit == /\ Init /\ Gate!Init
            /\ \/ part = "rooms" /\ ~u1 /\ u6
               \/ part = "gate"

LiveNext == Rooms \/ (part = "gate" /\ Gate!Next /\ UNCHANGED <<part, vars>>)

Fair(p, action) == part = p /\ action

LiveFairness ==
    /\ \A c \in Clients : /\ WF_vars(Fair("rooms", RoomTask(c))) /\ WF_vars(Fair("rooms", WriteTask(c)))
                          /\ WF_vars(Fair("rooms", Select(c))) /\ WF_vars(Fair("rooms", Stop(c)))
                          /\ WF_vars(Fair("rooms", Cleanup(c)))
    /\ WF_state(Fair("gate", Gate!Tick))
    /\ \A t \in Threads : WF_state(Fair("gate", Gate!Decide(t)))

LiveSpec == LiveInit /\ [][LiveNext]_<<part, vars, state>> /\ LiveFairness

GhostsSpec == Init /\ part = "rooms" /\ Unused /\ u7 = 0 /\ u8 = 0 /\ [][Rooms]_<<part, vars, state>>

-----------------------------------------------------------------------------------

(* The registry of http/ws.rs never disagrees with the connections that stand still,    *)
(* nor keeps an empty room.                                                             *)
RoomsAreExact == TypeOK /\ RoomsMatchSubscriptions /\ NoEmptyRoom

(* What was recorded is in the lists of Studio, in its totals and on every dashboard    *)
(* that kept up: studio/collector.rs, studio/handlers.rs.                               *)
StudioMissesNothing == part = "studio" => /\ Collector!TypeOK /\ Collector!ListsHoldTheLatest
                                          /\ Collector!DashboardMissesNothing
                                          /\ Collector!PageIsCounted

(* Debug mode and Studio are for who was let in: studio/handlers.rs, http/dev_mode.rs.  *)
StudioIsGuarded == part = "access" => Debug!TypeOK /\ Debug!SessionsAreEarned /\ Debug!StudioIsGuarded

(* "Traffic resumes within a second" (MaintenanceGate). *)
WithinASecond == Gate!TypeOK /\ Gate!WithinASecond

(* A flag file that stays is obeyed in the end (MaintenanceGate). *)
FileIsObeyed == Gate!FileIsObeyed
==================================================================================
