------------------------------ MODULE ChannelRegistry -----------------------------
(* The WebSocket rooms of karbon-framework/src/channel/channel_registry.rs. A         *)
(* connection is two tasks: one reads the client's frames (join, leave, publish), the *)
(* other takes messages from the broadcast channel all connections share and writes   *)
(* those of the joined rooms to the socket. When either ends, the other is aborted    *)
(* and the connection is removed from its rooms.                                      *)
(*                                                                                    *)
(* Abort is a request: a task that is running goes on until it next waits, so after   *)
(* it every step of the task may still happen and every await may be its last.        *)
EXTENDS Naturals, Sequences, FiniteSets, Functions

CONSTANTS Clients,      \* connections, each with a client id of its own
          Channels,     \* room names
          Server,       \* the sender of broadcast and broadcast_raw (sender_id: None)
          MaxChannels,  \* MAX_CHANNELS_PER_CONN
          Buffer,       \* the capacity of the broadcast channel (1024 in the code)
          MaxMessages   \* bound on the messages published in a behaviour

ASSUME RegistryAssumption == /\ Server \notin Clients
                             /\ MaxChannels \in Nat /\ Buffer \in Nat \ {0}
                             /\ MaxMessages \in Nat

VARIABLES rooms,      \* the shared map from room to the ids in it
          log,        \* the messages sent into the broadcast channel, oldest first
          conn,       \* each connection: "new", "open", "closing" (in cleanup), "gone"
          aborted,    \* the connections whose remaining task was told to stop
          subs,       \* each connection's "subscribed" set
          reader,     \* recv_task: what it does next, and in which room
          writer,     \* send_task: what it does next, and with which message
          cursor,     \* how much of the log each receiver consumed
          since,      \* history: Len(log) when each connection subscribed to each room
          delivered   \* history: the messages written to each socket

vars == <<rooms, log, conn, aborted, subs, reader, writer, cursor, since, delivered>>

Init == /\ rooms = [ch \in {} |-> {}]
        /\ log = <<>>
        /\ conn = [c \in Clients |-> "new"]
        /\ aborted = {}
        /\ subs = [c \in Clients |-> {}]
        /\ reader = [c \in Clients |-> <<"idle">>]
        /\ writer = [c \in Clients |-> <<"recv">>]
        /\ cursor = [c \in Clients |-> 0]
        /\ since = [c \in Clients |-> [ch \in Channels |-> 0]]
        /\ delivered = [c \in Clients |-> <<>>]

Connect(c) == /\ conn[c] = "new"
              /\ conn' = [conn EXCEPT ![c] = "open"]
              /\ cursor' = [cursor EXCEPT ![c] = Len(log)]
              /\ UNCHANGED <<rooms, log, aborted, subs, reader, writer, since, delivered>>

-----------------------------------------------------------------------------------
(* recv_task. *)

Reads(c, step) == /\ conn[c] # "new"
                  /\ reader[c] = step

Reader(c, step) == reader' = [reader EXCEPT ![c] = step]

(* Cleanup holds the read lock of the set until it has the rooms. *)
SubsWritable(c) == conn[c] # "closing"

Insert(r, ch, c) == IF ch \in DOMAIN r THEN [r EXCEPT ![ch] = @ \union {c}]
                                      ELSE [x \in DOMAIN r \union {ch} |->
                                               IF x = ch THEN {c} ELSE r[x]]

Remove_KeepsEmpty(r, ch, c) ==
    IF ch \in DOMAIN r THEN [r EXCEPT ![ch] = @ \ {c}] ELSE r

(* A room that becomes empty leaves the map. *)
Remove(r, ch, c) == IF ch \notin DOMAIN r THEN r
                    ELSE IF r[ch] \subseteq {c} THEN Restrict(r, DOMAIN r \ {ch})
                    ELSE [r EXCEPT ![ch] = @ \ {c}]

Full_OffByOne(c) == Cardinality(subs[c]) > MaxChannels

Full(c) == Cardinality(subs[c]) >= MaxChannels

(* A join beyond the cap is ignored. *)
Join(c, ch) == /\ Reads(c, <<"idle">>) /\ SubsWritable(c)
               /\ ch \in subs[c] \/ ~Full(c)
               /\ subs' = [subs EXCEPT ![c] = @ \union {ch}]
               /\ since' = IF ch \in subs[c] THEN since
                                             ELSE [since EXCEPT ![c][ch] = Len(log)]
               /\ Reader(c, <<"joining", ch>>)
               /\ UNCHANGED <<rooms, log, conn, aborted, writer, cursor, delivered>>

JoinRoom(c, ch) == /\ Reads(c, <<"joining", ch>>)
                   /\ rooms' = Insert(rooms, ch, c)
                   /\ Reader(c, <<"idle">>)
                   /\ UNCHANGED <<log, conn, aborted, subs, writer, cursor, since, delivered>>

Leave(c, ch) == /\ Reads(c, <<"idle">>) /\ SubsWritable(c)
                /\ subs' = [subs EXCEPT ![c] = @ \ {ch}]
                /\ Reader(c, <<"leaving", ch>>)
                /\ UNCHANGED <<rooms, log, conn, aborted, writer, cursor, since, delivered>>

LeaveRoom(c, ch) == /\ Reads(c, <<"leaving", ch>>)
                    /\ rooms' = Remove(rooms, ch, c)
                    /\ Reader(c, <<"idle">>)
                    /\ UNCHANGED <<log, conn, aborted, subs, writer, cursor, since, delivered>>

Append1(ch, sender) == /\ Len(log) < MaxMessages
                       /\ log' = Append(log, [channel |-> ch, sender |-> sender])

(* Any other event of a subscriber is relayed. *)
Publish(c, ch) == /\ Reads(c, <<"idle">>)
                  /\ ch \in subs[c]
                  /\ Append1(ch, c)
                  /\ UNCHANGED <<rooms, conn, aborted, subs, reader, writer, cursor, since,
                                 delivered>>

(* The client closes its side, or the socket fails. *)
ReaderEnds(c) == /\ Reads(c, <<"idle">>)
                 /\ Reader(c, <<"ended">>)
                 /\ UNCHANGED <<rooms, log, conn, aborted, subs, writer, cursor, since,
                                delivered>>

(* broadcast and broadcast_raw, from anywhere in the application. *)
Broadcast(ch) == /\ Append1(ch, Server)
                 /\ UNCHANGED <<rooms, conn, aborted, subs, reader, writer, cursor, since,
                                delivered>>

-----------------------------------------------------------------------------------
(* send_task. *)

Writes(c, step) == /\ conn[c] # "new"
                   /\ writer[c] = step

Writer(c, step) == writer' = [writer EXCEPT ![c] = step]

(* The receiver's next message was overwritten in the ring. *)
Lagging(c) == Len(log) - cursor[c] > Buffer

Oldest(c) == Len(log) - Buffer

(* recv: the next message is written when it is another's and of a joined room. *)
Take(c) == LET i == cursor[c] + 1
           IN  /\ Writes(c, <<"recv">>)
               /\ i <= Len(log) /\ ~Lagging(c)
               /\ cursor' = [cursor EXCEPT ![c] = i]
               /\ IF log[i].sender # c /\ log[i].channel \in subs[c]
                  THEN Writer(c, <<"send", i>>)
                  ELSE UNCHANGED writer
               /\ UNCHANGED <<rooms, log, conn, aborted, subs, reader, since, delivered>>

Lag_GoesOn(c) == /\ Writes(c, <<"recv">>)
                 /\ Lagging(c)
                 /\ cursor' = [cursor EXCEPT ![c] = Oldest(c)]
                 /\ UNCHANGED <<rooms, log, conn, aborted, subs, reader, writer, since,
                                delivered>>

(* recv returns Lagged, which is not Ok: the task ends. *)
Lag(c) == /\ Writes(c, <<"recv">>)
          /\ Lagging(c)
          /\ Writer(c, <<"ended">>)
          /\ UNCHANGED <<rooms, log, conn, aborted, subs, reader, cursor, since, delivered>>

Deliver(c, i) == /\ Writes(c, <<"send", i>>)
                 /\ delivered' = [delivered EXCEPT ![c] = Append(@, i)]
                 /\ Writer(c, <<"recv">>)
                 /\ UNCHANGED <<rooms, log, conn, aborted, subs, reader, cursor, since>>

SocketFails(c, i) == /\ Writes(c, <<"send", i>>)
                     /\ Writer(c, <<"ended">>)
                     /\ UNCHANGED <<rooms, log, conn, aborted, subs, reader, cursor, since,
                                    delivered>>

-----------------------------------------------------------------------------------
(* The end of a connection. *)

Select_ReaderOnly(c) ==
    /\ conn[c] = "open"
    /\ reader[c] = <<"ended">>
    /\ conn' = [conn EXCEPT ![c] = "closing"]
    /\ aborted' = aborted \union {c}
    /\ UNCHANGED <<rooms, log, subs, reader, writer, cursor, since, delivered>>

(* select! aborts the task that is left; cleanup then takes the lock of the set. *)
Select(c) == /\ conn[c] = "open"
             /\ reader[c] = <<"ended">> \/ writer[c] = <<"ended">>
             /\ conn' = [conn EXCEPT ![c] = "closing"]
             /\ aborted' = aborted \union {c}
             /\ UNCHANGED <<rooms, log, subs, reader, writer, cursor, since, delivered>>

Stop(c) == /\ c \in aborted
           /\ \/ /\ reader[c] # <<"ended">>
                 /\ Reader(c, <<"ended">>) /\ UNCHANGED writer
              \/ /\ writer[c] # <<"ended">>
                 /\ Writer(c, <<"ended">>) /\ UNCHANGED reader
           /\ UNCHANGED <<rooms, log, conn, aborted, subs, cursor, since, delivered>>

RemoveAll(r, channels, c) ==
    LET others == {ch \in DOMAIN r : ch \notin channels \/ r[ch] \ {c} # {}}
    IN  [ch \in others |-> IF ch \in channels THEN r[ch] \ {c} ELSE r[ch]]

(* The connection leaves the rooms its set names, in one critical section. *)
Cleanup(c) == /\ conn[c] = "closing"
              /\ conn' = [conn EXCEPT ![c] = "gone"]
              /\ rooms' = RemoveAll(rooms, subs[c], c)
              /\ UNCHANGED <<log, aborted, subs, reader, writer, cursor, since, delivered>>

ReadTask(c) == \/ \E ch \in Channels : Join(c, ch) \/ Leave(c, ch) \/ Publish(c, ch)
               \/ ReaderEnds(c)

RoomTask(c) == \E ch \in Channels : JoinRoom(c, ch) \/ LeaveRoom(c, ch)

WriteTask(c) == \/ Take(c) \/ Lag(c)
                \/ \E i \in 1 .. Len(log) : Deliver(c, i) \/ SocketFails(c, i)

Next == \/ \E ch \in Channels : Broadcast(ch)
        \/ \E c \in Clients : \/ Connect(c) \/ ReadTask(c) \/ RoomTask(c) \/ WriteTask(c)
                              \/ Select(c) \/ Stop(c) \/ Cleanup(c)

Spec == Init /\ [][Next]_vars

(* Spawned tasks are polled and locks are granted; what the client sends is up to it. *)
FairSpec == /\ Spec
            /\ \A c \in Clients : /\ WF_vars(RoomTask(c)) /\ WF_vars(WriteTask(c))
                                  /\ WF_vars(Select(c)) /\ WF_vars(Stop(c))
                                  /\ WF_vars(Cleanup(c))

-----------------------------------------------------------------------------------
(* Properties. *)

TypeOK == /\ \E dom \in SUBSET Channels : rooms \in [dom -> SUBSET Clients]
          /\ log \in Seq([channel : Channels, sender : Clients \union {Server}])
          /\ conn \in [Clients -> {"new", "open", "closing", "gone"}]
          /\ aborted \subseteq Clients
          /\ subs \in [Clients -> SUBSET Channels]
          /\ reader \in [Clients -> {<<"idle">>, <<"ended">>}
                                    \union ({"joining", "leaving"} \X Channels)]
          /\ writer \in [Clients -> {<<"recv">>, <<"ended">>} \union ({"send"} \X Nat)]
          /\ \A c \in Clients : cursor[c] \in 0 .. Len(log)
          /\ since \in [Clients -> [Channels -> Nat]]
          /\ delivered \in [Clients -> Seq(Nat)]

Member(c, ch) == ch \in DOMAIN rooms /\ c \in rooms[ch]

(* While a connection is open and between two frames, the rooms it is counted in are  *)
(* the ones its own set names, at most max channels of them: the two are updated      *)
(* under different locks, and other connections use the rooms in between.             *)
RoomsMatchSubscriptions ==
    \A c \in Clients :
        conn[c] = "open" /\ reader[c] = <<"idle">> =>
            /\ \A ch \in Channels : Member(c, ch) <=> ch \in subs[c]
            /\ Cardinality(subs[c]) <= MaxChannels

(* active_channels lists no room without a client. *)
NoEmptyRoom == \A ch \in DOMAIN rooms : rooms[ch] # {}

(* A connection that stays open misses nothing: every message of another that was     *)
(* sent to a room after it subscribed was written to its socket or is being written,  *)
(* once the writer is past it, and in order. A receiver that was overtaken is closed. *)
NoSilentGap ==
    \A c \in Clients :
        /\ \A i, k \in DOMAIN delivered[c] : i < k => delivered[c][i] < delivered[c][k]
        /\ writer[c] # <<"ended">> =>
               \A i \in 1 .. cursor[c] :
                   /\ log[i].channel \in subs[c]
                   /\ since[c][log[i].channel] < i
                   /\ log[i].sender # c
                   => i \in Range(delivered[c]) \/ writer[c] = <<"send", i>>

(* A connection whose writer ended - the client was too slow, or is gone - does not   *)
(* stay half open: it is closed and cleaned up.                                       *)
HalfOpenIsClosed == \A c \in Clients : writer[c] = <<"ended">> ~> conn[c] = "gone"

(* "Cleanup: remove client from all rooms": a connection that is gone, with both its  *)
(* tasks ended, is in no room.                                                        *)
NoGhosts == \A c \in Clients :
    conn[c] = "gone" /\ reader[c] = <<"ended">> /\ writer[c] = <<"ended">>
        => \A ch \in Channels : ~Member(c, ch)
==================================================================================
