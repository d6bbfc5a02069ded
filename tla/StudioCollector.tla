------------------------------- MODULE StudioCollector -----------------------------
(* studio/collector.rs and its readers in studio/handlers.rs: bounded lists behind one *)
(* lock, and a broadcast ring (tokio's) that is fed after the lock was given back.     *)
(* studio/middleware.rs records a request from a task of its own, after the answer. A  *)
(* dashboard subscribes, takes the totals, and then follows the ring.                  *)
EXTENDS Integers, SequencesExt

CONSTANTS Recorders,   \* tasks that record
          Kinds,       \* "request", "event", "job", "mail"
          MaxOf,       \* kind -> MAX_REQUESTS, MAX_EVENTS, MAX_JOBS, MAX_MAILS
          Ring,        \* the capacity of the broadcast channel
          MaxRecords   \* bound: records

CollectorAssumption == /\ MaxOf \in [Kinds -> Nat \ {0}] /\ Ring \in Nat \ {0} /\ MaxRecords \in Nat

VARIABLES data,       \* StudioData: the lists, the next id, the totals
          recorders,  \* recorder -> the record it still has to broadcast
          ring,       \* the messages that were sent
          dashboard,  \* one WebSocket client
          page,       \* one reading of all lists by api_data
          history     \* every record of a kind, and how many of them were cleared away

studio == <<data, recorders, ring, dashboard, page, history>>

-----------------------------------------------------------------------------------

Idle == [at |-> "idle"]
Record(id, kind) == [id |-> id, kind |-> kind]

(* The oldest goes when the list is full. *)
Kept_Late(list, record, max) == Append(IF Len(list) > max THEN Tail(list) ELSE list, record)
Kept(list, record, max) == Append(IF Len(list) >= max THEN Tail(list) ELSE list, record)

(* record_request and the others: everything under the write lock. *)
RecordOne(r, kind) ==
    /\ recorders[r] = Idle /\ data.next_id <= MaxRecords
    /\ LET record == Record(data.next_id, kind) IN
       /\ data' = [data EXCEPT !.next_id = @ + 1, !.totals[kind] = @ + 1,
                               !.lists[kind] = Kept(@, record, MaxOf[kind])]
       /\ recorders' = [recorders EXCEPT ![r] = [at |-> "broadcast", record |-> record]]
       /\ history' = [history EXCEPT !.all[kind] = Append(@, record)]
    /\ UNCHANGED <<ring, dashboard, page>>

(* broadcast, without the lock: two recorders may come in the other order. *)
Broadcast(r) == /\ recorders[r].at = "broadcast"
                /\ ring' = Append(ring, recorders[r].record)
                /\ recorders' = [recorders EXCEPT ![r] = Idle]
                /\ UNCHANGED <<data, dashboard, page, history>>

(* clear keeps the totals and the ids. *)
Clear == /\ \E kind \in Kinds : data.lists[kind] # <<>>
         /\ data' = [data EXCEPT !.lists = [kind \in Kinds |-> <<>>]]
         /\ history' = [history EXCEPT !.cleared = [kind \in Kinds |-> Len(history.all[kind])]]
         /\ UNCHANGED <<recorders, ring, dashboard, page>>

-----------------------------------------------------------------------------------
(* handle_ws. *)

(* get_stats. The totals are counted apart from the lists. *)
Stats_OfLists == [kind \in Kinds |-> Len(data.lists[kind])]
Stats == data.totals

Connect == /\ dashboard.at = "away"
           /\ dashboard' = [dashboard EXCEPT !.at = "subscribed", !.next = Len(ring) + 1]
           /\ UNCHANGED <<data, recorders, ring, page, history>>

(* The totals are taken when the client is a subscriber already. *)
SendStats == /\ dashboard.at = "subscribed"
             /\ dashboard' = [dashboard EXCEPT !.at = "following", !.counted = Stats]
             /\ UNCHANGED <<data, recorders, ring, page, history>>

(* The ring keeps the last messages: what is older is lost to a slow client, which goes *)
(* on with the oldest that is there.                                                    *)
Oldest == IF Len(ring) > Ring THEN Len(ring) - Ring + 1 ELSE 1

Receive == /\ dashboard.at = "following" /\ dashboard.next <= Len(ring)
           /\ dashboard' = IF dashboard.next < Oldest
                           THEN [dashboard EXCEPT !.next = Oldest, !.lagged = TRUE]
                           ELSE [dashboard EXCEPT !.next = @ + 1, !.got = Append(@, ring[dashboard.next])]
           /\ UNCHANGED <<data, recorders, ring, page, history>>

Disconnect == /\ dashboard.at \in {"subscribed", "following"}
              /\ dashboard' = [dashboard EXCEPT !.at = "gone"]
              /\ UNCHANGED <<data, recorders, ring, page, history>>

(* api_data takes the read lock once for each list and once more for the totals.       *)
ReadList(kind) == /\ page.at = "reading" /\ kind \in page.left
                  /\ page' = [page EXCEPT !.left = @ \ {kind},
                                          !.lists[kind] = Reverse(data.lists[kind])]
                  /\ UNCHANGED <<data, recorders, ring, dashboard, history>>

ReadStats == /\ page.at = "reading" /\ page.left = {}
             /\ page' = [page EXCEPT !.at = "done", !.totals = Stats]
             /\ UNCHANGED <<data, recorders, ring, dashboard, history>>

Init == /\ data = [lists |-> [kind \in Kinds |-> <<>>], next_id |-> 1,
                   totals |-> [kind \in Kinds |-> 0]]
        /\ recorders = [r \in Recorders |-> Idle] /\ ring = <<>>
        /\ dashboard = [at |-> "away", next |-> 1, counted |-> [kind \in Kinds |-> 0],
                        got |-> <<>>, lagged |-> FALSE]
        /\ page = [at |-> "reading", left |-> Kinds, lists |-> [kind \in Kinds |-> <<>>],
                   totals |-> [kind \in Kinds |-> 0]]
        /\ history = [all |-> [kind \in Kinds |-> <<>>], cleared |-> [kind \in Kinds |-> 0]]

Next == \/ Clear \/ Connect \/ SendStats \/ Receive \/ Disconnect \/ ReadStats
        \/ \E r \in Recorders :
               \/ Broadcast(r)
               \/ \E kind \in Kinds : RecordOne(r, kind)
        \/ \E kind \in Kinds : ReadList(kind)

Spec == Init /\ [][Next]_studio

-----------------------------------------------------------------------------------
(* Properties. *)

TypeOK == /\ data.next_id \in 1 .. MaxRecords + 1
          /\ \A kind \in Kinds : Len(data.lists[kind]) <= MaxOf[kind]
          /\ dashboard.next <= Len(ring) + 1

(* Each list holds the last records of its kind since it was cleared, as many as it may *)
(* hold; the totals count every record, the cleared ones too.                           *)
Least(m, n) == IF m < n THEN m ELSE n
ListsHoldTheLatest ==
    \A kind \in Kinds :
        LET all == history.all[kind]
            n == Least(Len(all) - history.cleared[kind], MaxOf[kind])
        IN  /\ data.lists[kind] = SubSeq(all, Len(all) - n + 1, Len(all))
            /\ data.totals[kind] = Len(all)

(* A dashboard that has read all there is and never lagged knows of every record: it   *)
(* was counted in the totals of the greeting or came as a message, or is about to be    *)
(* broadcast. Nothing came twice.                                                       *)
Broadcasting == {recorders[r].record.id : r \in {r \in Recorders : recorders[r].at = "broadcast"}}
Got == {dashboard.got[i].id : i \in DOMAIN dashboard.got}
DashboardMissesNothing ==
    dashboard.at = "following" =>
        /\ \A i, j \in DOMAIN dashboard.got : dashboard.got[i].id = dashboard.got[j].id => i = j
        /\ dashboard.next > Len(ring) /\ ~dashboard.lagged =>
               \A kind \in Kinds : \A i \in dashboard.counted[kind] + 1 .. Len(history.all[kind]) :
                   history.all[kind][i].id \in Got \union Broadcasting

(* The page of all lists: newest first, and no record that the totals do not count.     *)
PageIsCounted ==
    page.at = "done" =>
        \A kind \in Kinds :
            /\ \A i \in 1 .. Len(page.lists[kind]) - 1 : page.lists[kind][i].id > page.lists[kind][i + 1].id
            /\ Len(page.lists[kind]) <= page.totals[kind]
==================================================================================
