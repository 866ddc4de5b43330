------------------------- MODULE RouteNextHopsMulti -------------------------
(***************************************************************************)
(* The next hop entries the clients (BGP, OpenR, static configuration,     *)
(* interfaces...) hold for one route, and which client's entry is in use   *)
(* (rib/RouteNextHopsMulti.cpp).  Clients are their ClientIDs.  An entry   *)
(* is a record with at least the field distance.                           *)
(***************************************************************************)
EXTENDS Integers

(* ClientID(-1): no client. *)
NoClient == -1

EmptyMulti == [map |-> [c \in {} |-> c], lowest |-> NoClient]

isEmpty(multi) == DOMAIN multi.map = {}

(* The scan of map_ in client order keeps the first client of least        *)
(* distance.                                                               *)
findLowestAdminDistance(map) ==
  IF DOMAIN map = {} THEN NoClient
  ELSE CHOOSE c \in DOMAIN map : \A d \in DOMAIN map :
         \/ map[c].distance < map[d].distance
         \/ map[c].distance = map[d].distance /\ c <= d

(* update: the client in use changes only to a client of smaller distance  *)
(* than the entry in use, read after the new entry was stored.             *)
update(multi, client, entry) ==
  LET map == [c \in DOMAIN multi.map \cup {client} |->
                IF c = client THEN entry ELSE multi.map[c]]
  IN [map |-> map,
      lowest |-> CASE DOMAIN map = {client} -> client
                   [] multi.lowest \notin DOMAIN map -> findLowestAdminDistance(map)
                   [] entry.distance < map[multi.lowest].distance -> client
                   [] OTHER -> multi.lowest]

delEntryForClient(multi, client) ==
  LET map == [c \in DOMAIN multi.map \ {client} |-> multi.map[c]]
  IN [map |-> map,
      lowest |-> IF multi.lowest = client THEN findLowestAdminDistance(map)
                 ELSE multi.lowest]

hasEntry(multi, client, entry) ==
  client \in DOMAIN multi.map /\ multi.map[client] = entry

(* getBestEntry throws unless the client in use has an entry, and a run that *)
(* got there would stop with an error.                                       *)
getBestEntry(multi) == multi.map[multi.lowest]
=============================================================================
