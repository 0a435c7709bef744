------------------------------- MODULE LwipDns -------------------------------
(***************************************************************************)
(* The name resolver of lwIP (libs/lwip-2.0.3/core/dns.c) as operators on  *)
(* the record [table, requests].  table gives the state of the entry of a  *)
(* host name, requests[r] is the request in slot r: the host asked for and *)
(* play, the play command that asked (history).  There are no more names   *)
(* than entries, so an entry is never taken from another name; what that   *)
(* would do to a resolved name, the expiry of its time to live does too.   *)
(* DNS_STATE_NEW lasts as long as dns_enqueue only.  One resolver query is *)
(* outstanding per name, with any number of requests waiting for it.       *)
(***************************************************************************)
EXTENDS Naturals

CONSTANTS
  Hosts,            \* the names the user may ask for
  Numeric,          \* those that are addresses in dotted notation
  DNS_TABLE_SIZE    \* entries, and also DNS_MAX_REQUESTS

NoHost == ""

NoRequest == [host |-> NoHost, play |-> 0]

Slots == 1 .. DNS_TABLE_SIZE

dns_init == [table |-> [h \in Hosts |-> "DNS_STATE_UNUSED"],
             requests |-> [r \in Slots |-> NoRequest]]

FreeSlots(D) == {r \in Slots : D.requests[r] = NoRequest}

(* What dns_gethostbyname returns.  ready: a name server is known.         *)
dns_result(D, host, ready) ==
  CASE host \in Numeric \/ D.table[host] = "DNS_STATE_DONE" -> "ERR_OK"
    [] ~(host \in Numeric \/ D.table[host] = "DNS_STATE_DONE") /\ ~ready -> "ERR_VAL"
    [] OTHER -> IF FreeSlots(D) = {} THEN "ERR_MEM" ELSE "ERR_INPROGRESS"

(* dns_enqueue: the first free slot, for a new query or for the one that   *)
(* is already out.                                                         *)
dns_enqueue(D, host, play) ==
  LET r == CHOOSE s \in FreeSlots(D) : \A q \in FreeSlots(D) : s <= q
  IN  [table |-> [D.table EXCEPT ![host] = "DNS_STATE_ASKING"],
       requests |-> [D.requests EXCEPT ![r] = [host |-> host, play |-> play]]]

(* The state of an entry.                                                  *)
dns_settle(D, host, state) == [D EXCEPT !.table[host] = state]

(* dns_call_found: the next request whose callback runs, in slot order,    *)
(* and the slot afterwards.                                                *)
Waiting(D, host) == {r \in Slots : D.requests[r].host = host}

IsNext(D, host, r) ==
  r \in Waiting(D, host) /\ \A q \in Waiting(D, host) : r <= q

dns_flush(D, r) == [D EXCEPT !.requests[r] = NoRequest]
=============================================================================
