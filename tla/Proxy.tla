-------------------------------- MODULE Proxy -------------------------------
(***************************************************************************)
(* A worker's proxy, src/src/proxy.rs: the connections of its clients, the *)
(* request each one has on its way, and what the header maps let through.  *)
(*                                                                         *)
(* A message is the set of its header fields, with the values that matter: *)
(* the fields its Connection header names, the lines of Via with their     *)
(* entries and the server in Host.  Which server a request gets is Pool's  *)
(* matter; here it is any, or none.                                        *)
(***************************************************************************)
EXTENDS Sequences, FiniteSets

CONSTANTS
    Conn,     \* connections of clients, each reused when closed
    Server,   \* servers of the pool
    MapHost,  \* those with map_host; all that weldr adds itself
    BadUrl,   \* those whose url cannot be completed, or has no host
    Client,   \* the host a client asked for, in Host or in the uri
    Request,  \* the requests clients may send
    Response  \* the responses backends may give

VARIABLES
    alive,    \* the worker process runs
    conn,     \* each connection; a server when it waits for its response
    way,      \* the direction of the message mapped last
    from,     \* that message as the worker got it
    to        \* ... and as it passed it on

vars == <<alive, conn, way, from, to>>
mapped == <<way, from, to>>

(* What RFC 2616 13.5.1 calls hop-by-hop *)
HopByHop ==
    {"Connection", "Keep-Alive", "Proxy-Authenticate", "Proxy-Authorization",
     "TE", "Trailer", "Transfer-Encoding", "Upgrade"}

Field == HopByHop \cup {"Host", "Via", "Close", "Other"}

HttpVersion == {"Http09", "Http10", "Http11", "H2", "H2c"}

(* An entry of Via, by the version of the hop that made it *)
ViaEntry == {"0.9", "1.0", "1.1", "2"}

(* options: the fields Connection names; `close` names a field Close *)
Message == [fields : SUBSET Field, options : SUBSET Field, via : Seq(Seq(ViaEntry)),
            host : Server \cup {Client}, uri : Server \cup {Client}, version : HttpVersion]

(* A message without Connection has nothing named in it, one without Via   *)
(* no line of it                                                           *)
ASSUME ProxyAssumption ==
    /\ MapHost \subseteq Server /\ BadUrl \subseteq Server
    /\ {"free", "open"} \cap Server = {}
    /\ Request \cup Response \subseteq Message
    /\ \A m \in Request \cup Response :
        /\ m.options # {} => "Connection" \in m.fields
        /\ "Via" \in m.fields <=> m.via # <<>>

Nothing == [fields |-> {}, options |-> {}, via |-> <<>>,
            host |-> Client, uri |-> Client, version |-> "Http11"]

TypeOK ==
    /\ alive \in BOOLEAN
    /\ conn \in [Conn -> {"free", "open"} \cup Server]
    /\ way \in {"none", "request", "response"}
    /\ from \in Message /\ to \in Message

Init ==
    /\ alive = TRUE
    /\ conn = [c \in Conn |-> "free"]
    /\ way = "none" /\ from = Nothing /\ to = Nothing

-----------------------------------------------------------------------------
(* The header maps *)

VersionText(v) ==
    CASE v = "Http09" -> "0.9"
      [] v = "Http10" -> "1.0"
      [] v = "Http11" -> "1.1"
      [] v \in {"H2", "H2c"} -> "2"

(* headers.get::<Via>(): a String header is parsed from one line that is   *)
(* not empty.  <<>> stands for None: no Via, or Via on several lines.      *)
TypedVia(m) == IF Len(m.via) = 1 THEN m.via[1] ELSE <<>>

(* Via::append and create_via_header *)
create_via_header(via, v) == Append(via, VersionText(v))

(* Fault: without a look at what Connection names *)
FaultFilterFixed(m) ==
    m.fields \ {"Connection", "TE", "Transfer-Encoding", "Proxy-Authorization", "Trailer", "Upgrade"}

filter_frontend_request_headers(m) ==
    (m.fields \ m.options)
        \ {"Connection", "TE", "Transfer-Encoding", "Proxy-Authorization", "Trailer", "Upgrade"}

Mapped(m, via) ==
    [fields |-> filter_frontend_request_headers(m) \cup {"Via"},
     options |-> {},
     via |-> <<create_via_header(via, m.version)>>,
     host |-> m.host, uri |-> m.uri,
     version |-> "Http11"]

(* Fault: the Via of the filtered headers is extended *)
FaultMapFiltered(m) ==
    Mapped(m, IF "Via" \in filter_frontend_request_headers(m) THEN TypedVia(m) ELSE <<>>)

(* map_request: Via is read before the filter and set after it, in place   *)
(* of all its lines.  The client of hyper speaks its own version.          *)
map_request(m) == Mapped(m, TypedVia(m))

(* The closure of Proxy::call; path and query are kept *)
Address(m, s) ==
    IF s \in MapHost
    THEN [m EXCEPT !.fields = @ \cup {"Host"}, !.host = s, !.uri = s]
    ELSE [m EXCEPT !.uri = s]

filter_backend_response_headers(m) ==
    m.fields \ {"Transfer-Encoding", "Proxy-Authenticate", "Trailer", "Upgrade"}

(* Fault: only the status and the body are copied *)
FaultMapStatusOnly(m) == [m EXCEPT !.fields = {}, !.options = {}, !.via = <<>>]

map_response(m) == [m EXCEPT !.fields = filter_backend_response_headers(m)]

-----------------------------------------------------------------------------
(* The worker's one thread *)

(* proxy::serve and proxy: a service and a client of its own for each      *)
(* connection                                                              *)
Accept(c) ==
    /\ alive
    /\ conn[c] = "free"
    /\ conn' = [conn EXCEPT ![c] = "open"]
    /\ UNCHANGED <<alive, mapped>>

(* The process ends, with every request it has on its way *)
End ==
    /\ alive' = FALSE
    /\ conn' = [c \in Conn |-> "free"]
    /\ UNCHANGED mapped

(* An accept fails, or an unwrap of proxy() on a new connection does *)
AcceptFails == alive /\ End

(* Proxy::call with a server from the pool *)
Call(c, m, s) ==
    /\ conn[c] = "open"
    /\ s \notin BadUrl
    /\ conn' = [conn EXCEPT ![c] = s]
    /\ way' = "request" /\ from' = m /\ to' = Address(map_request(m), s)
    /\ UNCHANGED alive

(* ... one whose url makes the closure panic *)
CallPanics(c) ==
    /\ conn[c] = "open"
    /\ BadUrl # {}
    /\ End

(* A connection is closed: by its client at any time, or by hyper when the *)
(* future of the service fails.                                            *)
Close(c) ==
    /\ conn[c] # "free"
    /\ conn' = [conn EXCEPT ![c] = "free"]
    /\ UNCHANGED <<alive, mapped>>

(* ... because the pool is exhausted *)
CallExhausted(c) == conn[c] = "open" /\ Close(c)

(* ... because the request to the backend fails: its connection is refused *)
(* or reset, or one connect, read or write takes longer than its timeout.  *)
(* The client gets no answer.  A backend that neither fails nor answers,   *)
(* but keeps sending a byte in time, holds the request as long as it does. *)
BackendFails(c) == conn[c] \in Server /\ Close(c)

(* The backend answers *)
Respond(c, m) ==
    /\ conn[c] \in Server
    /\ conn' = [conn EXCEPT ![c] = "open"]
    /\ way' = "response" /\ from' = m /\ to' = map_response(m)
    /\ UNCHANGED alive

Next ==
    \/ AcceptFails
    \/ \E c \in Conn :
        \/ Accept(c) \/ Close(c)
        \/ CallPanics(c) \/ CallExhausted(c) \/ BackendFails(c)
        \/ \E m \in Request, s \in Server : Call(c, m, s)
        \/ \E m \in Response : Respond(c, m)

Spec == Init /\ [][Next]_vars

-----------------------------------------------------------------------------
(* Properties *)

(* The fields the proxy itself sets in a message it passes on *)
OwnFields ==
    IF way = "request" THEN {"Via"} \cup (IF to.uri \in MapHost THEN {"Host"} ELSE {})
    ELSE {}

(* "MUST remove Connection and Connection option headers" (the test of     *)
(* filter_frontend_request_headers, after RFC 7230 6.1): of a request      *)
(* neither Connection passes nor a field of the client that it names,      *)
(* whichever that is.                                                      *)
ConnectionStops ==
    way = "request" =>
        ({"Connection"} \cup from.options) \cap to.fields \subseteq OwnFields

(* What is neither hop-by-hop nor named in Connection is not the proxy's   *)
(* to remove: it passes, in both directions.                               *)
EndToEndPasses ==
    way # "none" => from.fields \ (HopByHop \cup from.options) \subseteq to.fields

(* "MUST remove hop-by-hop headers" (the tests of both filters, after RFC  *)
(* 2616 13.5.1): no message passes with one, nor with a field that its     *)
(* Connection header names.                                                *)
HopByHopStops ==
    way # "none" => (HopByHop \cup from.options) \cap to.fields \subseteq OwnFields

(* The trace in Via grows by this hop, with the version the client spoke,  *)
(* and is not cut where the client's Connection header names Via; that is, *)
(* unless it came on several lines.  A server with map_host reads its own  *)
(* name in Host, also where Connection names Host; another one reads what  *)
(* the client sent, if it did not name it there.                           *)
TracedAndAddressed ==
    way = "request" =>
        /\ "Via" \in to.fields
        /\ from.via = <<>> => to.via = << <<VersionText(from.version)>> >>
        /\ Len(from.via) = 1 => to.via = << Append(from.via[1], VersionText(from.version)) >>
        /\ IF to.uri \in MapHost
           THEN "Host" \in to.fields /\ to.host = to.uri
           ELSE "Host" \in from.fields \ from.options =>
                    "Host" \in to.fields /\ to.host = from.host
=============================================================================
