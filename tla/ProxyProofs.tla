----------------------------- MODULE ProxyProofs ----------------------------
(***************************************************************************)
(* Proofs about Proxy, for every set of connections and servers and for    *)
(* all messages, whatever fields they have and their Connection names.     *)
(***************************************************************************)
EXTENDS Proxy, TLAPS

(* What a message is made of, and what get::<Via>() makes of its Via.      *)
LEMMA MessageFacts ==
    ASSUME NEW m \in Message
    PROVE  /\ m.fields \subseteq Field /\ m.options \subseteq Field
           /\ m.via \in Seq(Seq(ViaEntry)) /\ m.version \in HttpVersion
           /\ m.host \in Server \cup {Client} /\ m.uri \in Server \cup {Client}
           /\ TypedVia(m) \in Seq(ViaEntry)
<1>1. m.via \in Seq(Seq(ViaEntry))
  BY DEF Message
<1>2. <<>> \in Seq(ViaEntry)
  OBVIOUS
<1>3. TypedVia(m) \in Seq(ViaEntry)
  BY <1>1, <1>2 DEF TypedVia
<1> QED
  BY <1>1, <1>3 DEF Message

(* Every version has a text.                                               *)
LEMMA VersionFacts ==
    ASSUME NEW v \in HttpVersion
    PROVE  VersionText(v) \in ViaEntry
BY DEF VersionText, HttpVersion, ViaEntry

(* map_request, with the closure that addresses the request, yields a      *)
(* message; each of its parts is what the code makes of the client's.      *)
LEMMA RequestFacts ==
    ASSUME NEW m \in Message, NEW s \in Server
    PROVE  LET t == Address(map_request(m), s)
           IN  /\ t \in Message
               /\ t.fields = filter_frontend_request_headers(m) \cup {"Via"}
                                \cup (IF s \in MapHost THEN {"Host"} ELSE {})
               /\ t.via = <<Append(TypedVia(m), VersionText(m.version))>>
               /\ t.uri = s
               /\ t.host = IF s \in MapHost THEN s ELSE m.host
<1> DEFINE r == map_request(m)
           v == <<Append(TypedVia(m), VersionText(m.version))>>
           F == filter_frontend_request_headers(m) \cup {"Via"}
           t == Address(r, s)
<1>2. r = [fields |-> F, options |-> {}, via |-> v,
           host |-> m.host, uri |-> m.uri, version |-> "Http11"]
  BY DEF map_request, Mapped, create_via_header
<1>3. VersionText(m.version) \in ViaEntry
  BY MessageFacts, VersionFacts
<1>4. v \in Seq(Seq(ViaEntry)) /\ F \subseteq Field
  <2>1. Append(TypedVia(m), VersionText(m.version)) \in Seq(ViaEntry)
    BY <1>3, MessageFacts
  <2>2. v \in Seq(Seq(ViaEntry))
    BY <2>1
  <2>3. F \subseteq Field
    BY MessageFacts DEF filter_frontend_request_headers, Field
  <2> QED
    BY <2>2, <2>3
<1> HIDE DEF v, F, r
<1>5. t = [fields |-> F \cup (IF s \in MapHost THEN {"Host"} ELSE {}), options |-> {},
           via |-> v, host |-> IF s \in MapHost THEN s ELSE m.host, uri |-> s,
           version |-> "Http11"]
  BY <1>2 DEF Address
<1>6. t \in Message
  BY <1>4, <1>5, MessageFacts DEF Message, Field, HttpVersion
<1> QED
  BY <1>5, <1>6 DEF v, F, r

(* map_response changes the fields only.                                   *)
LEMMA ResponseFacts ==
    ASSUME NEW m \in Message
    PROVE  /\ map_response(m) \in Message
           /\ map_response(m).fields = filter_backend_response_headers(m)
BY DEF Message, map_response, filter_backend_response_headers

ProxyInv == TypeOK /\ ConnectionStops /\ EndToEndPasses /\ TracedAndAddressed

(* A request is passed on with what the properties say.                    *)
LEMMA CallInv ==
    ASSUME ProxyInv, NEW c \in Conn, NEW m \in Request, NEW s \in Server, Call(c, m, s)
    PROVE  ProxyInv'
<1>1. m \in Message
  BY ProxyAssumption
<1>2. /\ to' = Address(map_request(m), s) /\ from' = m /\ way' = "request"
      /\ conn' = [conn EXCEPT ![c] = s] /\ alive' = alive /\ conn[c] = "open" /\ TypeOK
  BY DEF Call, ProxyInv
<1>3. /\ to' \in Message
      /\ to'.fields = filter_frontend_request_headers(m) \cup {"Via"}
                        \cup (IF s \in MapHost THEN {"Host"} ELSE {})
      /\ to'.via = <<Append(TypedVia(m), VersionText(m.version))>>
      /\ to'.uri = s
      /\ to'.host = IF s \in MapHost THEN s ELSE m.host
  BY <1>1, <1>2, RequestFacts
<1>4. TypeOK'
  BY <1>1, <1>2, <1>3 DEF TypeOK
<1>5. OwnFields' = {"Via"} \cup (IF s \in MapHost THEN {"Host"} ELSE {})
  BY <1>2, <1>3 DEF OwnFields
<1>6. to'.fields \subseteq (m.fields \ (m.options \cup {"Connection"})) \cup OwnFields'
  BY <1>3, <1>5 DEF filter_frontend_request_headers
<1>7. ConnectionStops'
  BY <1>2, <1>6 DEF ConnectionStops
<1>8. m.fields \ (HopByHop \cup m.options) \subseteq to'.fields
  BY <1>3 DEF filter_frontend_request_headers, HopByHop
<1>9. EndToEndPasses'
  BY <1>2, <1>8 DEF EndToEndPasses
<1>10. TracedAndAddressed'
  <2>1. VersionText(m.version) \in ViaEntry
    BY <1>1, MessageFacts, VersionFacts
  <2>2. m.via = <<>> => to'.via = << <<VersionText(m.version)>> >>
    <3>1. ASSUME m.via = <<>> PROVE TypedVia(m) = <<>>
      BY <3>1 DEF TypedVia
    <3>2. Append(<<>>, VersionText(m.version)) = <<VersionText(m.version)>>
      OBVIOUS
    <3> QED
      BY <1>3, <3>1, <3>2
  <2>3. Len(m.via) = 1 => to'.via = << Append(m.via[1], VersionText(m.version)) >>
    BY <1>3 DEF TypedVia
  <2>4. "Via" \in to'.fields
    BY <1>3
  <2>5. /\ s \in MapHost => "Host" \in to'.fields /\ to'.host = s
        /\ s \notin MapHost => to'.host = m.host
        /\ "Host" \in m.fields \ m.options => "Host" \in to'.fields
    BY <1>3 DEF filter_frontend_request_headers
  <2> QED
    BY <1>2, <1>3, <2>2, <2>3, <2>4, <2>5 DEF TracedAndAddressed
<1> QED
  BY <1>4, <1>7, <1>9, <1>10 DEF ProxyInv

(* Of a response nothing end-to-end is removed.                            *)
LEMMA RespondInv ==
    ASSUME ProxyInv, NEW c \in Conn, NEW m \in Response, Respond(c, m)
    PROVE  ProxyInv'
<1>1. m \in Message
  BY ProxyAssumption
<1>2. /\ to' = map_response(m) /\ from' = m /\ way' = "response"
      /\ conn' = [conn EXCEPT ![c] = "open"] /\ alive' = alive /\ conn[c] \in Server /\ TypeOK
  BY DEF Respond, ProxyInv
<1>3. to' \in Message /\ to'.fields = filter_backend_response_headers(m)
  BY <1>1, <1>2, ResponseFacts
<1>4. TypeOK'
  BY <1>1, <1>2, <1>3, ProxyAssumption DEF TypeOK
<1>5. EndToEndPasses'
  <2>1. m.fields \ (HopByHop \cup m.options) \subseteq to'.fields
    BY <1>3 DEF filter_backend_response_headers, HopByHop
  <2> QED
    BY <1>2, <2>1 DEF EndToEndPasses
<1>6. ConnectionStops' /\ TracedAndAddressed'
  BY <1>2 DEF ConnectionStops, TracedAndAddressed
<1> QED
  BY <1>4, <1>5, <1>6 DEF ProxyInv

(* The other steps map no message.                                         *)
LEMMA OtherInv ==
    ASSUME ProxyInv, UNCHANGED mapped,
           \/ UNCHANGED <<alive, conn>>
           \/ End
           \/ \E c \in Conn : Accept(c) \/ Close(c)
    PROVE  ProxyInv'
<1>1. TypeOK /\ way' = way /\ from' = from /\ to' = to
  BY DEF ProxyInv, mapped
<1>2. TypeOK'
  BY <1>1 DEF TypeOK, End, Accept, Close
<1>3. ConnectionStops' /\ EndToEndPasses' /\ TracedAndAddressed'
  BY <1>1 DEF ProxyInv, ConnectionStops, EndToEndPasses, TracedAndAddressed, OwnFields
<1> QED
  BY <1>2, <1>3 DEF ProxyInv

LEMMA ProxyInvariance == Spec => []ProxyInv
<1>1. Init => ProxyInv
  <2>1. SUFFICES ASSUME Init PROVE ProxyInv
    OBVIOUS
  <2>2. Nothing \in Message
    BY DEF Nothing, Message, HttpVersion
  <2> QED
    BY <2>1, <2>2 DEF Init, ProxyInv, TypeOK, ConnectionStops, EndToEndPasses, TracedAndAddressed
<1>2. ProxyInv /\ [Next]_vars => ProxyInv'
  <2>1. SUFFICES ASSUME ProxyInv, [Next]_vars PROVE ProxyInv'
    OBVIOUS
  <2>2. CASE UNCHANGED vars
    BY <2>1, <2>2, OtherInv DEF vars, mapped
  <2>3. CASE AcceptFails \/ \E c \in Conn : CallPanics(c)
    BY <2>1, <2>3, OtherInv DEF AcceptFails, CallPanics, End
  <2>4. ASSUME NEW c \in Conn, Accept(c) \/ Close(c) \/ CallExhausted(c) \/ BackendFails(c)
        PROVE  ProxyInv'
    BY <2>1, <2>4, OtherInv DEF Accept, Close, CallExhausted, BackendFails
  <2> QED
    BY <2>1, <2>2, <2>3, <2>4, CallInv, RespondInv DEF Next
<1> QED
  BY <1>1, <1>2, PTL DEF Spec

(* Whatever a client names in its Connection header, the backend is sent   *)
(* neither that header nor the client's fields it names: RFC 7230 6.1 as   *)
(* the comment of the filter's test puts it.                               *)
THEOREM RequestConnectionStops == Spec => []ConnectionStops
<1>1. ProxyInv => ConnectionStops
  BY DEF ProxyInv
<1> QED
  BY <1>1, ProxyInvariance, PTL

(* The filters remove nothing that is end-to-end, in either direction.     *)
THEOREM EndToEndKept == Spec => []EndToEndPasses
<1>1. ProxyInv => EndToEndPasses
  BY DEF ProxyInv
<1> QED
  BY <1>1, ProxyInvariance, PTL

(* Every request is traced in Via, unless the Via it came with has several *)
(* lines, and addressed to the server it is sent to, whatever its          *)
(* Connection header names.                                                *)
THEOREM RequestsTraced == Spec => []TracedAndAddressed
<1>1. ProxyInv => TracedAndAddressed
  BY DEF ProxyInv
<1> QED
  BY <1>1, ProxyInvariance, PTL
=============================================================================
