----------------------------- MODULE HttpRelay -----------------------------
(***************************************************************************)
(* One client connection that a handler of a node relays request by        *)
(* request: the HTTP proxy and the entry point of the tunnels through an   *)
(* http.Transport, the two sniffers and the unix handler over a connection *)
(* of their own, whose responses they read with a new buffered reader in   *)
(* every round trip.                                                       *)
(***************************************************************************)
EXTENDS Integers, Sequences, FiniteSets, SequencesExt

CONSTANTS
    Cases,         \* [mode, interim, early]: name of a relay, what its server may do
    MaxRequests,
    MaxFrames      \* what a server sends after it switched protocols

(* keeps: the reader stays; skips: interim responses are passed over;      *)
(* again: a closed idle connection is dialled again; tells: an error is    *)
(* answered; ends: a last response ends the client's connection as well;   *)
(* tunnel: what turns the connection into a tunnel.                        *)
Proxy == [keeps |-> TRUE, skips |-> TRUE, again |-> TRUE, tells |-> TRUE, ends |-> TRUE,
          tunnel |-> "switched"]
EntryPoint == [Proxy EXCEPT !.ends = FALSE]
Sniffer == [keeps |-> FALSE, skips |-> FALSE, again |-> FALSE, tells |-> FALSE, ends |-> TRUE,
            tunnel |-> "switched"]
Forwarder == [Sniffer EXCEPT !.tells = TRUE]
Unix == [Sniffer EXCEPT !.tunnel = "asked"]
Relay == [http |-> Proxy, entrypoint |-> EntryPoint, sniffer |-> Sniffer,
          forwarder |-> Forwarder, unix |-> Unix]

RelayAssumption ==
    /\ MaxRequests \in Nat \ {0} /\ MaxFrames \in Nat
    /\ Cases \subseteq [mode : DOMAIN Relay, interim : BOOLEAN, early : BOOLEAN]

VARIABLES
    case,      \* the case
    pc,        \* of the handler
    cur,       \* the request of the round trip
    asked,     \* requests the client sent
    in,        \* requests not yet read by the handler
    link,      \* the connection to the server is open
    todo,      \* requests the server has, the first of them may be begun
    down,      \* from the server, not yet read
    buf,       \* in the buffered reader
    frames,    \* frames the server sent; -1 before it switched protocols
    got,       \* what the client received
    here,      \* the client's connection is open, at either side
    lost       \* history: frames dropped with a reader, of a client that is here
vars == <<case, pc, cur, asked, in, link, todo, down, buf, frames, got, here, lost>>

mode == Relay[case.mode]
Requests == [id : 1..MaxRequests, up : BOOLEAN]
NoRequest == [id |-> 0, up |-> FALSE]
Item(what, id) == [what |-> what, id |-> id]
Answer == {"final", "last", "switch", "error"}
Answers == {i \in DOMAIN got : got[i].what \in Answer}
Frames == {i \in DOMAIN got : got[i].what = "frame"}
Switched == \E i \in ToSet(got) : i.what = "switch"

Init ==
    /\ case \in Cases
    /\ pc = "read" /\ cur = NoRequest /\ asked = 0 /\ in = <<>>
    /\ link = TRUE /\ todo = <<>> /\ down = <<>> /\ buf = <<>>
    /\ frames = -1 /\ got = <<>>
    /\ here = TRUE /\ lost = 0

-----------------------------------------------------------------------------
(* A client sends its next request when the one before is answered.        *)
ClientSends ==
    /\ here /\ ~Switched
    /\ asked < MaxRequests /\ Cardinality(Answers) = asked
    /\ \E up \in BOOLEAN : in' = Append(in, [id |-> asked + 1, up |-> up])
    /\ asked' = asked + 1
    /\ UNCHANGED <<case, pc, cur, link, todo, down, buf, frames, got, here, lost>>
ClientLeaves ==
    /\ here /\ here' = FALSE
    /\ UNCHANGED <<case, pc, cur, asked, in, link, todo, down, buf, frames, got, lost>>

(* The server may send interim responses, and answers; with the upgrade it *)
(* may be in a hurry to send the first frame.                              *)
Says(items) == down' = down \o items
ServerInterim ==
    /\ case.interim /\ link /\ todo # <<>>
    /\ \A i \in ToSet(down \o buf) : i # Item("interim", Head(todo).id)
    /\ Says(<<Item("interim", Head(todo).id)>>)
    /\ UNCHANGED <<case, pc, cur, asked, in, link, todo, buf, frames, got, here, lost>>
ServerAnswers ==
    /\ link /\ todo # <<>> /\ frames = -1
    /\ LET r == Head(todo) IN
       \/ /\ Says(<<Item("final", r.id)>>) /\ UNCHANGED <<link, frames>>
       \/ /\ Says(<<Item("last", r.id)>>) /\ link' = FALSE /\ UNCHANGED frames
       \/ /\ r.up
          /\ \E n \in 0..(IF case.early THEN MaxFrames ELSE 0) :
               /\ Says(<<Item("switch", r.id)>> \o [f \in 1..n |-> Item("frame", f)])
               /\ frames' = n
          /\ UNCHANGED link
    /\ todo' = Tail(todo)
    /\ UNCHANGED <<case, pc, cur, asked, in, buf, got, here, lost>>
ServerFrame ==   \* one that is not in a hurry waits for the client
    /\ link /\ frames \in 0..MaxFrames - 1
    /\ Switched
    /\ frames' = frames + 1
    /\ Says(<<Item("frame", frames + 1)>>)
    /\ UNCHANGED <<case, pc, cur, asked, in, link, todo, buf, got, here, lost>>
ServerCloses ==   \* an idle connection
    /\ link /\ todo = <<>> /\ frames = -1
    /\ link' = FALSE
    /\ UNCHANGED <<case, pc, cur, asked, in, todo, down, buf, frames, got, here, lost>>

-----------------------------------------------------------------------------
ReadRequest ==
    /\ pc = "read" /\ in # <<>> /\ here
    /\ pc' = "send" /\ cur' = Head(in) /\ in' = Tail(in)
    /\ UNCHANGED <<case, asked, link, todo, down, buf, frames, got, here, lost>>
Leave ==
    /\ pc' = "closed" /\ here' = FALSE /\ link' = FALSE
    /\ UNCHANGED <<case, cur, asked, in, todo, down, buf, frames, lost>>
ClientGone == pc \in {"read", "tunnel"} /\ ~here /\ Leave /\ UNCHANGED got

(* The round trip: the request is written, its response awaited with the   *)
(* reader of the round trip.  A Transport takes a new connection for one   *)
(* that was closed.                                                        *)
Send ==
    /\ pc = "send" /\ (link \/ mode.again)
    /\ pc' = "await"
    /\ link' = TRUE
    /\ todo' = IF link THEN Append(todo, cur) ELSE <<cur>>
    /\ down' = IF link THEN down ELSE <<>>
    /\ buf' = IF link /\ mode.keeps THEN buf ELSE <<>>
    /\ UNCHANGED <<case, cur, asked, in, frames, got, here, lost>>
Fetch ==
    /\ pc \in {"await", "tunnel"} /\ down # <<>> /\ buf = <<>>
    /\ \E k \in 1..Len(down) : buf' = SubSeq(down, 1, k) /\ down' = SubSeq(down, k + 1, Len(down))
    /\ UNCHANGED <<case, pc, cur, asked, in, link, todo, frames, got, here, lost>>

Fail ==   \* the write fails, or ends nowhere
    /\ pc = "send" /\ ~link /\ ~mode.again
    /\ got' = IF mode.tells /\ here THEN Append(got, Item("error", cur.id)) ELSE got
    /\ Leave

Skip ==
    /\ pc = "await" /\ buf # <<>> /\ Head(buf).what = "interim" /\ mode.skips
    /\ buf' = Tail(buf)
    /\ UNCHANGED <<case, pc, cur, asked, in, link, todo, down, frames, got, here, lost>>

FramesIn(items) == Cardinality({i \in DOMAIN items : items[i].what = "frame"})
Give(item) == got' = IF here THEN Append(got, item) ELSE got
Respond ==
    LET item == Head(buf) IN
    /\ pc = "await" /\ buf # <<>>
    /\ ~(item.what = "interim" /\ mode.skips)
    /\ IF item.what = "last" /\ mode.ends /\ (mode.tunnel = "asked" => ~cur.up)
       THEN Give(item) /\ Leave
       ELSE /\ Give(item)
            /\ pc' = IF item.what = "switch" \/ (mode.tunnel = "asked" /\ cur.up) THEN "tunnel" ELSE "read"
            /\ buf' = IF mode.keeps THEN Tail(buf) ELSE <<>>
            /\ lost' = IF mode.keeps \/ ~here THEN lost ELSE lost + FramesIn(Tail(buf))
            /\ UNCHANGED <<case, cur, asked, in, link, todo, down, frames, here>>
Frame ==
    /\ pc = "tunnel" /\ buf # <<>>
    /\ Give(Head(buf))
    /\ buf' = Tail(buf)
    /\ UNCHANGED <<case, pc, cur, asked, in, link, todo, down, frames, here, lost>>
TunnelUp ==   \* Transport copies to the server what the client goes on to ask
    /\ pc = "tunnel" /\ in # <<>> /\ link
    /\ todo' = Append(todo, Head(in)) /\ in' = Tail(in)
    /\ UNCHANGED <<case, pc, cur, asked, link, down, buf, frames, got, here, lost>>
TunnelEnds == pc = "tunnel" /\ ~link /\ down \o buf = <<>> /\ Leave /\ UNCHANGED got

Handle ==
    \/ ReadRequest \/ ClientGone \/ Send \/ Fetch \/ Fail \/ Skip \/ Respond \/ Frame
    \/ TunnelUp \/ TunnelEnds
Next ==
    \/ ClientSends \/ ClientLeaves
    \/ ServerInterim \/ ServerAnswers \/ ServerFrame \/ ServerCloses
    \/ Handle
Spec == Init /\ [][Next]_vars /\ WF_vars(Handle) /\ WF_vars(ServerAnswers)
-----------------------------------------------------------------------------
TypeOK ==
    /\ pc \in {"read", "send", "await", "tunnel", "closed"}
    /\ cur \in Requests \cup {NoRequest} /\ asked \in 0..MaxRequests
    /\ in \in Seq(Requests) /\ todo \in Seq(Requests)
    /\ frames \in -1..MaxFrames
    /\ here \in BOOLEAN /\ link \in BOOLEAN /\ lost \in 0..MaxFrames

(* The i-th answer a client receives is the answer to its i-th request, and *)
(* the frames after a switch of protocols arrive one by one, from the first *)
(* on that was not dropped with the reader of the response.                 *)
Place(I, i) == Cardinality({j \in I : j <= i})
AnswersMatch ==
    /\ \A i \in Answers : got[i].id = Place(Answers, i)
    /\ \A i \in Frames : got[i].id = lost + Place(Frames, i)
    /\ mode.keeps => lost = 0

Answered ==
    (case.interim => mode.skips) => Cardinality(Answers) = asked \/ Switched \/ ~here

(* No client waits for ever: its request is answered, or its connection    *)
(* ends; but for an interim response that is taken for the answer.         *)
NobodyWaits == []<>Answered
=============================================================================
