---------------------------- MODULE ProxyHandler ----------------------------
(***************************************************************************)
(* One TCP stream through a handler of a node, from the accepted           *)
(* connection to the last deferred Close: request, authentication, bypass, *)
(* dial, reply, the look at the first bytes (sniffing) and the copying in  *)
(* both directions.  Client and server talk by a script: a sequence of     *)
(* "c" and "s", who speaks when.  A message is its place in the script.    *)
(***************************************************************************)
EXTENDS Naturals, Sequences, SequencesExt

CONSTANTS
    Cases,      \* [kind, opt, talk]: name of a handler, its metadata, what is said
    Header,     \* how many messages make the five bytes Sniff peeks at
    Obstacles   \* what may be in the way: subsets of Way

Way == {"rate", "auth", "asked", "named", "noroute", "nohost"}

(* A handler: does it read a request; which addresses does it show to the  *)
(* bypass; when does it sniff; when does it reply; do the bytes it peeked  *)
(* at stay part of the stream; what it does with other than HTTP and TLS;  *)
(* does it hand its log to the sniffer.                                    *)
After == [ask |-> TRUE, bypass |-> {"asked"}, sniff |-> "after", reply |-> "now",
          whole |-> TRUE, other |-> "asked", log |-> TRUE]
Before == [After EXCEPT !.ask = FALSE, !.bypass = {"named"}, !.sniff = "before", !.reply = "none"]
HttpConnect == After
Http2 == [After EXCEPT !.sniff = "never"]
Socks4 == After
Socks5 == After
Relay == [After EXCEPT !.reply = "late"]
RelayNoDelay == After
RelayForward == [After EXCEPT !.bypass = {}, !.sniff = "never", !.reply = "late"]
Shadowsocks == [After EXCEPT !.reply = "none"]
Sshd == [After EXCEPT !.ask = FALSE, !.reply = "none", !.whole = FALSE]
Redirect == [Before EXCEPT !.bypass = {"asked", "named"}]
ForwardLocal == [Before EXCEPT !.log = FALSE]
ForwardRemote == Before
Sni == [Before EXCEPT !.sniff = "always", !.other = "none"]
Unix == [Before EXCEPT !.bypass = {}, !.sniff = "after"]
UnixForward == Unix
Handler ==
    [http |-> HttpConnect, http2 |-> Http2, socks4 |-> Socks4, socks5 |-> Socks5,
     relay |-> Relay, nodelay |-> RelayNoDelay, forward |-> RelayForward, ss |-> Shadowsocks,
     sshd |-> Sshd, redirect |-> Redirect, tcp |-> ForwardLocal, rtcp |-> ForwardRemote,
     sni |-> Sni, unix |-> Unix, unixforward |-> UnixForward]

HandlerAssumption ==
    /\ Header \in Nat \ {0}
    /\ Obstacles \subseteq SUBSET Way
    /\ \A c \in Cases :
          /\ c.kind \in DOMAIN Handler
          /\ c.opt \in [sniffing : BOOLEAN, timeout : BOOLEAN, fallback : BOOLEAN]
          /\ c.talk \in [script : Seq({"c", "s"}), proto : {"http", "h2c", "tls", "raw"},
                         half : {"none", "c", "s"}]

VARIABLES
    kind,       \* the handler
    opt,        \* [sniffing, timeout, fallback : BOOLEAN]
    talk,       \* [script, proto, half]: half, who closes its side when it has said all
    way,        \* the obstacles
    pc,
    proto,      \* what Sniff found
    dest,       \* the destination dialled
    client,     \* messages the client received
    server,     \* messages the server received
    sent,       \* messages sent
    in,         \* from the client, not yet read
    br,         \* in the buffered reader
    rest,       \* what the handler reads from the client: "in" or "br" first
    back,       \* from the server, not yet read
    replied,    \* the client has its reply
    open        \* the open ends: "c" and "s"

given == <<kind, opt, talk, way>>
vars == <<given, pc, proto, dest, client, server, sent, in, br, rest, back, replied, open>>

Script == talk.script
Of(who) == {i \in 1..Len(Script) : Script[i] = who}

Init ==
    /\ \E case \in Cases : kind = Handler[case.kind] /\ opt = case.opt /\ talk = case.talk
    /\ way \in Obstacles
    /\ pc = "limit"
    /\ proto = "unknown" /\ dest = "none"
    /\ client = <<>> /\ server = <<>> /\ sent = {}
    /\ in = <<>> /\ br = <<>> /\ rest = "in" /\ back = <<>>
    /\ replied = (kind.reply = "none")
    /\ open = {"c"}

-----------------------------------------------------------------------------
(* Who has heard all that comes before may speak.                          *)
Heard(who, i) == \A j \in 1..i - 1 :
    IF Script[j] = who THEN j \in sent
    ELSE j \in ToSet(IF who = "c" THEN client ELSE server)
Over(who) == Heard(who, Len(Script) + 1)
Spoken(who) == Of(who) \subseteq sent
Closed(who) == Spoken(who) /\ (Over(who) \/ talk.half = who)

ClientSends ==
    \E i \in Of("c") \ sent :
        /\ "c" \in open /\ Heard("c", i)
        /\ replied \/ kind.reply = "late"
        /\ sent' = sent \cup {i}
        /\ in' = Append(in, i)
        /\ UNCHANGED <<given, pc, proto, dest, client, server, br, rest, back, replied, open>>
ServerSends ==
    \E i \in Of("s") \ sent :
        /\ "s" \in open /\ Heard("s", i)
        /\ sent' = sent \cup {i}
        /\ back' = Append(back, i)
        /\ UNCHANGED <<given, pc, proto, dest, client, server, in, br, rest, replied, open>>

Step(from, to) == pc = from /\ pc' = to
Quiet == UNCHANGED <<given, client, server, sent, back>>
Same == Quiet /\ UNCHANGED <<in, br, rest, replied, open>>

(* The deferred Close calls; the client may have left before.              *)
Leave(from) ==
    /\ Step(from, IF "c" \in open THEN "closed" ELSE "left")
    /\ open' = {}
    /\ UNCHANGED <<given, proto, dest, client, server, sent, in, br, rest, back, replied>>

LimitRate ==
    \/ "rate" \in way /\ Leave("limit")
    \/ /\ "rate" \notin way
       /\ Step("limit", IF kind.ask THEN "request"
                        ELSE IF kind.sniff = "always" \/ (kind.sniff = "before" /\ opt.sniffing)
                        THEN "sniff" ELSE "bypass")
       /\ Same /\ UNCHANGED <<proto, dest>>

(* The request of a client that means to speak arrives.                    *)
Request == Step("request", "auth") /\ Same /\ UNCHANGED <<proto, dest>>
Authenticate ==
    \/ "auth" \in way /\ Leave("auth")
    \/ "auth" \notin way /\ Step("auth", "bypass") /\ Same /\ UNCHANGED <<proto, dest>>

Bypass ==
    \/ kind.bypass \cap way \cap {"asked"} # {} /\ Leave("bypass")
    \/ kind.bypass \cap way \cap {"asked"} = {} /\ Step("bypass", "dial") /\ Same /\ UNCHANGED <<proto, dest>>

Dial ==
    \/ "noroute" \in way /\ Leave("dial")
    \/ /\ "noroute" \notin way
       /\ Step("dial", "reply")
       /\ dest' = "asked"
       /\ open' = open \cup {"s"}
       /\ Quiet /\ UNCHANGED <<proto, in, br, rest, replied>>

(* The reply, unless it waits for the first bytes of the server.           *)
Reply ==
    /\ Step("reply", IF kind.sniff = "after" /\ opt.sniffing THEN "sniff" ELSE "copy")
    /\ replied' = (replied \/ kind.reply = "now")
    /\ Quiet /\ UNCHANGED <<proto, dest, in, br, rest, open>>

-----------------------------------------------------------------------------
(* Sniff peeks at the header; the reader may take more than it needs.  It  *)
(* gives up when the client closed its side or the time is over; what it   *)
(* took is the head of the stream, if the handler reads from the reader.   *)
Fill ==
    /\ pc = "sniff"
    /\ in # <<>>
    /\ \E k \in 1..Len(in) : br' = br \o SubSeq(in, 1, k) /\ in' = SubSeq(in, k + 1, Len(in))
    /\ UNCHANGED <<given, pc, proto, dest, client, server, sent, rest, back, replied, open>>

(* Mutant: what was peeked at is left in the reader.                       *)
Found_Loses(p) ==
    /\ proto' = p
    /\ rest' = "in"
    /\ IF kind.sniff = "after" THEN pc' = "copy"
       ELSE IF p # "raw" THEN pc' = "dial named"
       ELSE IF kind.other = "none" THEN pc' = "leave" ELSE pc' = "bypass"
    /\ UNCHANGED <<given, dest, client, server, sent, in, br, back, replied, open>>

Found(p) ==
    /\ proto' = p
    /\ rest' = IF kind.whole \/ p # "raw" THEN "br" ELSE "in"
    /\ IF kind.sniff = "after" THEN pc' = "copy"
       ELSE IF p # "raw" THEN pc' = "dial named"
       ELSE IF kind.other = "none" THEN pc' = "leave" ELSE pc' = "bypass"
    /\ UNCHANGED <<given, dest, client, server, sent, in, br, back, replied, open>>
Timed == opt.timeout /\ kind.sniff # "always"
Class == IF talk.proto = "h2c" THEN "http" ELSE talk.proto
Sniff ==
    /\ pc = "sniff"
    /\ \/ Len(br) >= Header /\ Found(Class)
       \/ Len(br) < Header /\ Timed /\ Found("raw")
       \/ Len(br) < Header /\ in = <<>> /\ Closed("c") /\ Found("raw")

(* The sniffer dials whom the request, or the hello, names, unless the     *)
(* bypass has it; what a client asks over HTTP/2 is not shown to a bypass, *)
(* and refused, request after request, when it cannot be dialled.  redirect*)
(* falls back to the address the stream came for when no one is named or,  *)
(* if it is told to, when who is named cannot be dialled.                  *)
Judged == talk.proto # "h2c"
Refuse ==
    IF Judged THEN Leave("dial named")
    ELSE Step("dial named", "refuse") /\ Same /\ UNCHANGED <<proto, dest>>
Connect(to) ==
    /\ Step("dial named", "copy")
    /\ dest' = to
    /\ open' = open \cup {"s"}
    /\ Quiet /\ UNCHANGED <<proto, in, br, rest, replied>>
Falls == "nohost" \in way /\ kind = Redirect
DialNamed ==
    \/ /\ Judged /\ "named" \in way
       /\ kind.log \/ talk.proto = "tls"
       /\ Leave("dial named")
    \/ /\ kind.log /\ (Judged => "named" \notin way)
       /\ \/ "nohost" \notin way /\ Connect("named")
          \/ Falls /\ way \cap {"asked", "noroute"} = {} /\ Connect("asked")
          \/ Falls /\ way \cap {"asked", "noroute"} # {} /\ Refuse
          \/ "nohost" \in way /\ ~(kind = Redirect /\ opt.fallback) /\ Refuse
RefuseEnds == Closed("c") /\ Leave("refuse")

(* A sniffer without a log fails on its first message: on every request,   *)
(* and on a hello unless the bypass has it or no node takes it.  Nobody    *)
(* recovers: it is the end of the node.                                    *)
Unlogged ==
    /\ ~kind.log
    /\ \/ talk.proto = "tls" /\ "nohost" \in way /\ Leave("dial named")
       \/ /\ talk.proto = "tls" => "named" \notin way
          /\ Step("dial named", "crashed")
          /\ open' = {}
          /\ UNCHANGED <<given, proto, dest, client, server, sent, in, br, rest, back, replied>>

-----------------------------------------------------------------------------
(* Transport copies until one direction ends; a late reply goes out with   *)
(* the first bytes.                                                        *)
CopyUp ==
    /\ pc = "copy" /\ "s" \in open
    /\ \/ rest = "br" /\ br # <<>> /\ server' = Append(server, Head(br)) /\ br' = Tail(br) /\ UNCHANGED in
       \/ /\ rest = "in" \/ br = <<>>
          /\ in # <<>> /\ server' = Append(server, Head(in)) /\ in' = Tail(in) /\ UNCHANGED br
    /\ UNCHANGED <<given, pc, proto, dest, client, sent, rest, back, replied, open>>
CopyDown ==
    /\ pc = "copy" /\ back # <<>> /\ "c" \in open
    /\ client' = Append(client, Head(back)) /\ back' = Tail(back)
    /\ replied' = TRUE
    /\ UNCHANGED <<given, pc, proto, dest, server, sent, in, br, rest, open>>

(* A server of HTTP/2 serves until its client is done.                     *)
UpEnds == in = <<>> /\ (rest = "in" \/ br = <<>>) /\ Closed("c")
DownEnds == back = <<>> /\ Closed("s") /\ ~(talk.proto = "h2c" /\ proto = "http")
EndCopy == (UpEnds \/ DownEnds \/ "c" \notin open) /\ Leave("copy")
Return == Leave("leave")

(* The client loses patience, whatever state the stream is in.             *)
ClientLeaves ==
    /\ "c" \in open
    /\ open' = open \ {"c"}
    /\ UNCHANGED <<given, pc, proto, dest, client, server, sent, in, br, rest, back, replied>>
ReadFails == pc \in {"request", "sniff", "refuse"} /\ "c" \notin open /\ Leave(pc)

Handle ==
    \/ LimitRate \/ Request \/ Authenticate \/ Bypass \/ Dial \/ Reply \/ Fill \/ Sniff
    \/ DialNamed \/ RefuseEnds \/ Unlogged \/ CopyUp \/ CopyDown \/ EndCopy \/ Return \/ ReadFails
Next == ClientSends \/ ServerSends \/ Handle \/ ClientLeaves
Spec == Init /\ [][Next]_vars /\ WF_vars(ClientSends) /\ WF_vars(ServerSends) /\ WF_vars(Handle)

-----------------------------------------------------------------------------
TypeOK ==
    /\ pc \in {"limit", "request", "auth", "bypass", "dial", "reply", "sniff", "dial named",
               "refuse", "copy", "leave", "closed", "left", "crashed"}
    /\ dest \in {"none", "asked", "named"} /\ proto \in {"unknown", "http", "tls", "raw"}
    /\ sent \subseteq 1..Len(Script) /\ open \subseteq {"c", "s"} /\ rest \in {"in", "br"}
    /\ \A q \in {client, server, in, br, back} : q \in Seq(1..Len(Script))

(* What a side hears is the beginning of what the other side said, whatever *)
(* was sniffed, peeked at and given up meanwhile.  Only a handler that goes *)
(* on with the connection where the sniffer gives up leaves what it took in *)
(* the reader.                                                              *)
Forgotten == IF ~kind.whole /\ proto = "raw" THEN ToSet(br) ELSE {}
Begins(heard, who, but) ==
    /\ ToSet(heard) \subseteq Of(who)
    /\ \A j, k \in DOMAIN heard : j < k => heard[j] < heard[k]
    /\ \A i \in ToSet(heard) : {j \in Of(who) : j < i} \subseteq ToSet(heard) \cup but
TalkIsKept == Begins(server, "c", Forgotten) /\ Begins(client, "s", {})

(* None is dialled for a client refused before, and no destination the     *)
(* handler's bypass names, by the sniffer's dial and its fall-back neither;*)
(* but for the one a client names over HTTP/2.                             *)
BypassedIsNotDialled ==
    dest # "none" =>
        /\ "rate" \notin way /\ (kind.ask => "auth" \notin way)
        /\ way \cap {dest} \cap kind.bypass # {} => dest = "named" /\ ~Judged

(* One waits for ever with a server that speaks first, or a client that    *)
(* says little, when there is no timeout, and with a server that is gone   *)
(* while its client goes on over HTTP/2; a client of Sni has to name whom  *)
(* it means; what was left in a reader is missed, and a crash ends all.    *)
Plays ==
    /\ way = {}
    /\ kind.sniff \in {"before", "after"} /\ opt.sniffing => Timed
    /\ kind = Sni => talk.proto # "raw"
    /\ talk.proto = "h2c" => talk.half # "s"
    /\ kind.whole \/ ~opt.sniffing
    /\ kind.log \/ ~opt.sniffing \/ talk.proto = "raw"
Ended == {"closed", "left", "crashed"}
TalkOver ==
    /\ Plays => pc \in {"closed", "left"}
    /\ Plays /\ talk.half = "none" /\ pc = "closed" => Over("c") /\ Over("s")
    /\ "c" \notin open => pc \in Ended

(* A talk nothing stands in the way of comes to its end, also when the     *)
(* server speaks first, when the client says less than the header, and     *)
(* when the reply waits for the server: all is said, unless the client     *)
(* leaves, or a side closes when it has said all, which ends both ways;    *)
(* and when the client is gone, every handler returns.                     *)
TalksEnd == <>[]TalkOver
=============================================================================
