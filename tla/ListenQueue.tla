---------------------------- MODULE ListenQueue -----------------------------
(***************************************************************************)
(* The listeners of a node and the accept loop of its services             *)
(* (service/service.go).  Most listeners accept in a goroutine of their    *)
(* own, put the connections, or the streams of a session, into a queue, and*)
(* put the error that ends them into a channel; Accept takes from both.    *)
(* Some accept from the socket in Accept itself, some bind an address at a *)
(* peer, some open a device.  A record per listener says how it does it.   *)
(***************************************************************************)
EXTENDS Naturals, Sequences, FiniteSets, SequencesExt

CONSTANTS
    Kinds,      \* names of the listeners looked at
    Streams,    \* connections, or streams of a session
    Backlog,    \* length of the queue
    MaxFailures \* bound: accept, bind and device errors

(* source: what accepts.  muxed: streams come in sessions.  stays: sessions*)
(* outlive Close.  tells: what Accept gets after Close.  own: Close says it*)
(* and the server does not.  greets: Accept shakes hands before it returns.*)
Direct == [source |-> "direct", muxed |-> FALSE, stays |-> FALSE, tells |-> "closed",
           own |-> FALSE, greets |-> FALSE]
Server == [Direct EXCEPT !.source = "server"]
Loop == [Direct EXCEPT !.source = "loop", !.muxed = TRUE, !.stays = TRUE]

Tcp == Direct
Tls == [Direct EXCEPT !.greets = TRUE]
Dtls == [Direct EXCEPT !.greets = TRUE]
ObfsHttp == Direct
ObfsTls == Direct
Ftcp == Direct
Unix == Direct
RedirectTcp == Direct
RedirectUdp == Direct
H3 == Direct
Pht == Direct
Mtcp == Loop
Mtls == Loop
Quic == Loop
Icmp == Loop
Ssh == Loop
Sshd == Loop
Kcp == [Loop EXCEPT !.stays = FALSE]
Ws == [Server EXCEPT !.stays = TRUE]
Mws == [Server EXCEPT !.muxed = TRUE, !.stays = TRUE]
Grpc == Server
Dns == Server
Http2 == [Server EXCEPT !.own = TRUE]
H2 == [Http2 EXCEPT !.tells = "nil"]
Http3 == [Http2 EXCEPT !.tells = "nil"]
Wt == [Server EXCEPT !.muxed = TRUE, !.tells = "nothing"]
Rtcp == [Direct EXCEPT !.source = "bind"]
Rudp == [Direct EXCEPT !.source = "bind"]
Tun == [Direct EXCEPT !.source = "device"]
Tap == [Direct EXCEPT !.source = "device"]
SerialPort == [Direct EXCEPT !.source = "device"]

Listener ==
    [tcp |-> Tcp, tls |-> Tls, dtls |-> Dtls, obfshttp |-> ObfsHttp, obfstls |-> ObfsTls,
     ftcp |-> Ftcp, unix |-> Unix, redirecttcp |-> RedirectTcp, redirectudp |-> RedirectUdp,
     h3 |-> H3, pht |-> Pht, mtcp |-> Mtcp, mtls |-> Mtls, quic |-> Quic, icmp |-> Icmp,
     ssh |-> Ssh, sshd |-> Sshd, kcp |-> Kcp, ws |-> Ws, mws |-> Mws, grpc |-> Grpc,
     dns |-> Dns, http2 |-> Http2, h2 |-> H2, http3 |-> Http3, wt |-> Wt, rtcp |-> Rtcp,
     rudp |-> Rudp, tun |-> Tun, tap |-> Tap, serial |-> SerialPort]

ListenAssumption ==
    /\ Kinds \subseteq DOMAIN Listener
    /\ Backlog \in Nat \ {0}
    /\ MaxFailures \in Nat

VARIABLES
    kind,
    bound,     \* the socket, the binding or the server is there
    known,     \* a bind listener has stored its binding
    looping,   \* the accept loop, the server or the device loop runs
    session,   \* the session of the client: none, up or down
    stream,    \* stream -> new, device, queued, served, refused, reset or done
    queue,     \* cqueue, or the backlog of the socket
    errs,      \* the error in errChan: none, temporary, closed or nil
    errsEnd,   \* errChan is closed
    closed,    \* Close has been called
    accept,    \* where a bind listener is in Accept
    serve,     \* the accept loop of the service
    state,     \* what the service reports
    failures,
    lost       \* history: an error has ended the loop of the listener or of the service

vars == <<kind, bound, known, looping, session, stream, queue, errs, errsEnd, closed, accept,
          serve, state, failures, lost>>

K == Listener[kind]

Init ==
    /\ kind \in Kinds
    /\ bound = (K.source # "bind")
    /\ known = FALSE
    /\ looping = (K.source \in {"loop", "server", "device"})
    /\ session = "none"
    /\ stream = [x \in Streams |-> "new"]
    /\ queue = <<>>
    /\ errs = "none" /\ errsEnd = FALSE
    /\ closed = FALSE
    /\ accept = "out"
    /\ serve = "accept"
    /\ state = "ready"
    /\ failures = 0
    /\ lost = FALSE

-----------------------------------------------------------------------------
(* Clients.                                                                *)
Connect ==
    /\ K.muxed /\ looping /\ bound
    /\ session # "up"
    /\ session' = "up"
    /\ UNCHANGED <<kind, bound, known, looping, stream, queue, errs, errsEnd, closed, accept,
                   serve, state, failures, lost>>

Leave ==
    /\ session = "up"
    /\ session' = "down"
    /\ UNCHANGED <<kind, bound, known, looping, stream, queue, errs, errsEnd, closed, accept,
                   serve, state, failures, lost>>

(* Mutant: a full queue refuses nobody.                                    *)
Arrive_Always(x) ==
    /\ K.source # "device"
    /\ stream[x] = "new"
    /\ IF K.muxed THEN session = "up"
       ELSE bound /\ (K.source \in {"loop", "server"} => looping)
    /\ queue' = Append(queue, x) /\ stream' = [stream EXCEPT ![x] = "queued"]
    /\ UNCHANGED <<kind, bound, known, looping, session, errs, errsEnd, closed, accept, serve,
                   state, failures, lost>>

(* mux, upgrade, handleFunc: a queue that is full refuses the connection.  *)
Arrive(x) ==
    /\ K.source # "device"
    /\ stream[x] = "new"
    /\ IF K.muxed THEN session = "up"
       ELSE bound /\ (K.source \in {"loop", "server"} => looping)
    /\ IF Len(queue) < Backlog
       THEN queue' = Append(queue, x) /\ stream' = [stream EXCEPT ![x] = "queued"]
       ELSE stream' = [stream EXCEPT ![x] = "refused"] /\ UNCHANGED queue
    /\ UNCHANGED <<kind, bound, known, looping, session, errs, errsEnd, closed, accept, serve,
                   state, failures, lost>>

Done(x) ==
    /\ stream[x] = "served"
    /\ stream' = [stream EXCEPT ![x] = "done"]
    /\ UNCHANGED <<kind, bound, known, looping, session, queue, errs, errsEnd, closed, accept,
                   serve, state, failures, lost>>

(* listenLoop of tun, tap and serial: opens the device, hands it over and  *)
(* waits until it is closed.                                               *)
Opened == {x \in Streams : stream[x] \in {"device", "served"}}
OpenDevice(x) ==
    /\ K.source = "device" /\ looping
    /\ Opened = {} /\ stream[x] = "new"
    /\ \/ stream' = [stream EXCEPT ![x] = "device"] /\ UNCHANGED failures
       \/ failures < MaxFailures /\ failures' = failures + 1 /\ UNCHANGED stream
    /\ UNCHANGED <<kind, bound, known, looping, session, queue, errs, errsEnd, closed, accept,
                   serve, state, lost>>

TakeDevice(x) ==
    /\ serve = "accept"
    /\ stream[x] = "device"
    /\ stream' = [stream EXCEPT ![x] = "served"]
    /\ UNCHANGED <<kind, bound, known, looping, session, queue, errs, errsEnd, closed, accept,
                   serve, state, failures, lost>>

EndDeviceLoop ==
    /\ K.source = "device" /\ looping /\ closed
    /\ \A x \in Streams : stream[x] # "device"
    /\ looping' = FALSE /\ bound' = FALSE
    /\ UNCHANGED <<kind, known, session, stream, queue, errs, errsEnd, closed, accept, serve,
                   state, failures, lost>>

-----------------------------------------------------------------------------
(* listenLoop: any error of the socket, also one that would pass, goes to  *)
(* errChan and ends the loop.  An HTTP or gRPC server retries by itself.   *)
LoopError ==
    /\ K.source = "loop" /\ looping
    /\ \/ closed /\ errs' = "closed" /\ UNCHANGED <<failures, lost>>
       \/ /\ ~closed /\ failures < MaxFailures
          /\ failures' = failures + 1
          /\ errs' \in {"temporary", "closed"}
          /\ lost' = TRUE
    /\ looping' = FALSE
    /\ errsEnd' = TRUE
    /\ UNCHANGED <<kind, bound, known, session, stream, queue, closed, accept, serve, state>>

(* The server ends when it is closed, or when its socket fails for good;   *)
(* that of wt tells nobody.                                                *)
ServerEnds ==
    /\ K.source = "server" /\ looping
    /\ \/ closed /\ UNCHANGED <<failures, lost>>
       \/ ~closed /\ failures < MaxFailures /\ failures' = failures + 1 /\ lost' = TRUE
    /\ looping' = FALSE
    /\ IF K.tells = "closed" /\ ~K.own
       THEN errs' = "closed" /\ errsEnd' = TRUE
       ELSE UNCHANGED <<errs, errsEnd>>
    /\ UNCHANGED <<kind, bound, known, session, stream, queue, closed, accept, serve, state>>

(* Close.  Sessions that the listener has handed to goroutines stay when   *)
(* nothing ends them; h2 and http3 put the result of closing into errChan, *)
(* http2 the error it makes up.                                            *)
Reset(x) == stream[x] \in {"queued", "served"} /\ ~K.stays
Close ==
    /\ ~closed
    /\ closed' = TRUE
    /\ bound' = (K.source = "device" \/ (K.source = "bind" /\ bound /\ ~known))
    /\ session' = IF K.stays \/ session = "none" THEN session ELSE "down"
    /\ stream' = [x \in Streams |-> IF Reset(x) /\ K.source # "device" THEN "reset"
                                    ELSE stream[x]]
    /\ queue' = IF K.source \in {"direct", "bind"} THEN <<>> ELSE queue
    /\ IF K.own THEN errs' = (IF K.tells = "nil" THEN "nil" ELSE "closed") /\ errsEnd' = TRUE
       ELSE UNCHANGED <<errs, errsEnd>>
    /\ UNCHANGED <<kind, known, looping, accept, serve, state, failures, lost>>

-----------------------------------------------------------------------------
(* Accept and Serve.                                                       *)
TakeStream ==
    /\ serve = "accept" /\ (K.source = "bind" => accept = "wait")
    /\ K.source # "device"
    /\ queue # <<>>
    /\ queue' = Tail(queue)
    /\ IF K.greets THEN serve' = "greet" /\ UNCHANGED <<stream, state>>
       ELSE /\ stream' = [stream EXCEPT ![Head(queue)] =
                            IF @ = "queued" THEN "served" ELSE @]
            /\ state' = "ready"
            /\ UNCHANGED serve
    /\ accept' = "out"
    /\ UNCHANGED <<kind, bound, known, looping, session, errs, errsEnd, closed, failures, lost>>

(* A TLS handshake that fails or times out is silently forgotten; nobody   *)
(* else is accepted meanwhile.                                             *)
Greet ==
    /\ serve = "greet"
    /\ serve' = "accept"
    /\ \E x \in Streams, end \in {"served", "refused"} :
         /\ x \notin ToSet(queue)
         /\ stream[x] \in {"queued", "reset"}
         /\ stream' = [stream EXCEPT ![x] = IF @ = "queued" THEN end ELSE "done"]
    /\ UNCHANGED <<kind, bound, known, looping, session, queue, errs, errsEnd, closed, accept,
                   state, failures, lost>>

Outcome(e) ==
    CASE e = "temporary" -> serve' = "delay" /\ state' = "failed"
      [] e = "closed" -> serve' = "ended" /\ state' = "closed"
      [] e = "nil" -> serve' = "crashed" /\ UNCHANGED state

TakeError ==
    /\ serve = "accept"
    /\ K.source \in {"loop", "server"}
    /\ errs # "none" \/ errsEnd
    /\ Outcome(IF errs # "none" THEN errs ELSE "closed")
    /\ errs' = "none"
    /\ UNCHANGED <<kind, bound, known, looping, session, stream, queue, errsEnd, closed,
                   accept, failures, lost>>

(* The error of a socket that is accepted from in Accept.  Serve returns   *)
(* from one that does not pass; nobody closes the listener then.           *)
SocketError ==
    /\ serve = "accept"
    /\ K.source = "direct" \/ (K.source = "device" /\ closed)
    /\ \/ closed /\ Outcome("closed") /\ UNCHANGED <<failures, lost>>
       \/ /\ ~closed /\ failures < MaxFailures
          /\ failures' = failures + 1
          /\ \/ Outcome("temporary") /\ UNCHANGED lost
             \/ Outcome("closed") /\ lost' = TRUE
    /\ UNCHANGED <<kind, bound, known, looping, session, stream, queue, errs, errsEnd, closed,
                   accept>>

Retry ==
    /\ serve = "delay"
    /\ serve' = "accept"
    /\ UNCHANGED <<kind, bound, known, looping, session, stream, queue, errs, errsEnd, closed,
                   accept, state, failures, lost>>

(* Accept of rtcp and rudp: it binds when it has no binding, looks again   *)
(* whether it was closed meanwhile, and waits.                             *)
BindAccept ==
    /\ K.source = "bind" /\ serve = "accept" /\ accept = "out"
    /\ IF closed THEN Outcome("closed") /\ UNCHANGED accept
       ELSE accept' = (IF known THEN "check" ELSE "bind") /\ UNCHANGED <<serve, state>>
    /\ UNCHANGED <<kind, bound, known, looping, session, stream, queue, errs, errsEnd, closed,
                   failures, lost>>

Bind ==
    /\ accept = "bind"
    /\ \/ accept' = "store" /\ bound' = TRUE /\ UNCHANGED <<serve, state, failures>>
       \/ /\ failures < MaxFailures /\ failures' = failures + 1
          /\ accept' = "out" /\ Outcome("temporary")
          /\ UNCHANGED bound
    /\ UNCHANGED <<kind, known, looping, session, stream, queue, errs, errsEnd, closed, lost>>

SetListener ==
    /\ accept = "store"
    /\ known' = TRUE /\ accept' = "check"
    /\ UNCHANGED <<kind, bound, looping, session, stream, queue, errs, errsEnd, closed, serve,
                   state, failures, lost>>

(* Mutant: Accept does not look again after it has made its binding.       *)
CheckClosed_Not ==
    /\ accept = "check"
    /\ accept' = "wait"
    /\ UNCHANGED <<kind, bound, known, looping, session, stream, queue, errs, errsEnd, closed,
                   serve, state, failures, lost>>

CheckClosed ==
    /\ accept = "check"
    /\ IF closed THEN /\ bound' = FALSE
                      /\ stream' = [x \in Streams |-> IF Reset(x) THEN "reset" ELSE stream[x]]
                      /\ queue' = <<>>
                      /\ accept' = "out" /\ Outcome("closed")
       ELSE accept' = "wait" /\ UNCHANGED <<bound, stream, queue, serve, state>>
    /\ UNCHANGED <<kind, known, looping, session, errs, errsEnd, closed, failures, lost>>

(* The binding fails, or was closed: it is dropped and made again later.   *)
BindError ==
    /\ accept = "wait"
    /\ ~bound \/ failures < MaxFailures
    /\ failures' = IF bound THEN failures + 1 ELSE failures
    /\ bound' = FALSE /\ known' = FALSE
    /\ stream' = [x \in Streams |-> IF stream[x] = "queued" THEN "reset" ELSE stream[x]]
    /\ queue' = <<>>
    /\ accept' = "out" /\ Outcome("temporary")
    /\ UNCHANGED <<kind, looping, session, errs, errsEnd, closed, lost>>

Serving ==
    TakeStream \/ Greet \/ TakeError \/ SocketError \/ Retry \/ BindAccept \/ Bind
        \/ SetListener \/ CheckClosed \/ BindError \/ \E x \in Streams : TakeDevice(x)
Listening == LoopError \/ ServerEnds \/ EndDeviceLoop \/ \E x \in Streams : OpenDevice(x)
Next ==
    \/ Connect \/ Leave \/ Close
    \/ \E x \in Streams : Arrive(x) \/ Done(x)
    \/ Serving \/ Listening

(* Goroutines run; of a queue and an error channel that are both ready,    *)
(* select takes each in its turn.                                          *)
Fairness ==
    /\ WF_vars(Serving) /\ SF_vars(TakeStream) /\ SF_vars(TakeError)
    /\ WF_vars(closed /\ SocketError)
    /\ WF_vars((closed \/ K.source = "device") /\ Listening)
Spec == Init /\ [][Next]_vars /\ Fairness

-----------------------------------------------------------------------------
TypeOK ==
    /\ kind \in Kinds
    /\ session \in {"none", "up", "down"}
    /\ stream \in [Streams -> {"new", "device", "queued", "served", "refused", "reset", "done"}]
    /\ Len(queue) <= Backlog /\ ToSet(queue) \subseteq Streams
    /\ errs \in {"none", "temporary", "closed", "nil"}
    /\ accept \in {"out", "bind", "store", "check", "wait"}
    /\ serve \in {"accept", "greet", "delay", "ended", "crashed"}
    /\ state \in {"ready", "failed", "closed"}

(* The accept loop never meets a connection that is not there, which ends  *)
(* the whole node; closing a listener of h2 or http3 makes it do so.       *)
NeverCrashes == serve = "crashed" => K.tells = "nil"

(* A service that is not closed goes on accepting: an error that passes is *)
(* retried, but for one that has ended the loop of its listener; one that  *)
(* does not pass ends the loop as well.                                    *)
EndsOnlyWhenClosed == serve = "ended" => closed \/ lost

AllServed == closed \/ lost \/ \A x \in Streams : stream[x] # "queued"
Ended ==
    closed => \/ K.tells # "closed"
              \/ /\ serve = "ended"
                 /\ K.source # "device" => ~bound
                 /\ ~K.stays => \A x \in Streams : stream[x] # "queued"

(* As long as the listener is open and its loop runs, a connection in the  *)
(* queue is served, or refused, at last, also when others are silent.      *)
QueuedIsServed == []<>AllServed

(* A closed service ends: its accept loop returns, the address is free     *)
(* again, also when Close comes while a binding is being made, and no      *)
(* connection is left in the queue.  (Of wt the loop never ends, h2 and    *)
(* http3 crash; connections of those that stay hang.)                      *)
CloseEnds == <>[]Ended
=============================================================================
