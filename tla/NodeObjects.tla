---------------------------- MODULE NodeObjects -----------------------------
(***************************************************************************)
(* The objects a node's services refer to by name: chains, hops, limiters, *)
(* authers and the other kinds of x/registry.  As for services, there is   *)
(* a registry and a configuration.  The REST interface (x/api/config_*.go) *)
(* changes both, one request per goroutine; the master's commands          *)
(* (x/socket) do it for chains and limiters; POST /config/reload and       *)
(* SIGHUP replace the objects of every kind (x/config/loader).             *)
(*                                                                         *)
(* An object may keep something running, a reload loop, a file or a        *)
(* connection, until it is closed; unregistering it is what closes it.     *)
(***************************************************************************)
EXTENDS Naturals, Sequences, FiniteSets, SequencesExt

CONSTANTS
    Names,        \* the names an object can have
    Sockets,      \* executors of the master's commands
    Requests,     \* goroutines of the REST interface
    Reloaders,    \* executors of reloads
    Focus,        \* bound: sets of kinds looked at together
    MaxObjects,   \* bound: objects ever parsed
    MaxCommands,  \* bound: commands and reloads
    MaxFile       \* bound: objects of one kind in the file a reload reads

(* The kinds, in the order in which loader.register loads them.            *)
LoadOrder == <<"logger", "auther", "admission", "bypass", "resolver", "hosts",
               "ingress", "router", "sd", "observer", "recorder", "limiter",
               "climiter", "rlimiter", "hop", "chain">>
AllKinds == ToSet(LoadOrder)

ObjectsAssumption ==
    /\ Requests \cap Sockets = {}
    /\ Reloaders \cap (Requests \cup Sockets) = {}
    /\ \A play \in Focus : play \subseteq AllKinds
    /\ {MaxObjects, MaxCommands, MaxFile} \subseteq Nat

VARIABLES
    play,       \* the kinds looked at; nothing happens to the others
    registry,   \* kind -> name -> object, or 0
    config,     \* kind -> the descriptions of its objects, in order
    form,       \* object -> what parsing gave, and from which description
    running,    \* objects that keep something until they are closed
    job,        \* executor -> what it is doing
    commands,
    overlap,    \* history: two commands have been in progress at once
    aborted     \* history: a reload has given up half-way

vars == <<play, registry, config, form, running, job, commands, overlap, aborted>>

Executors == Sockets \cup Requests \cup Reloaders
Idle == [op |-> "none", pc |-> "idle", kind |-> "chain", number |-> 0, obj |-> 0,
         todo |-> <<>>]
Objects == DOMAIN form
Registered(k) == {n \in Names : registry[k][n] # 0}
AtRest == \A e \in Executors : job[e] = Idle

Init ==
    /\ play \in Focus
    /\ registry = [k \in AllKinds |-> [n \in Names |-> 0]]
    /\ config = [k \in AllKinds |-> <<>>]
    /\ form = <<>>
    /\ running = {}
    /\ job = [e \in Executors |-> Idle]
    /\ commands = 0
    /\ overlap = FALSE
    /\ aborted = FALSE

-----------------------------------------------------------------------------
(* What parsing an object of each kind can give:                           *)
(*   "error"   nothing, and the command fails                              *)
(*   "none"    a nil object, which is registered nevertheless              *)
(*   "plain"   an object without a Close                                   *)
(*   "closer"  an object that holds something until it is closed: a local  *)
(*             one with its reload loop, a gRPC plugin, a file             *)
(*   "keeper"  an object that holds such a thing and has no Close: a chain *)
(*             with hops of its own                                        *)

ParseLogger == {"none", "plain"}
ParseAuther == {"plain", "closer"}
ParseAdmission == {"plain", "closer"}
ParseBypass == {"plain", "closer"}
ParseResolver == {"error", "plain", "closer"}
ParseHosts == {"plain", "closer"}
ParseIngress == {"plain", "closer"}
ParseRouter == {"plain", "closer"}
ParseSD == {"none", "plain", "closer"}
ParseObserver == {"none", "plain", "closer"}
ParseRecorder == {"none", "plain", "closer"}
ParseTrafficLimiter == {"plain", "closer"}
ParseConnLimiter == {"closer"}
ParseRateLimiter == {"closer"}
ParseHop == {"error", "plain", "closer"}
ParseChain == {"error", "plain", "keeper"}

Parse(k) ==
    CASE k = "logger" -> ParseLogger       [] k = "auther" -> ParseAuther
      [] k = "admission" -> ParseAdmission [] k = "bypass" -> ParseBypass
      [] k = "resolver" -> ParseResolver   [] k = "hosts" -> ParseHosts
      [] k = "ingress" -> ParseIngress     [] k = "router" -> ParseRouter
      [] k = "sd" -> ParseSD               [] k = "observer" -> ParseObserver
      [] k = "recorder" -> ParseRecorder   [] k = "limiter" -> ParseTrafficLimiter
      [] k = "climiter" -> ParseConnLimiter [] k = "rlimiter" -> ParseRateLimiter
      [] k = "hop" -> ParseHop             [] k = "chain" -> ParseChain

(* A new object, parsed from a description: the i-th of command number c.  *)
Description(c, n, i) == [name |-> n, text |-> <<c, i>>]
NewObject == Len(form) + 1
Made(f, description) ==
    /\ form' = Append(form, [gave |-> f, text |-> description.text])
    /\ running' = IF f \in {"closer", "keeper"} THEN running \cup {NewObject} ELSE running
Closing(objects) == {x \in objects \ {0} : form[x].gave = "closer"}

-----------------------------------------------------------------------------
(* One command changes one object.  It looks its name up, parses, changes  *)
(* the registry, then the configuration.                                   *)

Begin(e, op, k, n) ==
    /\ job[e] = Idle
    /\ k \in play
    /\ commands < MaxCommands
    /\ job' = [job EXCEPT ![e] = 
                   [op |-> op, pc |-> "check", kind |-> k, number |-> commands + 1,
                    obj |-> 0, todo |-> <<Description(commands + 1, n, 1)>>]]
    /\ commands' = commands + 1
    /\ overlap' = (overlap \/ ~AtRest)
    /\ UNCHANGED <<play, registry, config, form, running, aborted>>

At(e, pc) == job[e].pc = pc
Kind(e) == job[e].kind
Described(e) == job[e].todo[1]
Name(e) == Described(e).name
GoTo(e, pc) == job' = [job EXCEPT ![e].pc = pc]
Finish(e) == job' = [job EXCEPT ![e] = Idle]

(* A create needs a free name, an update and a delete one that is taken.   *)
Refused(e) ==
    /\ At(e, "check")
    /\ (Name(e) \in Registered(Kind(e))) = (job[e].op = "create")
    /\ Finish(e)
    /\ UNCHANGED <<play, registry, config, form, running, commands, overlap, aborted>>

Accepted(e) ==
    /\ At(e, "check")
    /\ (Name(e) \in Registered(Kind(e))) # (job[e].op = "create")
    /\ IF job[e].op = "delete"
       THEN GoTo(e, "close") /\ UNCHANGED <<form, running>>
       ELSE /\ Len(form) < MaxObjects
            /\ \E f \in Parse(Kind(e)) :
                 IF f = "error"
                 THEN Finish(e) /\ UNCHANGED <<form, running>>
                 ELSE /\ Made(f, Described(e))
                      /\ job' = [job EXCEPT ![e].obj = NewObject,
                           ![e].pc = IF job[e].op = "create" THEN "register" ELSE "close"]
    /\ UNCHANGED <<play, registry, config, commands, overlap, aborted>>

(* Mutant: an object is removed and not closed.                            *)
UnregisterClose_Only(e) ==
    /\ At(e, "close")
    /\ GoTo(e, "delete")
    /\ UNCHANGED <<play, registry, config, form, running, commands, overlap, aborted>>

(* registry.Unregister: load and close, then delete whatever is there.     *)
UnregisterClose(e) ==
    LET old == registry[Kind(e)][Name(e)] IN
    /\ At(e, "close")
    /\ IF old # 0
       THEN running' = running \ Closing({old}) /\ GoTo(e, "delete")
       ELSE GoTo(e, IF job[e].op = "update" THEN "register" ELSE "config")
            /\ UNCHANGED running
    /\ UNCHANGED <<play, registry, config, form, commands, overlap, aborted>>

UnregisterDelete(e) ==
    /\ At(e, "delete")
    /\ registry' = [registry EXCEPT ![Kind(e)][Name(e)] = 0]
    /\ GoTo(e, IF job[e].op = "update" THEN "register" ELSE "config")
    /\ UNCHANGED <<play, config, form, running, commands, overlap, aborted>>

(* registry.Register; the object a refused one leaves behind is not closed.*)
Register(e) ==
    /\ At(e, "register")
    /\ IF Name(e) \in Registered(Kind(e))
       THEN Finish(e) /\ UNCHANGED registry
       ELSE /\ registry' = [registry EXCEPT ![Kind(e)][Name(e)] = job[e].obj]
            /\ GoTo(e, "config")
    /\ UNCHANGED <<play, config, form, running, commands, overlap, aborted>>

(* config.OnUpdate: append, replace the first of that name, or filter.     *)
NewConfig(e) ==
    LET old == config[Kind(e)]
        Other(c) == c.name # Name(e)
        IsFirst(i) == /\ old[i].name = Name(e)
                      /\ \A j \in 1..(i - 1) : Other(old[j])
    IN CASE job[e].op = "create" -> Append(old, Described(e))
         [] job[e].op = "update" ->
              [i \in DOMAIN old |-> IF IsFirst(i) THEN Described(e) ELSE old[i]]
         [] OTHER -> SelectSeq(old, Other)

OnUpdate(e) ==
    /\ At(e, "config")
    /\ config' = [config EXCEPT ![Kind(e)] = NewConfig(e)]
    /\ Finish(e)
    /\ UNCHANGED <<play, registry, form, running, commands, overlap, aborted>>

-----------------------------------------------------------------------------
(* The requests of the REST interface, kind by kind, and the master's.     *)
Request(e, k) ==
    \E n \in Names, op \in {"create", "update", "delete"} : Begin(e, op, k, n)

AdmissionRequest(e) == Request(e, "admission")
AutherRequest(e) == Request(e, "auther")
BypassRequest(e) == Request(e, "bypass")
ChainRequest(e) == Request(e, "chain")
ConnLimiterRequest(e) == Request(e, "climiter")
HopRequest(e) == Request(e, "hop")
HostsRequest(e) == Request(e, "hosts")
IngressRequest(e) == Request(e, "ingress")
LimiterRequest(e) == Request(e, "limiter")
ObserverRequest(e) == Request(e, "observer")
RateLimiterRequest(e) == Request(e, "rlimiter")
RecorderRequest(e) == Request(e, "recorder")
ResolverRequest(e) == Request(e, "resolver")
RouterRequest(e) == Request(e, "router")
SDRequest(e) == Request(e, "sd")

RestRequest(e) ==
    \/ AdmissionRequest(e) \/ AutherRequest(e) \/ BypassRequest(e) \/ ChainRequest(e)
    \/ ConnLimiterRequest(e) \/ HopRequest(e) \/ HostsRequest(e) \/ IngressRequest(e)
    \/ LimiterRequest(e) \/ ObserverRequest(e) \/ RateLimiterRequest(e)
    \/ RecorderRequest(e) \/ ResolverRequest(e) \/ RouterRequest(e) \/ SDRequest(e)

ChainCommand(e) == Request(e, "chain")
LimiterCommand(e) == Request(e, "limiter")

-----------------------------------------------------------------------------
(* A reload makes the file the configuration, then takes the kinds one     *)
(* after the other: unregister all objects, parse and register those of    *)
(* the file.  The first error leaves the rest as it was.                   *)

InOrder == SelectSeq(LoadOrder, LAMBDA k : k \in play)
File == [play -> BoundedSeq(Names, MaxFile)]

ReloadBegin(e) ==
    /\ job[e] = Idle
    /\ commands < MaxCommands
    /\ job' = [job EXCEPT ![e] = [Idle EXCEPT !.op = "reload", !.pc = "unload",
                                              !.kind = InOrder[1]]]
    /\ \E file \in File :
         config' = [k \in AllKinds |->
                      IF k \in play
                      THEN [i \in DOMAIN file[k] |->
                              Description(commands + 1, file[k][i], i)]
                      ELSE <<>>]
    /\ commands' = commands + 1
    /\ overlap' = (overlap \/ ~AtRest)
    /\ UNCHANGED <<play, registry, form, running, aborted>>

ReloadUnload(e) ==
    /\ At(e, "unload")
    /\ running' = running \ Closing({registry[Kind(e)][n] : n \in Names})
    /\ registry' = [registry EXCEPT ![Kind(e)] = [n \in Names |-> 0]]
    /\ job' = [job EXCEPT ![e].pc = "load", ![e].todo = config[Kind(e)]]
    /\ UNCHANGED <<play, config, form, commands, overlap, aborted>>

ReloadObject(e) ==
    /\ At(e, "load")
    /\ job[e].todo # <<>>
    /\ Len(form) < MaxObjects
    /\ \E f \in Parse(Kind(e)) :
         \/ /\ f = "error"
            /\ aborted' = TRUE
            /\ Finish(e)
            /\ UNCHANGED <<registry, form, running>>
         \/ /\ f # "error"
            /\ Made(f, Described(e))
            /\ IF Name(e) \in Registered(Kind(e))
               THEN /\ aborted' = TRUE
                    /\ Finish(e)
                    /\ UNCHANGED registry
               ELSE /\ registry' = [registry EXCEPT ![Kind(e)][Name(e)] = NewObject]
                    /\ job' = [job EXCEPT ![e].todo = Tail(@)]
                    /\ UNCHANGED aborted
    /\ UNCHANGED <<play, config, commands, overlap>>

ReloadKind(e) ==
    LET position == CHOOSE i \in DOMAIN InOrder : InOrder[i] = Kind(e) IN
    /\ At(e, "load")
    /\ job[e].todo = <<>>
    /\ job' = [job EXCEPT ![e] =
                 IF position = Len(InOrder) THEN Idle
                 ELSE [@ EXCEPT !.pc = "unload", !.kind = InOrder[position + 1]]]
    /\ UNCHANGED <<play, registry, config, form, running, commands, overlap, aborted>>

Step(e) ==
    \/ Refused(e) \/ Accepted(e) \/ UnregisterClose(e) \/ UnregisterDelete(e)
    \/ Register(e) \/ OnUpdate(e)
    \/ ReloadUnload(e) \/ ReloadObject(e) \/ ReloadKind(e)

Next ==
    \/ \E e \in Requests : RestRequest(e)
    \/ \E e \in Sockets : ChainCommand(e) \/ LimiterCommand(e)
    \/ \E e \in Reloaders : ReloadBegin(e)
    \/ \E e \in Executors : Step(e)

Spec == Init /\ [][Next]_vars

-----------------------------------------------------------------------------
Texts == (1..MaxCommands) \X (1..(MaxFile + 1))

TypeOK ==
    /\ play \in Focus
    /\ registry \in [AllKinds -> [Names -> 0..MaxObjects]]
    /\ \A k \in AllKinds : config[k] \in Seq([name : Names, text : Texts])
    /\ form \in Seq([gave : {"none", "plain", "closer", "keeper"}, text : Texts])
    /\ Len(form) <= MaxObjects
    /\ running \subseteq Objects
    /\ \A e \in Executors : job[e].kind \in AllKinds /\ job[e].obj \in 0..MaxObjects
    /\ commands \in 0..MaxCommands
    /\ {overlap, aborted} \subseteq BOOLEAN

Sound == AtRest /\ ~overlap /\ ~aborted

(* Between commands the configuration describes exactly the objects in     *)
(* use: under each name the object made from that very description,        *)
(* whatever commands have failed.                                          *)
InUse(k, n) == [name |-> n, text |-> form[registry[k][n]].text]
ConfigIsInUse ==
    Sound => \A k \in AllKinds :
        ToSet(config[k]) = {InUse(k, n) : n \in Registered(k)}

(* What an object keeps running is given up when the object is replaced:   *)
(* between commands only registered objects keep something, but for chains *)
(* with hops of their own, which nothing ever ends.                        *)
NothingLeaks ==
    Sound => \A x \in Closing(running) : \E k \in AllKinds, n \in Names : registry[k][n] = x
=============================================================================
