---------------------------- MODULE NodeServices ----------------------------
(***************************************************************************)
(* The services of one forwarding node (go-gost).  A service is a listener *)
(* bound to an address; the process keeps three views of the services:     *)
(*                                                                         *)
(*   registry   service name -> running service   (x/registry)             *)
(*   config     the list the process would save   (x/config)               *)
(*   file       gost.json, read when it starts    (x/socket/config.go)     *)
(*                                                                         *)
(* Commands change them: the master's, over the WebSocket (x/socket), and  *)
(* those of the node's own REST interface (x/api).  Every executor runs    *)
(* one command at a time; SIGHUP makes the process read the file again.    *)
(* A command is a job of several steps, so that jobs of different          *)
(* executors interleave, and one step of a job may fail.                   *)
(***************************************************************************)
EXTENDS Naturals, Sequences, FiniteSets, SequencesExt

CONSTANTS
    Names,        \* the names of the services
    Addrs,        \* the addresses a listener can be bound to
    NoAddr,       \* not an address: "not bound"
    Sockets,      \* executors of the master's commands
    Requests,     \* executors of the REST interface
    Signals,      \* the goroutine that handles SIGHUP
    Torn,         \* the contents of a file that is being written
    MaxBatch,     \* bound: services in one command
    MaxInst,      \* bound: services in memory at once
    MaxCommands,  \* bound: commands, reloads included
    MaxFaults,    \* bound: parse failures that have no cause in the model
    MaxCrashes    \* bound: crashes and stops of the process

ASSUME ServicesAssumption ==
    /\ NoAddr \notin Addrs
    /\ Sockets \cap Requests = {}
    /\ Signals \cap (Sockets \cup Requests) = {}
    /\ {MaxBatch, MaxInst} \subseteq Nat \ {0}
    /\ {MaxCommands, MaxFaults, MaxCrashes} \subseteq Nat

VARIABLES
    registry,   \* name -> the service registered under it, or 0
    bound,      \* service -> the address its listener holds, or NoAddr
    serving,    \* the services whose Serve loop runs
    config,     \* the configured services, in order
    file,       \* gost.json: a configuration, or Torn
    job,        \* executor -> the command it is executing
    up,         \* the process runs
    commands, failures, faults, crashes,
    overlap,    \* history: two commands have been in progress at once
    rest,       \* history: the REST interface has been used
    loaded      \* history: the services come from the file

nodeVars == <<registry, bound, serving, config, file, job, up>>
history == <<commands, failures, faults, crashes, overlap, rest, loaded>>
vars == <<nodeVars, history>>

Executors == Sockets \cup Requests \cup Signals
Ids == 1..MaxInst
Idle == [op |-> "none", pc |-> "idle", items |-> <<>>, i |-> 1, held |-> <<>>]
Item == [name : Names, addr : Addrs \cup {NoAddr}]
Entry == [name : Names, addr : Addrs, paused : BOOLEAN]

(* What a request can carry: one or more services with their addresses, or *)
(* one or more names.                                                      *)
Requested(addrs) ==
    UNION {[1..n -> [name : Names, addr : addrs]] : n \in 1..MaxBatch}

Registered == {n \in Names : registry[n] # 0}
Held == UNION {ToSet(job[e].held) : e \in Executors}
FreeIds == {id \in Ids : /\ bound[id] = NoAddr
                         /\ id \notin {registry[n] : n \in Names} \cup Held}
Fresh == CHOOSE id \in FreeIds : \A other \in FreeIds : id <= other
Taken(a) == \E id \in Ids : bound[id] = a
AtRest == up /\ \A e \in Executors : job[e] = Idle

EntriesOf(n) == {k \in DOMAIN config : config[k].name = n}
FirstOf(n) == CHOOSE k \in EntriesOf(n) : \A l \in EntriesOf(n) : k <= l
AddrOf(n) == IF EntriesOf(n) = {} THEN NoAddr ELSE config[FirstOf(n)].addr
IsPaused(n) == EntriesOf(n) # {} /\ config[FirstOf(n)].paused

(* The members of a sequence at some of its places, in order (SelectSeq, in *)
(* a form that can be reasoned about).                                     *)
Place(K, i) == CHOOSE k \in K : Cardinality({l \in K : l <= k}) = i
Only(s, K) == [i \in 1..Cardinality(K) |-> s[Place(K, i)]]

SetPaused(c, names, p) ==
    [k \in DOMAIN c |->
        IF c[k].name \in names /\ \A l \in 1..(k - 1) : c[l].name # c[k].name
        THEN [c[k] EXCEPT !.paused = p] ELSE c[k]]

Init ==
    /\ registry = [n \in Names |-> 0]
    /\ bound = [id \in Ids |-> NoAddr]
    /\ serving = {}
    /\ config = <<>>
    /\ file = <<>>
    /\ job = [e \in Executors |-> Idle]
    /\ up = TRUE
    /\ commands = 0 /\ failures = 0 /\ faults = 0 /\ crashes = 0
    /\ overlap = FALSE
    /\ rest = FALSE
    /\ loaded = FALSE

-----------------------------------------------------------------------------
(* A command starts, moves on to its next service or phase, and ends.  The *)
(* master's executor saves the configuration after every command, also     *)
(* after one that failed.                                                  *)

FirstPhase(op) ==
    CASE op = "create" -> "parse"
      [] op = "reload" -> "clear"
      [] OTHER -> "check"

Begin(e, op, items) ==
    /\ up
    /\ job[e] = Idle
    /\ commands < MaxCommands
    /\ job' = [job EXCEPT ![e] = [Idle EXCEPT !.op = op, !.items = items,
                                              !.pc = FirstPhase(op)]]
    /\ commands' = commands + 1
    /\ overlap' = (overlap \/ ~AtRest)
    /\ rest' = (rest \/ e \in Requests)
    /\ UNCHANGED <<registry, bound, serving, config, file, up, failures,
                   faults, crashes, loaded>>

At(e, op, pc) == job[e].op = op /\ job[e].pc = pc
Current(e) == job[e].items[job[e].i]
GoTo(e, pc) == job' = [job EXCEPT ![e].pc = pc]
Each(e, again, after) ==
    job' = [job EXCEPT ![e].i = IF @ < Len(job[e].items) THEN @ + 1 ELSE 1,
                       ![e].pc = IF job[e].i < Len(job[e].items)
                                 THEN again ELSE after]
(* Mutant: a pause is not saved.                                           *)
Ended_PauseUnsaved(e) == IF e \in Sockets /\ job[e].op # "pause"
                         THEN [Idle EXCEPT !.op = "save", !.pc = "create"] ELSE Idle

Ended(e) == IF e \in Sockets
            THEN [Idle EXCEPT !.op = "save", !.pc = "create"] ELSE Idle
Finish(e) == job' = [job EXCEPT ![e] = Ended(e)]

(* Mutant: Close returns while the listener still accepts.                 *)
Close_Lazily(ids) == UNCHANGED <<bound, serving>>

Close(ids) ==
    /\ bound' = [id \in Ids |-> IF id \in ids THEN NoAddr ELSE bound[id]]
    /\ serving' = serving \ ids

Stopped ==
    /\ up' = FALSE
    /\ registry' = [n \in Names |-> 0]
    /\ bound' = [id \in Ids |-> NoAddr]
    /\ serving' = {}
    /\ config' = <<>>
    /\ job' = [e \in Executors |-> Idle]
    /\ UNCHANGED <<file, commands, failures, faults, crashes, overlap, rest, loaded>>

(* old.Close() on a name that another command has removed meanwhile: a nil *)
(* interface.  The REST interface recovers, the master's executor does not.*)
Panic(e) ==
    IF e \in Sockets THEN Stopped
    ELSE /\ job' = [job EXCEPT ![e] = Idle]
         /\ UNCHANGED <<registry, bound, serving, config, file, up, history>>

-----------------------------------------------------------------------------
(* ParseService binds the listener.  It fails before that, because the     *)
(* address is taken, or after it, when the handler is refused: then the    *)
(* listener stays bound and nothing refers to it.                          *)

ParseOK(a) == FreeIds # {} /\ ~Taken(a)
Parsed(a) == bound' = [bound EXCEPT ![Fresh] = a]

ParseFails(a) ==
    \/ /\ Taken(a)
       /\ failures' = 1
       /\ UNCHANGED <<bound, faults>>
    \/ /\ faults < MaxFaults
       /\ faults' = faults + 1
       /\ failures' = 1
       /\ \/ UNCHANGED bound
          \/ ParseOK(a) /\ Parsed(a)

(* createServices: parse every service, register every one, serve them,    *)
(* then append them to the configuration.  A batch that fails in the first *)
(* phase leaves the listeners of its earlier services bound; one that      *)
(* fails in the second unregisters what it has registered.                 *)
CreateParse(e) ==
    LET s == Current(e) IN
    /\ At(e, "create", "parse")
    /\ \/ /\ s.name \in Registered
          /\ Finish(e)
          /\ UNCHANGED <<bound, failures, faults>>
       \/ /\ s.name \notin Registered
          /\ ParseFails(s.addr)
          /\ Finish(e)
       \/ /\ s.name \notin Registered
          /\ ParseOK(s.addr)
          /\ Parsed(s.addr)
          /\ LET k == job[e].i IN
             job' = [job EXCEPT ![e].held = Append(@, Fresh),
                                ![e].i = IF k < Len(job[e].items) THEN k + 1 ELSE 1,
                                ![e].pc = IF k < Len(job[e].items)
                                          THEN "parse" ELSE "register"]
          /\ UNCHANGED <<failures, faults>>
    /\ UNCHANGED <<registry, serving, config, file, up, commands, crashes,
                   overlap, rest, loaded>>

(* A single REST request closes the service it could not register; a batch *)
(* does not.                                                               *)
CreateRegister(e) ==
    LET s == Current(e)
        k == job[e].i
        mine == {job[e].items[l].name : l \in 1..(k - 1)} IN
    /\ At(e, "create", "register")
    /\ \/ /\ s.name \in Registered
          /\ registry' = [n \in Names |-> IF n \in mine THEN 0 ELSE registry[n]]
          /\ Close({registry[n] : n \in mine}
                   \cup (IF e \in Requests /\ Len(job[e].items) = 1
                         THEN {job[e].held[k]} ELSE {}))
          /\ Finish(e)
       \/ /\ s.name \notin Registered
          /\ registry' = [registry EXCEPT ![s.name] = job[e].held[k]]
          /\ Each(e, "register", "serve")
          /\ UNCHANGED <<bound, serving>>
    /\ UNCHANGED <<config, file, up, history>>

(* The service served is the one registered now, whoever registered it.    *)
CreateServe(e) ==
    LET started == {registry[s.name] : s \in ToSet(job[e].items)} IN
    /\ At(e, "create", "serve")
    /\ serving' = serving \cup {id \in started \ {0} : bound[id] # NoAddr}
    /\ GoTo(e, "config")
    /\ UNCHANGED <<registry, bound, config, file, up, history>>

CreateConfig(e) ==
    LET new == [k \in DOMAIN job[e].items |->
                   [name |-> job[e].items[k].name, addr |-> job[e].items[k].addr,
                    paused |-> FALSE]] IN
    /\ At(e, "create", "config")
    /\ config' = config \o new
    /\ Finish(e)
    /\ UNCHANGED <<registry, bound, serving, file, up, history>>

-----------------------------------------------------------------------------
(* The first phase of the other commands only reads: all the services must *)
(* be registered.  A resume needs their configurations and drops the       *)
(* services that are not paused; a REST pause drops those that are.        *)

Selected(e) ==
    LET Chosen(s) == CASE job[e].op = "resume" -> IsPaused(s.name)
                       [] job[e].op = "pause" -> e \in Sockets \/ ~IsPaused(s.name)
                       [] OTHER -> TRUE
        items == job[e].items
    IN Only(items, {k \in DOMAIN items : Chosen(items[k])})

AfterCheck(op) ==
    CASE op = "delete" -> "unload" [] op = "pause" -> "stop" [] OTHER -> "close"

(* Mutant: one service that exists is enough.                              *)
AllFound_One(e) == \E s \in ToSet(job[e].items) : s.name \in Registered

AllFound(e) ==
    \A s \in ToSet(job[e].items) :
        /\ s.name \in Registered
        /\ job[e].op = "resume" => EntriesOf(s.name) # {}

Check(e) ==
    LET op == job[e].op
        sel == Selected(e) IN
    /\ job[e].pc = "check"
    /\ IF AllFound(e)
       THEN job' = [job EXCEPT ![e] =
              [op |-> op, i |-> 1,
               pc |-> IF sel = <<>> THEN "config" ELSE AfterCheck(op),
               items |-> [k \in DOMAIN sel |->
                             IF op = "update" THEN sel[k]
                             ELSE [sel[k] EXCEPT !.addr = AddrOf(sel[k].name)]],
               held |-> [k \in DOMAIN sel |-> registry[sel[k].name]]]]
       ELSE Finish(e)
    /\ UNCHANGED <<registry, bound, serving, config, file, up, history>>

(* updateServices and resumeServices replace one service after the other:  *)
(* close the old one, unregister it, parse the new configuration, register *)
(* and serve it.  An update looks the old service up again, a resume uses  *)
(* the one it found.                                                       *)
CloseOld(e) ==
    LET old == IF job[e].op = "update" THEN registry[Current(e).name]
               ELSE job[e].held[job[e].i] IN
    /\ job[e].pc = "close"
    /\ IF old = 0 THEN Panic(e)
       ELSE /\ Close({old})
            /\ GoTo(e, "unload")
            /\ UNCHANGED <<registry, config, file, up, history>>

(* registry.Unregister: load, close, delete; whatever is there by the time *)
(* of the delete goes.                                                     *)
Unload(e) ==
    LET n == Current(e).name IN
    /\ job[e].pc = "unload"
    /\ IF n \in Registered
       THEN Close({registry[n]}) /\ GoTo(e, "forget")
       ELSE GoTo(e, IF job[e].op = "delete" THEN "closeFound" ELSE "renew")
            /\ UNCHANGED <<bound, serving>>
    /\ UNCHANGED <<registry, config, file, up, history>>

Forget(e) ==
    /\ job[e].pc = "forget"
    /\ registry' = [registry EXCEPT ![Current(e).name] = 0]
    /\ GoTo(e, IF job[e].op = "delete" THEN "closeFound" ELSE "renew")
    /\ UNCHANGED <<bound, serving, config, file, up, history>>

Renew(e) ==
    LET s == Current(e) IN
    /\ job[e].pc = "renew"
    /\ \/ /\ ParseFails(s.addr)
          /\ IF job[e].op = "resume" THEN GoTo(e, "undo") ELSE Finish(e)
       \/ /\ ParseOK(s.addr)
          /\ Parsed(s.addr)
          /\ job' = [job EXCEPT ![e].pc = "reregister",
                                ![e].held[job[e].i] = Fresh]
          /\ UNCHANGED <<failures, faults>>
    /\ UNCHANGED <<registry, serving, config, file, up, commands, crashes,
                   overlap, rest, loaded>>

Reregister(e) ==
    LET n == Current(e).name
        new == job[e].held[job[e].i] IN
    /\ job[e].pc = "reregister"
    /\ \/ /\ n \in Registered
          /\ Close({new})
          /\ IF job[e].op = "resume" THEN GoTo(e, "undo") ELSE Finish(e)
          /\ UNCHANGED registry
       \/ /\ n \notin Registered
          /\ registry' = [registry EXCEPT ![n] = new]
          /\ serving' = serving \cup {new}
          /\ Each(e, "close", "config")
          /\ UNCHANGED bound
    /\ UNCHANGED <<config, file, up, history>>

(* deleteServices closes the service it found in its first phase.          *)
DeleteClose(e) ==
    /\ job[e].pc = "closeFound"
    /\ Close({job[e].held[job[e].i]})
    /\ Each(e, "unload", "config")
    /\ UNCHANGED <<registry, config, file, up, history>>

(* Mutant: the master's pause, too, only cuts the connections.             *)
PauseStop_CutsOnly(e) ==
    /\ At(e, "pause", "stop")
    /\ Each(e, "stop", "config")
    /\ UNCHANGED <<registry, bound, serving, config, file, up, history>>

(* pauseServices: the master's command closes the service and cuts the     *)
(* connections of its port; a REST request only cuts the connections.  The *)
(* service stays registered.                                               *)
PauseStop(e) ==
    /\ At(e, "pause", "stop")
    /\ IF Current(e).addr = NoAddr
       THEN GoTo(e, "undo") /\ UNCHANGED <<bound, serving>>
       ELSE /\ IF e \in Sockets THEN Close({job[e].held[job[e].i]})
               ELSE UNCHANGED <<bound, serving>>
            /\ Each(e, "stop", "config")
    /\ UNCHANGED <<registry, config, file, up, history>>

(* The roll-backs.  A service that was being paused is parsed and          *)
(* registered again, which fails while it is still registered; a service   *)
(* that was being resumed is closed and marked as paused.                  *)
Done(e) == {job[e].items[k] : k \in 1..(job[e].i - 1)}

UndoPause(e) ==
    /\ At(e, "pause", "undo")
    /\ \/ /\ \A s \in Done(e) : s.name \in Registered
          /\ UNCHANGED <<registry, bound, serving, config>>
       \/ \E s \in Done(e) :
            /\ s.name \notin Registered
            /\ ParseOK(s.addr)
            /\ Parsed(s.addr)
            /\ registry' = [registry EXCEPT ![s.name] = Fresh]
            /\ serving' = serving \cup {Fresh}
            /\ config' = SetPaused(config, {s.name}, FALSE)
    /\ Finish(e)
    /\ UNCHANGED <<file, up, history>>

UndoResume(e) ==
    LET names == {s.name : s \in Done(e)} IN
    /\ At(e, "resume", "undo")
    /\ Close({registry[n] : n \in names})
    /\ config' = SetPaused(config, names, TRUE)
    /\ Finish(e)
    /\ UNCHANGED <<registry, file, up, history>>

(* Mutant: a delete leaves the entry of a service it found paused.         *)
NewConfig_KeepsPaused(e) ==
    LET names == {s.name : s \in ToSet(job[e].items)} IN
    CASE job[e].op = "delete" ->
              Only(config, {k \in DOMAIN config : config[k].name \notin names \/ config[k].paused})
      [] OTHER -> SetPaused(config, names, job[e].op = "pause")

(* The last phase rewrites the configuration under its lock.               *)
NewConfig(e) ==
    LET items == job[e].items
        names == {s.name : s \in ToSet(items)}
        Latest(n) == CHOOSE k \in DOMAIN items :
                      items[k].name = n /\ \A l \in DOMAIN items :
                                              items[l].name = n => l <= k
    IN CASE job[e].op = "update" ->
              [k \in DOMAIN config |->
                 IF config[k].name \in names /\ k = FirstOf(config[k].name)
                 THEN [name |-> config[k].name, paused |-> FALSE,
                       addr |-> items[Latest(config[k].name)].addr]
                 ELSE config[k]]
         [] job[e].op = "delete" ->
              Only(config, {k \in DOMAIN config : config[k].name \notin names})
         [] OTHER -> SetPaused(config, names, job[e].op = "pause")

Configure(e) ==
    /\ job[e].pc = "config"
    /\ job[e].op \in {"update", "delete", "pause", "resume"}
    /\ config' = NewConfig(e)
    /\ Finish(e)
    /\ UNCHANGED <<registry, bound, serving, file, up, history>>

-----------------------------------------------------------------------------
(* saveConfig truncates the file, then writes what the configuration is by *)
(* then.  Two of them may overlap: the later write starts at the beginning *)
(* of what the earlier one has left.                                       *)

SaveCreate(e) ==
    /\ At(e, "save", "create")
    /\ file' = Torn
    /\ GoTo(e, "write")
    /\ UNCHANGED <<registry, bound, serving, config, up, history>>

SaveWrite(e) ==
    /\ At(e, "save", "write")
    /\ \/ file' = config
       \/ file # Torn /\ file # config /\ file' = Torn
    /\ job' = [job EXCEPT ![e] = Idle]
    /\ UNCHANGED <<registry, bound, serving, config, up, history>>

(* SIGHUP: the file replaces the configuration, every service is           *)
(* unregistered, then the services of the file are parsed and registered   *)
(* one by one and served at the end.  An error leaves the rest undone.     *)
ReloadClear(e) ==
    /\ At(e, "reload", "clear")
    /\ IF file = Torn
       THEN Finish(e) /\ UNCHANGED <<registry, bound, serving, config, loaded>>
       ELSE /\ config' = file
            /\ registry' = [n \in Names |-> 0]
            /\ Close({registry[n] : n \in Names})
            /\ loaded' = TRUE
            /\ job' = [job EXCEPT ![e].pc = "load",
                         ![e].items = [k \in DOMAIN file |->
                            [name |-> file[k].name, addr |-> file[k].addr]]]
    /\ UNCHANGED <<file, up, commands, failures, faults, crashes, overlap, rest>>

ReloadService(e) ==
    LET k == job[e].i IN
    /\ At(e, "reload", "load")
    /\ \/ /\ k <= Len(job[e].items)
          /\ \/ ParseFails(Current(e).addr) /\ UNCHANGED registry
             \/ /\ ParseOK(Current(e).addr)
                /\ Parsed(Current(e).addr)
                /\ Current(e).name \in Registered
                /\ failures' = 1
                /\ UNCHANGED <<registry, faults>>
          /\ Finish(e)
          /\ UNCHANGED serving
       \/ /\ k <= Len(job[e].items)
          /\ Current(e).name \notin Registered
          /\ ParseOK(Current(e).addr)
          /\ Parsed(Current(e).addr)
          /\ registry' = [registry EXCEPT ![Current(e).name] = Fresh]
          /\ job' = [job EXCEPT ![e].i = k + 1]
          /\ UNCHANGED <<serving, failures, faults>>
       \/ /\ k > Len(job[e].items)
          /\ serving' = serving \cup {registry[n] : n \in
                           {m \in Registered : bound[registry[m]] # NoAddr}}
          /\ Finish(e)
          /\ UNCHANGED <<registry, bound, failures, faults>>
    /\ UNCHANGED <<config, file, up, commands, crashes, overlap, rest, loaded>>

(* The process stops at any moment; the service manager starts it again,   *)
(* and again while the file cannot be read or loaded.                      *)
Crash ==
    /\ up
    /\ crashes < MaxCrashes
    /\ up' = FALSE
    /\ registry' = [n \in Names |-> 0]
    /\ bound' = [id \in Ids |-> NoAddr]
    /\ serving' = {}
    /\ config' = <<>>
    /\ job' = [e \in Executors |-> Idle]
    /\ crashes' = crashes + 1
    /\ UNCHANGED <<file, commands, failures, faults, overlap, rest, loaded>>

Loadable(c) ==
    /\ c # Torn
    /\ \A k, l \in DOMAIN c :
          k # l => c[k].name # c[l].name /\ c[k].addr # c[l].addr

Boot ==
    /\ ~up
    /\ Loadable(file)
    /\ Len(file) <= MaxInst
    /\ up' = TRUE
    /\ config' = file
    /\ registry' = [n \in Names |->
                      IF \E k \in DOMAIN file : file[k].name = n
                      THEN CHOOSE k \in DOMAIN file : file[k].name = n ELSE 0]
    /\ bound' = [id \in Ids |-> IF id \in DOMAIN file THEN file[id].addr ELSE NoAddr]
    /\ serving' = DOMAIN file
    /\ loaded' = TRUE
    /\ overlap' = FALSE
    /\ failures' = 0
    /\ UNCHANGED <<file, job, commands, faults, crashes, rest>>

(* The run-time closes a stream listener nothing refers to any more.       *)
Collect(id) ==
    /\ bound[id] # NoAddr
    /\ id \notin serving \cup Held \cup {registry[n] : n \in Names}
    /\ Close({id})
    /\ UNCHANGED <<registry, config, file, job, up, history>>

-----------------------------------------------------------------------------
(* The master's commands, one per message of the WebSocket.                *)
MasterCommand(e) ==
    \/ \E items \in Requested(Addrs), op \in {"create", "update"} : Begin(e, op, items)
    \/ \E items \in Requested({NoAddr}), op \in {"delete", "pause", "resume"} :
          Begin(e, op, items)

(* The requests of the REST interface, for one service or for a batch.     *)
Single(addrs) == {items \in Requested(addrs) : Len(items) = 1}
CreateOne(e) == \E items \in Single(Addrs) : Begin(e, "create", items)
CreateBatch(e) == \E items \in Requested(Addrs) : Begin(e, "create", items)
UpdateOne(e) == \E items \in Single(Addrs) : Begin(e, "update", items)
UpdateBatch(e) == \E items \in Requested(Addrs) : Begin(e, "update", items)
DeleteOne(e) == \E items \in Single({NoAddr}) : Begin(e, "delete", items)
DeleteBatch(e) == \E items \in Requested({NoAddr}) : Begin(e, "delete", items)
PauseOne(e) == \E items \in Single({NoAddr}) : Begin(e, "pause", items)
PauseBatch(e) == \E items \in Requested({NoAddr}) : Begin(e, "pause", items)
ResumeOne(e) == \E items \in Single({NoAddr}) : Begin(e, "resume", items)
ResumeBatch(e) == \E items \in Requested({NoAddr}) : Begin(e, "resume", items)

RestCommand(e) ==
    \/ CreateOne(e) \/ UpdateOne(e) \/ DeleteOne(e) \/ PauseOne(e) \/ ResumeOne(e)
    \/ CreateBatch(e) \/ UpdateBatch(e) \/ DeleteBatch(e) \/ PauseBatch(e)
    \/ ResumeBatch(e)

Reload(e) == Begin(e, "reload", <<>>)

Step(e) ==
    \/ CreateParse(e) \/ CreateRegister(e) \/ CreateServe(e) \/ CreateConfig(e)
    \/ Check(e) \/ CloseOld(e) \/ Unload(e) \/ Forget(e) \/ Renew(e) \/ Reregister(e)
    \/ DeleteClose(e) \/ PauseStop(e) \/ UndoPause(e) \/ UndoResume(e) \/ Configure(e)
    \/ SaveCreate(e) \/ SaveWrite(e) \/ ReloadClear(e) \/ ReloadService(e)

Next ==
    \/ \E e \in Sockets : MasterCommand(e)
    \/ \E e \in Requests : RestCommand(e)
    \/ \E e \in Signals : Reload(e)
    \/ \E e \in Executors : Step(e)
    \/ Crash \/ Boot
    \/ \E id \in Ids : Collect(id)

Spec == Init /\ [][Next]_vars

-----------------------------------------------------------------------------
TypeOK ==
    /\ registry \in [Names -> Ids \cup {0}]
    /\ bound \in [Ids -> Addrs \cup {NoAddr}]
    /\ serving \subseteq Ids
    /\ config \in Seq(Entry)
    /\ file = Torn \/ file \in Seq(Entry)
    /\ \A e \in Executors : job[e].items \in Seq(Item) /\ job[e].held \in Seq(Ids)
    /\ {up, overlap, rest, loaded} \subseteq BOOLEAN
    /\ {commands, failures, faults, crashes} \subseteq Nat

(* A listener that accepts connections can be stopped: as long as commands *)
(* do not overlap, it belongs to the service registered under some name,   *)
(* also half-way through a command, after failures and after restarts.     *)
Stoppable ==
    ~overlap => \A id \in serving : \E n \in Names : registry[n] = id

(* Between commands, every registered service has an entry in the          *)
(* configuration, so that it can be paused and survives a restart; without *)
(* a parse failure the entries are the registered services, once each.     *)
ConfigMatchesRegistry ==
    ~overlap /\ AtRest =>
       /\ \A n \in Registered : EntriesOf(n) # {}
       /\ failures = 0 => \A n \in Names :
            Cardinality(EntriesOf(n)) = IF n \in Registered THEN 1 ELSE 0

(* Between commands of the master, a service is bound exactly when its     *)
(* configuration does not say paused (until the file is loaded: loading    *)
(* starts paused services too).                                            *)
PausedIsClosed ==
    ~overlap /\ AtRest /\ failures = 0 /\ ~rest /\ ~loaded =>
       \A n \in Registered :
          (registry[n] \in serving /\ bound[registry[n]] = AddrOf(n)) <=> ~IsPaused(n)

(* Between commands of the master, the file is the configuration, so a     *)
(* crash loses nothing.                                                    *)
FileIsConfig == ~overlap /\ AtRest /\ ~rest => file = config

(* What the documentation of the REST interface says of a pause: "the      *)
(* service will be stopped but configuration remains".  A REST pause cuts  *)
(* the connections of the moment and leaves the listener open.             *)
PausedIsStopped ==
    ~overlap /\ AtRest /\ ~loaded =>
       \A n \in Registered : IsPaused(n) => registry[n] \notin serving
=============================================================================
