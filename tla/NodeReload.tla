----------------------------- MODULE NodeReload -----------------------------
(***************************************************************************)
(* The reload loop of a rule table, and the look-ups that go on meanwhile. *)
(* Every period the object reads its sources one after the other, makes a  *)
(* new table and installs it; a source that cannot be read counts as empty.*)
(* A look-up of a host holds the lock for one name at a time, others hold  *)
(* it throughout or copy a reference to a list.  Lists, the routes of a    *)
(* router and the nodes of a hop, are appended to the list of the          *)
(* configuration, and so use the room its array has left.                  *)
(***************************************************************************)
EXTENDS NodeRules

CONSTANTS
    Kinds,       \* the kinds of objects looked at
    Sources,     \* sequence of the sources, in the order they are read
    Closable,    \* the sources that closing the object closes
    Static,      \* the rules of the configuration
    Contents,    \* what a source can contain
    Unreadable,  \* not a content: the source cannot be read
    Rooms,       \* what an array may have left after the configured rules
    Lookups,     \* goroutines that look something up
    Probes,      \* hosts that are looked up in the tables
    MaxChanges   \* bound: changes of the sources

ReloadAssumption ==
    /\ Kinds \subseteq {"admission", "bypass", "hosts", "ingress", "auther", "router", "hop"}
    /\ Closable \subseteq ToSet(Sources)
    /\ Sources \in Seq(STRING)
    /\ {Static} \cup Contents \subseteq Seq(RuleRecords) /\ Unreadable \notin Contents
    /\ Probes \subseteq Seq(STRING) \ {<<>>}
    /\ Rooms \subseteq Nat
    /\ MaxChanges \in Nat

VARIABLES
    kind,      \* the kind of this object
    room,      \* elements its array has left after the configured rules
    content,   \* source -> what it contains now, or Unreadable
    table,     \* what is installed; a list is [own, len, items]
    spare,     \* the elements of the array after the configured rules
    reload,    \* the reload under way
    looping,   \* the reload loop runs
    closed,    \* Close has been called
    lookup,    \* goroutine -> its look-up
    changes,
    made       \* history: what the last reload made of the rules

vars == <<kind, room, content, table, spare, reload, looping, closed, lookup, changes,
          made>>

Lists == {"router", "hop"}
Hosted == {"hosts", "ingress"}
IsList == kind \in Lists
NoRule == [key |-> Plain(<<>>), val |-> Nothing]
NoReload == [pc |-> "idle", source |-> 1, loaded |-> <<>>, i |-> 1]
NoLookup == [pc |-> "idle", host |-> <<>>, i |-> 1, list |-> <<>>, seen |-> <<>>,
             torn |-> FALSE, valid |-> {}]

(* A list that fits into the room is in the shared array.                  *)
Fits(loaded) == room > 0 /\ Len(loaded) <= room
Items(list) ==
    IF list.own THEN list.items ELSE Static \o SubSeq(spare, 1, list.len)
Installed == IF IsList THEN Items(table) ELSE table

Readable(s) == content[s] # Unreadable
Loaded(s) == IF Readable(s) THEN content[s] ELSE <<>>

InitialLoad ==   \* from all sources, one after the other
    LET load[i \in 0..Len(Sources)] ==
            IF i = 0 THEN <<>> ELSE load[i - 1] \o Loaded(Sources[i])
    IN load[Len(Sources)]
NewTable(loaded) ==
    IF ~IsList THEN Reload(kind, Static, loaded)
    ELSE IF Fits(loaded) THEN [own |-> FALSE, len |-> Len(loaded), items |-> <<>>]
    ELSE [own |-> TRUE, len |-> 0, items |-> Reload(kind, Static, loaded)]

Init ==
    /\ kind \in Kinds
    /\ room \in IF kind \in Lists THEN Rooms ELSE {0}
    /\ content \in [ToSet(Sources) -> Contents \cup {Unreadable}]
    /\ spare = [i \in 1..room |-> IF i \in DOMAIN InitialLoad /\ Fits(InitialLoad)
                                  THEN InitialLoad[i] ELSE NoRule]
    /\ table = NewTable(InitialLoad)
    /\ reload = NoReload
    /\ looping = TRUE
    /\ closed = FALSE
    /\ lookup = [g \in Lookups |-> NoLookup]
    /\ changes = 0
    /\ made = Reload(kind, Static, InitialLoad)

-----------------------------------------------------------------------------
(* periodReload and reload.                                                *)
Tick ==
    /\ looping
    /\ reload.pc = "idle"
    /\ reload' = [NoReload EXCEPT !.pc = "load"]
    /\ UNCHANGED <<kind, room, content, table, spare, looping, closed, lookup, changes, made>>

LoadSource ==
    /\ reload.pc = "load"
    /\ reload.source <= Len(Sources)
    /\ reload' = [reload EXCEPT !.loaded = @ \o Loaded(Sources[reload.source]),
                                !.source = @ + 1]
    /\ UNCHANGED <<kind, room, content, table, spare, looping, closed, lookup, changes, made>>

(* append: element by element into the room, or a copy.                    *)
AppendInPlace ==
    LET i == reload.i IN
    /\ reload.pc = "load"
    /\ reload.source > Len(Sources)
    /\ IsList /\ Fits(reload.loaded)
    /\ i <= Len(reload.loaded)
    /\ spare' = [spare EXCEPT ![i] = reload.loaded[i]]
    /\ reload' = [reload EXCEPT !.i = i + 1]
    /\ lookup' = [g \in Lookups |->
                    IF lookup[g].pc = "read"
                    THEN [lookup[g] EXCEPT !.torn = @ \/ ~lookup[g].list.own]
                    ELSE lookup[g]]
    /\ UNCHANGED <<kind, room, content, table, looping, closed, changes, made>>

Install ==
    /\ reload.pc = "load"
    /\ reload.source > Len(Sources)
    /\ IsList /\ Fits(reload.loaded) => reload.i > Len(reload.loaded)
    /\ table' = NewTable(reload.loaded)
    /\ made' = Reload(kind, Static, reload.loaded)
    /\ reload' = NoReload
    /\ lookup' = [g \in Lookups |->
                    IF lookup[g].pc \in {"read", "names"}
                    THEN [lookup[g] EXCEPT !.valid = @ \cup {made'}]
                    ELSE lookup[g]]
    /\ UNCHANGED <<kind, room, content, spare, looping, closed, changes>>

(* Close stops the loop, when it looks, and closes the redis client.       *)
Close ==
    /\ ~closed
    /\ closed' = TRUE
    /\ content' = [s \in DOMAIN content |->
                     IF s \in Closable THEN Unreadable ELSE content[s]]
    /\ UNCHANGED <<kind, room, table, spare, reload, looping, lookup, changes, made>>

Stop ==
    /\ closed
    /\ looping
    /\ reload.pc = "idle"
    /\ looping' = FALSE
    /\ UNCHANGED <<kind, room, content, table, spare, reload, closed, lookup, changes, made>>

(* The sources belong to others.                                           *)
Change(s) ==
    /\ changes < MaxChanges
    /\ ~(closed /\ s \in Closable)
    /\ \E c \in (Contents \cup {Unreadable}) \ {content[s]} :
         content' = [content EXCEPT ![s] = c]
    /\ changes' = changes + 1
    /\ UNCHANGED <<kind, room, table, spare, reload, looping, closed, lookup, made>>

-----------------------------------------------------------------------------
(* A look-up in a matcher or among the users holds the lock; one of a host *)
(* takes it for each of the names of the host; one in a list walks through *)
(* what the reference it has copied shows, which is torn when a reload     *)
(* writes into the same array.                                             *)
LookupMap(g) ==
    /\ kind \notin Lists \cup Hosted
    /\ lookup[g].pc = "idle"
    /\ lookup' = [lookup EXCEPT ![g] = [NoLookup EXCEPT !.pc = "done", !.seen = table,
                                                       !.valid = {made}]]
    /\ UNCHANGED <<kind, room, content, table, spare, reload, looping, closed, changes, made>>

LookupHost(g) ==
    /\ kind \in Hosted
    /\ lookup[g].pc = "idle"
    /\ \E h \in Probes :
         lookup' = [lookup EXCEPT ![g] = [NoLookup EXCEPT !.pc = "names", !.host = h,
                                                         !.valid = {made}]]
    /\ UNCHANGED <<kind, room, content, table, spare, reload, looping, closed, changes, made>>

LookupName(g) ==
    LET look == lookup[g]
        names == Candidates(look.host) IN
    /\ look.pc = "names"
    /\ lookup' = [lookup EXCEPT ![g] =
                    IF look.i > Len(names) THEN [look EXCEPT !.pc = "done"]
                    ELSE IF names[look.i] \notin DOMAIN table THEN [look EXCEPT !.i = @ + 1]
                    ELSE [look EXCEPT !.pc = "done", !.seen = table[names[look.i]]]]
    /\ UNCHANGED <<kind, room, content, table, spare, reload, looping, closed, changes, made>>

LookupList(g) ==
    /\ IsList
    /\ lookup[g].pc = "idle"
    /\ lookup' = [lookup EXCEPT ![g] =
                    [NoLookup EXCEPT !.pc = "read", !.list = table, !.valid = {made},
                                     !.torn = ~table.own /\ reload.i > 1]]
    /\ UNCHANGED <<kind, room, content, table, spare, reload, looping, closed, changes, made>>

LookupNext(g) ==
    LET look == lookup[g]
        items == Items(look.list)
        i == Len(look.seen) + 1 IN
    /\ look.pc = "read"
    /\ lookup' = [lookup EXCEPT ![g] =
                    IF i <= Len(items) THEN [look EXCEPT !.seen = Append(@, items[i])]
                    ELSE [look EXCEPT !.pc = "done"]]
    /\ UNCHANGED <<kind, room, content, table, spare, reload, looping, closed, changes, made>>

LookupEnd(g) ==
    /\ lookup[g].pc = "done"
    /\ lookup' = [lookup EXCEPT ![g] = NoLookup]
    /\ UNCHANGED <<kind, room, content, table, spare, reload, looping, closed, changes, made>>

Reloading == LoadSource \/ AppendInPlace \/ Install
Next ==
    \/ Tick \/ Reloading \/ Close \/ Stop
    \/ \E s \in ToSet(Sources) : Change(s)
    \/ \E g \in Lookups : \/ LookupMap(g) \/ LookupHost(g) \/ LookupName(g)
                          \/ LookupList(g) \/ LookupNext(g) \/ LookupEnd(g)

(* The ticker ticks, reloads come to their end, and select is fair between *)
(* the ticker and the context.                                             *)
Fairness == WF_vars(Tick) /\ WF_vars(Reloading) /\ SF_vars(Stop)
Spec == Init /\ [][Next]_vars /\ Fairness

-----------------------------------------------------------------------------
TypeOK ==
    /\ kind \in Kinds
    /\ room \in Nat
    /\ content \in [ToSet(Sources) -> Contents \cup {Unreadable}]
    /\ IsList => table.own \in BOOLEAN /\ table.len \in 0..room
    /\ reload.pc \in {"idle", "load"}
    /\ reload.source \in 1..(Len(Sources) + 1)
    /\ \A g \in Lookups : lookup[g].pc \in {"idle", "names", "read", "done"}

(* A look-up that is done has seen what a reload had made, and what was    *)
(* installed at one time while it went on: all of a matcher; all of a list *)
(* unless it was torn; and of the tables of hosts, where a reload may come *)
(* between two names, the value of a name of the host in one of them, past *)
(* no name that all of them know.                                          *)
HostAnswer(look) ==
    LET names == Candidates(look.host) IN
    /\ look.i <= Len(names) =>
          \E t \in look.valid : names[look.i] \in DOMAIN t /\ look.seen = t[names[look.i]]
    /\ \A j \in 1..(look.i - 1) : \E t \in look.valid : names[j] \notin DOMAIN t

OneTable ==
    \A g \in Lookups :
        lookup[g].pc = "done" =>
            IF kind \in Hosted THEN HostAnswer(lookup[g])
            ELSE ~lookup[g].torn => lookup[g].seen \in lookup[g].valid

(* A host gets the value of the most specific rule that covers it: its own *)
(* before a domain with a dot, and the longer domain before the shorter.   *)
MostSpecificWins ==
    kind \in {"hosts", "ingress"} =>
        \A h \in Probes :
            /\ kind = "hosts" => HostLookup(table, h) = MostSpecific(table, h)
            /\ kind = "ingress" => IngressRule(table, h) = MostSpecific(table, h)

Current == closed \/ Installed = Reload(kind, Static, InitialLoad)
Stopped == closed => ~looping /\ reload.pc = "idle"

(* Once the sources rest, the table is what they contain, until the object *)
(* is closed; also when they could not be read for a while.                *)
Converges == <>[]Current

(* A closed object stops reading its sources.                              *)
CloseStops == <>[]Stopped
=============================================================================
