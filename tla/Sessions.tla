------------------------------ MODULE Sessions ------------------------------
(***************************************************************************)
(* Browser sessions: their tokens (api/deps.py, routes/auth.py,            *)
(* refresh_token_revocation.py), the keys Entra tokens are checked with    *)
(* (azure_ad_jwks.py), and the feed of the tenant's events a web socket    *)
(* streams (case_events.py, pubsub.py, routes/ws.py) while handlers store  *)
(* records and readers cache their intents (case_intents_cache.py).        *)
(*                                                                         *)
(* A handler does not yield to its event loop: while it runs its process   *)
(* answers nobody, but the other processes go on.  With Redis they share   *)
(* the channel and its replay buffer; without it there is one process.     *)
(* Each keeps its revocations, intents and keys to itself.                 *)
(***************************************************************************)
EXTENDS Naturals, SequencesExt

CONSTANTS
  Processes, Home,    \* Home is the one process when there is no Redis
  Tenants, Clients,
  Org,                \* [Clients -> Tenants]: the org claim of the user
  Settings,           \* deployments to explore, each with its bounds: the [tenant, closing]
                      \* records arrive with and their number, the clock, faults
  AccessTtl, RefreshTtl,
  Window,             \* _REPLAY_BUFFER_SECONDS
  Recent,             \* get_recent's limit
  KeyTtl,             \* seconds a fetched key set is kept
  MaxKeys             \* bound: keys of the identity provider

ASSUME SessionsAssumption ==
  /\ Home \in Processes /\ IsFiniteSet(Processes) /\ "redis" \notin Processes
  /\ Org \in [Clients -> Tenants]
  /\ \A s \in Settings :
       /\ s.mode \in {"redis", "memory", "tokens", "entra"} /\ s.arrivals # {}
       /\ s.arrivals \subseteq [tenant : Tenants, closing : BOOLEAN]
       /\ {s.changes, s.time, s.faults} \subseteq Nat
  /\ {AccessTtl, RefreshTtl, Window, Recent, KeyTtl, MaxKeys} \subseteq Nat

VARIABLES
  setting,    \* "redis" or "memory" for the feed; "tokens" renews its own, "entra" checks Entra's
  clock,
  handler,    \* [Processes -> the handler that runs: step, change, tenant, closing, pending]
  changes,    \* number of changes begun
  children,   \* the stored records: [change, tenant, by, closing]
  intents,    \* [Processes -> [Tenants -> cached set of changes, or {0} for none]]
  published,  \* history: the events published: [change, kind, tenant, at]
  buffer,     \* [Processes \cup {"redis"} -> sequence of [event, at]]
  socket,     \* [Clients -> state of the connection]
  got, last,  \* per client: the events received, the time it reconnects from (at first its start)
  lost,       \* history: per client, the events dropped on an occasion named below
  tokens,     \* [Clients -> [access, refresh : expiry, jti]]
  jtis, revoked, exchanged, twice,   \* issued; per process life; history
  keys, retired, jwks, age,          \* the provider's current key, ends of keys; caches; history
  faults

feed == <<handler, changes, children, intents, published, buffer, socket, got, last, lost>>
auth == <<tokens, jtis, revoked, exchanged, twice>>
entra == <<keys, retired, jwks, age>>
vars == <<setting, clock, feed, auth, entra, faults>>

mode == setting.mode
Running == IF mode = "memory" THEN {Home} ELSE Processes
Store(p) == IF mode = "memory" THEN p ELSE "redis"
Idle == [step |-> "idle", change |-> 0, tenant |-> "none", closing |-> FALSE, pending |-> {}]
Down == [at |-> "down", proc |-> Home, queue |-> <<>>, seen |-> 0, shrunk |-> FALSE]
FeedRuns == mode \in {"redis", "memory"}
Answers(p) == p \in Running /\ handler[p].step = "idle"
Fault == faults < setting.faults /\ faults' = faults + 1
NoFault == UNCHANGED faults

-----------------------------------------------------------------------------
Own(c, events) == {e \in events : e.tenant = Org[c]}

(* The entries that are in a set, in their order. *)
Those(entries, set) ==
  LET kept[n \in 0..Len(entries)] ==
        IF n = 0 THEN <<>>
        ELSE IF entries[n] \in set THEN Append(kept[n - 1], entries[n]) ELSE kept[n - 1]
  IN  kept[Len(entries)]

(* The channel of a tenant. *)
InChannel(tenant, event) == event.tenant = tenant
Channel(entries, tenant) == Those(entries, {x \in ToSet(entries) : InChannel(tenant, x.event)})

(* Entries older than the window are trimmed when another is added. *)
Expired(x)  == x.at + Window < clock
Added(entries, event) ==
  Append(Those(entries, {x \in ToSet(entries) : ~Expired(x)}), [event |-> event, at |-> clock])
Trimmed(entries, c) == {x.event : x \in {y \in ToSet(Channel(entries, Org[c])) : y.at + Window < clock}}

(* publish, with Redis to the subscribers first; h is the handler after it. *)
Post(p, h, event) ==
  /\ published' = published \cup {event}
  /\ \/ /\ mode = "memory" /\ NoFault
        /\ buffer' = [buffer EXCEPT ![p] = Added(@, event)]
        /\ lost' = [c \in Clients |->
             IF socket[c].at = "down" THEN lost[c] \cup (Trimmed(buffer[p], c) \ got[c]) ELSE lost[c]]
        /\ socket' = [c \in Clients |-> [socket[c] EXCEPT !.shrunk =
             @ \/ Trimmed(buffer[p], c) # {} \/ Len(Channel(buffer[p], Org[c])) >= Recent]]
        /\ handler' = [handler EXCEPT ![p] = h]
     \/ /\ mode = "redis" /\ NoFault
        /\ socket' = [c \in Clients |->
             IF socket[c].at = "live" /\ InChannel(Org[c], event)
             THEN [socket[c] EXCEPT !.queue = Append(@, event)] ELSE socket[c]]
        /\ lost' = [c \in Clients |->                       \* not subscribed yet
             IF socket[c].at = "opened" THEN lost[c] \cup Own(c, {event}) ELSE lost[c]]
        /\ handler' = [handler EXCEPT ![p] = [h EXCEPT !.pending = {event}]]
        /\ UNCHANGED buffer
     \/ /\ mode = "redis" /\ Fault                          \* logged, and not kept either
        /\ lost' = [c \in Clients |-> lost[c] \cup Own(c, {event})]
        /\ handler' = [handler EXCEPT ![p] = h]
        /\ UNCHANGED <<buffer, socket>>

Event(h, kind) == [change |-> h.change, kind |-> kind, tenant |-> h.tenant, at |-> clock]

(* materialise_for_event: the case's event, before the record is stored. *)
Attach(p) ==
  /\ Answers(p) /\ FeedRuns /\ changes < setting.changes
  /\ changes' = changes + 1
  /\ \E a \in setting.arrivals :
       LET h == [step |-> "case", change |-> changes + 1, tenant |-> a.tenant,
                 closing |-> a.closing, pending |-> {}]
       IN  Post(p, h, Event(h, "case"))
  /\ UNCHANGED <<setting, clock, children, intents, got, last, auth, entra>>

(* After the case's event its cached intents are dropped, but not when the *)
(* event was a close; mutant: only when it was the first.                  *)
DropsFirst(h) == ~\E r \in children : r.tenant = h.tenant
Drops(h) == ~h.closing

(* What follows the events. *)
Following(step) == IF step = "case" THEN "store" ELSE "idle"

(* The event is added to the replay buffer. *)
Keep(p) ==
  LET h == handler[p]
      h2 == IF h.step = "done" THEN Idle ELSE [h EXCEPT !.step = Following(@), !.pending = {}]
  IN  /\ h.step \in {"case", "done"}
      /\ handler' = [handler EXCEPT ![p] = h2]
      /\ intents' = IF h.step = "case" /\ Drops(h)
                    THEN [intents EXCEPT ![p][h.tenant] = {0}] ELSE intents
      /\ IF h.pending = {} THEN UNCHANGED <<buffer, lost>> /\ NoFault
         ELSE \E e \in h.pending :
           \/ /\ buffer' = [buffer EXCEPT !["redis"] = Added(@, e)]
              /\ lost' = [c \in Clients |->
                   IF socket[c].at = "down" THEN lost[c] \cup (Trimmed(buffer["redis"], c) \ got[c])
                   ELSE lost[c]]
              /\ NoFault
           \/ Fault /\ lost' = [c \in Clients |-> lost[c] \cup Own(c, {e})] /\ UNCHANGED buffer
      /\ UNCHANGED <<setting, clock, changes, children, published, socket, got, last, auth, entra>>

StoreRecord(p) ==
  LET h == handler[p]
  IN  /\ h.step = "store"
      /\ children' = children \cup
           {[change |-> h.change, tenant |-> h.tenant, by |-> p, closing |-> h.closing]}
      /\ handler' = [handler EXCEPT ![p].step = "announce"]
      /\ UNCHANGED <<setting, clock, changes, intents, published, buffer, socket, got, last, lost,
                     auth, entra, faults>>

(* _publish_task_complete. *)
Announce(p) ==
  /\ handler[p].step = "announce"
  /\ Post(p, [handler[p] EXCEPT !.step = "done"], Event(handler[p], "done"))
  /\ UNCHANGED <<setting, clock, changes, children, intents, got, last, auth, entra>>

(* intents_for: a miss reads the store; an entry never expires. *)
Derived(t) == {r.change : r \in {q \in children : q.tenant = t}}
ReadIntents(p, t) ==
  /\ Answers(p) /\ FeedRuns /\ intents[p][t] = {0}
  /\ intents' = [intents EXCEPT ![p][t] = Derived(t)]
  /\ UNCHANGED <<setting, clock, handler, changes, children, published, buffer, socket, got, last,
                 lost, auth, entra, faults>>

-----------------------------------------------------------------------------
(* What a client that gives a time gets; mutant: only what came later. *)
After(x, time) == x.at > time
Since(x, time) == x.at >= time
Replay(p, c) ==
  LET entries == Channel(buffer[Store(p)], Org[c])
      since == Those(entries, {x \in ToSet(entries) : Since(x, last[c])})
  IN  [i \in 1..Len(since) |-> since[i].event]

(* What a connection still had to send when it ended, and nobody keeps. *)
Owed(c)    == IF mode = "redis" THEN ToSet(socket[c].queue)
              ELSE IF socket[c].shrunk THEN published \ got[c] ELSE {}
Kept       == {x.event : x \in UNION {ToSet(buffer[s]) : s \in DOMAIN buffer}}
Pending    == UNION {handler[q].pending : q \in Processes}
Dropped(c) == Own(c, Owed(c)) \ (Kept \cup Pending)

(* The hub checks the token and reads the replay, then sends it, and only  *)
(* then subscribes.  An event published but not kept yet is missed too.    *)
Authenticated(c) == tokens[c].access >= clock
Open(c, p) ==
  /\ socket[c].at = "down" /\ Answers(p) /\ Authenticated(c)
  /\ socket' = [socket EXCEPT ![c] = [Down EXCEPT !.at = "opened", !.proc = p, !.queue = Replay(p, c)]]
  /\ lost' = [lost EXCEPT ![c] = @ \cup Own(c, Pending)]
  /\ UNCHANGED <<setting, clock, handler, changes, children, intents, published, buffer, got, last,
                 auth, entra, faults>>

Receives(c, events) ==
  /\ got' = [got EXCEPT ![c] = @ \cup events]
  /\ last' = [last EXCEPT ![c] = Max({@} \cup {e.at : e \in events})]

(* One event is sent. *)
SentAt   == {"opened", "live"}
Send(c) ==
  /\ socket[c].at \in SentAt /\ Answers(socket[c].proc) /\ socket[c].queue # <<>>
  /\ Receives(c, {Head(socket[c].queue)})
  /\ socket' = [socket EXCEPT ![c].queue = Tail(@)]
  /\ UNCHANGED <<setting, clock, handler, changes, children, intents, published, buffer, lost,
                 auth, entra, faults>>

Subscribe(c) ==
  /\ socket[c].at = "opened" /\ Answers(socket[c].proc) /\ socket[c].queue = <<>>
  /\ socket' = [socket EXCEPT ![c].at = "live"]
  /\ UNCHANGED <<setting, clock, handler, changes, children, intents, published, buffer, got, last,
                 lost, auth, entra, faults>>

(* Without Redis a ping is answered with the recent events after as many   *)
(* as the list had at the last ping, whatever it has dropped meanwhile.    *)
Ping(c) ==
  LET s == socket[c]
      all == Channel(buffer[Home], Org[c])
      recent == SubSeq(all, Max({1, Len(all) + 1 - Recent}), Len(all))
      new == {recent[i].event : i \in {j \in DOMAIN recent : j > s.seen}}
  IN  /\ mode = "memory" /\ s.at = "live" /\ Answers(s.proc)
      /\ Receives(c, new)
      /\ socket' = [socket EXCEPT ![c].seen = Len(recent), ![c].shrunk = FALSE]
      /\ lost' = IF s.shrunk
                 THEN [lost EXCEPT ![c] = @ \cup Own(c, published \ (got[c] \cup new))] ELSE lost
      /\ UNCHANGED <<setting, clock, handler, changes, children, intents, published, buffer,
                     auth, entra, faults>>

Disconnect(c) ==
  /\ socket[c].at # "down" /\ Fault
  /\ socket' = [socket EXCEPT ![c] = Down]
  /\ lost' = [lost EXCEPT ![c] = @ \cup Dropped(c)]
  /\ UNCHANGED <<setting, clock, handler, changes, children, intents, published, buffer, got, last,
                 auth, entra>>

-----------------------------------------------------------------------------
(* A new pair. *)
Pair(jti) == [access |-> clock + AccessTtl, refresh |-> clock + RefreshTtl, jti |-> jti]

Login(c, p) ==
  /\ Answers(p) /\ mode = "tokens" /\ tokens[c].access < clock
  /\ tokens' = [tokens EXCEPT ![c] = Pair(jtis + 1)] /\ jtis' = jtis + 1
  /\ UNCHANGED <<setting, clock, feed, revoked, exchanged, twice, entra, faults>>

(* refresh: the spent token is put on the list of this process; mutant: it *)
(* is not.  The answer may be lost on its way.                             *)
Forgotten(list, jti) == list
Spent(list, jti) == list \cup {jti}
Refresh(c, p) ==
  LET t == tokens[c]
  IN  /\ Answers(p) /\ mode = "tokens" /\ t.access < clock /\ t.refresh >= clock
      /\ t.jti \notin revoked[p]
      /\ revoked' = [revoked EXCEPT ![p] = Spent(@, t.jti)]
      /\ exchanged' = [exchanged EXCEPT ![p] = @ \cup {t.jti}]
      /\ twice' = (twice \/ t.jti \in exchanged[p])
      /\ jtis' = jtis + 1
      /\ \/ tokens' = [tokens EXCEPT ![c] = Pair(jtis + 1)] /\ NoFault
         \/ Fault /\ UNCHANGED tokens
      /\ UNCHANGED <<setting, clock, feed, entra>>

-----------------------------------------------------------------------------
(* get_jwk_for_kid: an unknown key or an expired set is fetched.  A fetch   *)
(* that fails refuses the token.                                            *)
Usable(set, kid) == kid \in set.keys /\ clock < set.expires
Accepted(kid) ==
  age' = IF kid = keys THEN age ELSE Max({age, clock - retired[kid]})

EntraCall(p, kid) ==
  /\ mode = "entra" /\ kid \in 1..keys
  /\ \/ Usable(jwks[p], kid) /\ Accepted(kid) /\ UNCHANGED <<jwks, faults>>
     \/ /\ ~Usable(jwks[p], kid) /\ NoFault
        /\ jwks' = [jwks EXCEPT ![p] = [expires |-> clock + KeyTtl, keys |-> {keys}]]
        /\ IF kid = keys THEN Accepted(kid) ELSE UNCHANGED age
     \/ ~Usable(jwks[p], kid) /\ Fault /\ UNCHANGED <<jwks, age>>
  /\ UNCHANGED <<setting, clock, feed, auth, keys, retired>>

RotateKey ==
  /\ mode = "entra" /\ keys < MaxKeys
  /\ keys' = keys + 1 /\ retired' = [retired EXCEPT ![keys] = clock]
  /\ UNCHANGED <<setting, clock, feed, auth, jwks, age, faults>>

-----------------------------------------------------------------------------
Tick ==
  /\ clock < setting.time /\ clock' = clock + 1
  /\ UNCHANGED <<setting, feed, auth, entra, faults>>

Restart(p) ==
  /\ p \in Running /\ Fault
  /\ handler' = [handler EXCEPT ![p] = Idle]
  /\ intents' = [intents EXCEPT ![p] = [t \in Tenants |-> {0}]]
  /\ revoked' = [revoked EXCEPT ![p] = {}] /\ exchanged' = [exchanged EXCEPT ![p] = {}]
  /\ jwks' = [jwks EXCEPT ![p] = [expires |-> 0, keys |-> {}]]
  /\ buffer' = [buffer EXCEPT ![p] = <<>>]
  /\ socket' = [c \in Clients |-> IF socket[c].proc = p THEN Down ELSE socket[c]]
  /\ lost' = [c \in Clients |->
       lost[c] \cup (IF socket[c].proc = p THEN Dropped(c) ELSE {})
               \cup Own(c, handler[p].pending \cup
                             IF mode = "memory" THEN published \ got[c] ELSE {})]
  /\ UNCHANGED <<setting, clock, changes, children, published, got, last, tokens, jtis, twice,
                 keys, retired, age>>

Init ==
  /\ setting \in Settings /\ clock = 0 /\ faults = 0
  /\ handler = [p \in Processes |-> Idle] /\ changes = 0 /\ children = {}
  /\ intents = [p \in Processes |-> [t \in Tenants |-> {0}]]
  /\ published = {} /\ buffer = [s \in Processes \cup {"redis"} |-> <<>>]
  /\ socket = [c \in Clients |-> Down]
  /\ got = [c \in Clients |-> {}] /\ last = [c \in Clients |-> 0] /\ lost = [c \in Clients |-> {}]
  /\ tokens = [c \in Clients |-> [access |-> AccessTtl, refresh |-> RefreshTtl, jti |-> 0]]
  /\ jtis = 0 /\ revoked = [p \in Processes |-> {}] /\ exchanged = [p \in Processes |-> {}]
  /\ twice = FALSE
  /\ keys = 1 /\ retired = [k \in 1..MaxKeys |-> 0] /\ age = 0
  /\ jwks = [p \in Processes |-> [expires |-> 0, keys |-> {}]]

Handle(p) == Keep(p) \/ StoreRecord(p) \/ Announce(p)

Next ==
  \/ \E p \in Processes :
       \/ Attach(p) \/ Handle(p) \/ Restart(p)
       \/ \E c \in Clients : ReadIntents(p, Org[c]) \/ Open(c, p) \/ Login(c, p) \/ Refresh(c, p)
       \/ \E kid \in 1..MaxKeys : EntraCall(p, kid)
  \/ \E c \in Clients : Send(c) \/ Subscribe(c) \/ Ping(c) \/ Disconnect(c)
  \/ RotateKey \/ Tick

Spec == Init /\ [][Next]_vars

-----------------------------------------------------------------------------
(* Sockets, buffers, tokens and caches hold what the code can store. *)
TypeOK ==
  /\ setting \in Settings /\ clock \in 0..setting.time /\ faults \in 0..setting.faults
  /\ \A p \in Processes :
       /\ handler[p].step \in {"idle", "case", "store", "announce", "done"}
       /\ handler[p].pending \subseteq published
       /\ jwks[p].expires \in 0..setting.time + KeyTtl
  /\ \A s \in DOMAIN buffer : \A x \in ToSet(buffer[s]) :
       x.event \in published /\ x.at \in x.event.at..clock
  /\ \A c \in Clients :
       /\ got[c] \subseteq published /\ lost[c] \subseteq published /\ last[c] \in 0..clock
       /\ tokens[c].jti \in 0..jtis

(* A subscribed client has, or is about to be sent, every event of its     *)
(* tenant, across disconnections, and but for the occasions on which the   *)
(* feed is known to lose one: the gap between reading the replay and       *)
(* subscribing, an event kept after it went out, a failing Redis, an       *)
(* absence longer than the window or a connection that ends with an event  *)
(* that old still to send, and in memory a list that shrank.               *)
NothingElseIsMissed ==
  \A c \in Clients : socket[c].at = "live" =>
    \A e \in published : e.tenant = Org[c] =>
      \/ e \in got[c] \cup lost[c] \cup ToSet(socket[c].queue)
      \/ mode = "memory" /\ (socket[c].shrunk \/ \E i \in DOMAIN Channel(buffer[Home], Org[c]) :
           i > socket[c].seen /\ Channel(buffer[Home], Org[c])[i].event = e)

(* A client receives the events of its own tenant only. *)
OwnTenantOnly ==
  \A c \in Clients : \A e \in got[c] \cup ToSet(socket[c].queue) : e.tenant = Org[c]

(* A run is announced as complete only when its record can be read. *)
AnnouncedIsStored ==
  \A e \in published : e.kind = "done" => \E r \in children : r.change = e.change

(* The intents a process answers with are those of the stored records, but *)
(* for records another process attached and those whose arrival closed the *)
(* case: neither drops the cached entry.                                   *)
StaleIntentsAreKnown ==
  \A p \in Processes, t \in Tenants : Answers(p) /\ intents[p][t] # {0} =>
    \A r \in children : r.tenant = t /\ r.change \notin intents[p][t] => r.by # p \/ r.closing

(* No process exchanges a refresh token twice, however often the answer is *)
(* lost and the request repeated, until it restarts.                       *)
ExchangedOnce == ~twice

(* A key is accepted for no longer after its end than a key set is kept. *)
KeyIsRecent == age <= KeyTtl

(* A client's feed has all of its tenant's events, nothing of another's,    *)
(* and nothing that cannot be read yet (ws.py, pubsub.py, exceptions.py).   *)
FeedIsComplete == TypeOK /\ NothingElseIsMissed /\ OwnTenantOnly /\ AnnouncedIsStored

(* A credential is good for one exchange, or as long as its key and no      *)
(* longer (auth.py refresh, azure_ad_jwks.py).                              *)
CredentialsLapse == ExchangedOnce /\ KeyIsRecent

(* case_intents_cache.py says that the cache follows every change. *)
IntentsAreCurrent ==
  \A t \in Tenants : Answers(Home) /\ intents[Home][t] # {0} => intents[Home][t] = Derived(t)
=============================================================================
