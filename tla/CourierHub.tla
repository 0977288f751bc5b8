----------------------------- MODULE CourierHub -----------------------------
(***************************************************************************)
(* The courier: WebSocket clients subscribe to channels, services publish  *)
(* events to channels, a heartbeat looks for dead clients, and a signal    *)
(* shuts the server down.  Everything runs on one event loop, so that a    *)
(* step of this module is what one task does between two awaits.  The      *)
(* tasks share the table of channels and its lists of subscribers, and     *)
(* iterate over both across awaits.                                        *)
(***************************************************************************)
EXTENDS Integers, Sequences, FiniteSets, Functions

CONSTANTS Clients,       \* WebSocket connections, each made at most once
          Channels,      \* channel names
          Ephemeral,     \* the names that start with forge.job. or backtest.
          Posts,         \* requests to publish that may run at one time
          User,          \* the user of each connection, or Anonymous
          Anonymous,
          Path,          \* the channel each connection asks for
          MaxTotal, MaxPerUser, MaxPerChannel  \* 0: no limit

ASSUME CourierAssumption ==
  /\ Ephemeral \subseteq Channels
  /\ DOMAIN User = Clients /\ Path \in [Clients -> Channels]
  /\ MaxTotal \in Nat /\ MaxPerUser \in Nat /\ MaxPerChannel \in Nat

VARIABLES channels,  \* ConnectionManager.channels: name -> list of sockets
          registry,  \* the sockets in ConnectionManager.client_registry
          at,        \* where each connection's handler is
          gone,      \* sockets closed by either side
          casts,     \* the broadcast of each request to publish
          beat,      \* the heartbeat task
          notice,    \* the task that tells clients of the shutdown
          server,    \* where the shutdown is
          churned,   \* history: iterations during which a key came or went
          unserved   \* history: channels that never had a subscriber

vars == <<channels, registry, at, gone, casts, beat, notice, server,
          churned, unserved>>

Listed(t) == UNION {Range(t[ch]) : ch \in DOMAIN t}

(* What is left of the first i elements of s, and of all, without D.       *)
Kept(s, D) ==
  LET kept[i \in 0..Len(s)] ==
        IF i = 0 THEN <<>>
        ELSE IF s[i] \in D THEN kept[i - 1] ELSE Append(kept[i - 1], s[i])
  IN  kept
Without(s, D) == Kept(s, D)[Len(s)]

ShuttingDown == server # "up"

NoCast == [on |-> FALSE, live |-> FALSE, ch |-> Anonymous, pos |-> 0,
           sent |-> <<>>, whom |-> {}]
Round(state) == [state |-> state, size |-> 0, left |-> 0, seen |-> {},
                 live |-> FALSE, ch |-> Anonymous, pos |-> 0,
                 ws |-> Anonymous, dead |-> {}]
Notice(state) == [state |-> state, size |-> 0, left |-> 0, seen |-> {},
                  todo |-> <<>>]

Init ==
  /\ channels = <<>> /\ registry = {} /\ gone = {}
  /\ at = [c \in Clients |-> "new"]
  /\ casts = [p \in Posts |-> NoCast]
  /\ beat = Round("asleep") /\ notice = Notice("none")
  /\ server = "up" /\ churned = {} /\ unserved = {}
-----------------------------------------------------------------------------
(* Iterating over the table.  A walk w remembers the size of the table at  *)
(* its start, how many entries it has still to see, and those it has seen. *)
(* Advancing passes entries with an empty list at once, up to the next     *)
(* list with somebody in it; Python raises when it finds the size changed, *)
(* or an entry more than there were.                                       *)

Unseen(t, w) == DOMAIN t \ w.seen
Passable(t, w) == {E \in SUBSET {ch \in Unseen(t, w) : t[ch] = <<>>} :
                     Cardinality(E) <= w.left}
SameSize(t, w) == Cardinality(DOMAIN t) = w.size

Raises(t, w) ==
  \/ ~SameSize(t, w)
  \/ \E E \in Passable(t, w) : Cardinality(E) = w.left /\ Unseen(t, w) # E

Ends(t, w) == SameSize(t, w) /\ Unseen(t, w) \in Passable(t, w)

(* The ways to reach channel ch next.                                      *)
Onwards(t, w, ch) ==
  {[w EXCEPT !.seen = @ \cup E \cup {ch}, !.left = @ - Cardinality(E) - 1] :
     E \in {F \in Passable(t, w) :
              /\ SameSize(t, w) /\ Cardinality(F) < w.left
              /\ ch \in Unseen(t, w) /\ t[ch] # <<>>}}

StartWalk(w) == [w EXCEPT !.size = Cardinality(DOMAIN channels),
                          !.left = Cardinality(DOMAIN channels)]

(* What a change of the table does to the iterations under way: an entry   *)
(* that is deleted is no longer one they have seen, and a list that is     *)
(* deleted is no longer in the table.                                      *)
Walking == {w \in {"beat", "notice"} :
              \/ w = "beat" /\ beat.state = "round"
              \/ w = "notice" /\ notice.state = "running"}

TableBecomes(t) ==
  LET deleted == DOMAIN channels \ DOMAIN t IN
  /\ channels' = t
  /\ churned' = IF DOMAIN t # DOMAIN channels THEN churned \cup Walking
                                              ELSE churned
  /\ beat' = [beat EXCEPT !.seen = @ \ deleted,
                          !.live = @ /\ beat.ch \notin deleted]
  /\ notice' = [notice EXCEPT !.seen = @ \ deleted]
  /\ casts' = [p \in Posts |->
                 [casts[p] EXCEPT !.live = @ /\ casts[p].ch \notin deleted]]

Opened(ch) == [d \in DOMAIN channels \cup {ch} |->
                 IF d \in DOMAIN channels THEN channels[d] ELSE <<>>]
-----------------------------------------------------------------------------
(* The handler of a connection.                                            *)

Connect(c) ==
  /\ at[c] = "new" /\ server \in {"up", "stopping"}
  /\ at' = [at EXCEPT ![c] = IF ShuttingDown THEN "done" ELSE "accepting"]
  /\ UNCHANGED <<channels, registry, gone, casts, beat, notice, server,
                 churned, unserved>>

AcceptFails(c) ==
  /\ at[c] = "accepting" /\ c \in gone
  /\ at' = [at EXCEPT ![c] = "done"]
  /\ UNCHANGED <<channels, registry, gone, casts, beat, notice, server,
                 churned, unserved>>

(* Mutated: the limit may be exceeded by one.                              *)
UpTo(limit, count) == limit = 0 \/ count <= limit

Under(limit, count) == limit = 0 \/ count < limit

Entries == UNION {{<<ch, i>> : i \in DOMAIN channels[ch]} :
                    ch \in DOMAIN channels}

WithinLimits(c) ==
  LET ch == Path[c] IN
  /\ Under(MaxTotal, Cardinality(Entries))
  /\ User[c] # Anonymous =>
       Under(MaxPerUser, Cardinality({d \in registry : User[d] = User[c]}))
  /\ Under(MaxPerChannel, Len(Opened(ch)[ch]))

(* After accept: the channel is created, then the client is added to it or *)
(* refused; nothing removes a channel opened for a client that is refused. *)
(* Mutated: newcomers go to the front of the list.                         *)
ServeFirst(c) ==
  /\ at[c] = "accepting" /\ WithinLimits(c)
  /\ TableBecomes([Opened(Path[c]) EXCEPT ![Path[c]] = <<c>> \o @])
  /\ registry' = registry \cup {c}
  /\ at' = [at EXCEPT ![c] = "served"]
  /\ unserved' = unserved \ {Path[c]}
  /\ UNCHANGED <<gone, server>>

Serve(c) ==
  /\ at[c] = "accepting" /\ WithinLimits(c)
  /\ TableBecomes([Opened(Path[c]) EXCEPT ![Path[c]] = Append(@, c)])
  /\ registry' = registry \cup {c}
  /\ at' = [at EXCEPT ![c] = "served"]
  /\ unserved' = unserved \ {Path[c]}
  /\ UNCHANGED <<gone, server>>

Refuse(c) ==
  /\ at[c] = "accepting" /\ ~WithinLimits(c)
  /\ TableBecomes(Opened(Path[c]))
  /\ unserved' = unserved \cup ({Path[c]} \ DOMAIN channels)
  /\ at' = [at EXCEPT ![c] = "done"]
  /\ UNCHANGED <<registry, gone, server>>

(* The receive loop looks at the shutdown event before each message, and   *)
(* at the latest when its wait of 30 seconds ends.                         *)
SeeShutdown(c) ==
  /\ at[c] = "served" /\ ShuttingDown
  /\ at' = [at EXCEPT ![c] = "closing"]
  /\ UNCHANGED <<channels, registry, gone, casts, beat, notice, server,
                 churned, unserved>>

(* The finally clause: remove_client, then the clean-up of the channel.    *)
ShouldCleanUp(t, ch) == ch \in Ephemeral /\ (ch \in DOMAIN t => t[ch] = <<>>)

Removed(t, ch, D) == IF ch \in DOMAIN t THEN [t EXCEPT ![ch] = Without(@, D)]
                                        ELSE t

(* Mutated: no clean-up after a client the heartbeat has removed.          *)
LeaveIfRegistered(c) ==
  LET ch == Path[c]
      t == Removed(channels, ch, {c})
  IN  /\ at[c] = "closing" \/ (at[c] = "served" /\ c \in gone)
      /\ TableBecomes(IF c \in registry /\ ShouldCleanUp(t, ch)
                      THEN [d \in DOMAIN t \ {ch} |-> t[d]] ELSE t)
      /\ registry' = registry \ {c}
      /\ gone' = gone \cup {c}
      /\ at' = [at EXCEPT ![c] = "done"]
      /\ UNCHANGED <<server, unserved>>

Leave(c) ==
  LET ch == Path[c]
      t == Removed(channels, ch, {c})
  IN  /\ at[c] = "closing" \/ (at[c] = "served" /\ c \in gone)
      /\ TableBecomes(IF ShouldCleanUp(t, ch)
                      THEN [d \in DOMAIN t \ {ch} |-> t[d]] ELSE t)
      /\ registry' = registry \ {c}
      /\ gone' = gone \cup {c}
      /\ at' = [at EXCEPT ![c] = "done"]
      /\ UNCHANGED <<server, unserved>>

(* The other side closes; once the server exits, uvicorn closes.           *)
PeerLeaves(c) ==
  /\ at[c] \in {"accepting", "served", "closing"} /\ c \notin gone
  /\ gone' = gone \cup {c}
  /\ UNCHANGED <<channels, registry, at, casts, beat, notice, server,
                 churned, unserved>>
-----------------------------------------------------------------------------
(* POST /publish: the channel is created if it is not there, and the event *)
(* is sent to the members of its list, one by one, by index.  The request  *)
(* is accepted during the shutdown, too, until the server exits.           *)

Subscribers(t, ch) == IF ch \in DOMAIN t THEN t[ch] ELSE <<>>

(* Mutated: the last of the list is left out.                              *)
ReachAllButLast(cast, list) ==
  IF cast.live /\ cast.pos + 1 < Len(list)
  THEN [cast EXCEPT !.pos = @ + 1, !.sent = Append(@, list[cast.pos + 1])]
  ELSE NoCast

Reach(cast, list) ==
  IF cast.live /\ cast.pos < Len(list)
  THEN [cast EXCEPT !.pos = @ + 1, !.sent = Append(@, list[cast.pos + 1])]
  ELSE NoCast

Publish(p, ch) ==
  LET list == Subscribers(channels, ch) IN
  /\ ~casts[p].on /\ server \in {"up", "stopping"}
  /\ channels' = Opened(ch)
  /\ churned' = IF ch \in DOMAIN channels THEN churned
                                          ELSE churned \cup Walking
  /\ unserved' = unserved \cup ({ch} \ DOMAIN channels)
  /\ casts' = [casts EXCEPT ![p] =
                 Reach([NoCast EXCEPT !.on = TRUE, !.live = TRUE, !.ch = ch,
                                      !.whom = Range(list)], list)]
  /\ UNCHANGED <<registry, at, gone, beat, notice, server>>

(* A send has returned or raised; dead clients are noted, never removed.   *)
BroadcastNext(p) ==
  /\ casts[p].on
  /\ casts' = [casts EXCEPT ![p] = Reach(@, Subscribers(channels, @.ch))]
  /\ UNCHANGED <<channels, registry, at, gone, beat, notice, server,
                 churned, unserved>>
-----------------------------------------------------------------------------
(* The heartbeat.                                                          *)

LoopTop == Round(IF ShuttingDown THEN "stopped" ELSE "asleep")

Ping(w, ch, t) == [w EXCEPT !.state = "round", !.live = TRUE, !.ch = ch,
                            !.pos = 1, !.ws = t[ch][1], !.dead = {}]

(* On to the next channel of table t, to the end of the round, or to an    *)
(* exception that ends the task.                                           *)
Proceed(t, w) ==
  \/ \E ch \in DOMAIN t : \E v \in Onwards(t, w, ch) : beat' = Ping(v, ch, t)
  \/ Ends(t, w) /\ beat' = LoopTop
  \/ Raises(t, w) /\ beat' = Round("died")

Wake ==
  /\ beat.state = "asleep" /\ server # "down"
  /\ IF Listed(channels) = {} THEN beat' = LoopTop
     ELSE Proceed(channels, StartWalk(beat))
  /\ churned' = churned \ {"beat"}
  /\ UNCHANGED <<channels, registry, at, gone, casts, notice, server,
                 unserved>>

(* Sending to a socket that is closed may raise.                           *)
SendMayFail(c) == c \in gone \/ at[c] = "closing"

(* A ping has returned or raised: on to the next of the live list; at its  *)
(* end the dead are removed, and then the walk goes on.                    *)
BeatNext ==
  /\ beat.state = "round"
  /\ \E lost \in {{}} \cup {{c} : c \in {beat.ws} \cap
                                      {d \in Clients : SendMayFail(d)}} :
       LET dead == beat.dead \cup lost
           list == IF beat.live THEN channels[beat.ch] ELSE <<>>
           t == Removed(channels, beat.ch, dead)
       IN  IF beat.pos < Len(list)
           THEN /\ beat' = [beat EXCEPT !.pos = @ + 1, !.dead = dead,
                                        !.ws = list[beat.pos + 1]]
                /\ UNCHANGED <<channels, registry>>
           ELSE /\ channels' = t
                /\ registry' = registry \ dead
                /\ Proceed(t, beat)
  /\ UNCHANGED <<at, gone, casts, notice, server, churned, unserved>>
-----------------------------------------------------------------------------
(* The shutdown.                                                           *)

(* On to the next channel, whose list is copied, to the end, where the     *)
(* server is told to exit, or to an exception, which gather keeps.         *)
Tell(t, w) ==
  \/ \E ch \in DOMAIN t : \E v \in Onwards(t, w, ch) :
       /\ notice' = [v EXCEPT !.state = "running", !.todo = Tail(t[ch])]
       /\ server' = "stopping"
  \/ Ends(t, w) /\ notice' = Notice("done") /\ server' = "exiting"
  \/ Raises(t, w) /\ notice' = Notice("failed") /\ server' = "stopping"

(* The first signal; further ones return at once.                          *)
(* Mutated: with nobody to tell, the server is not told to exit.           *)
SignalUnheard ==
  /\ server = "up"
  /\ IF Listed(channels) = {}
     THEN notice' = Notice("done") /\ server' = "stopping"
     ELSE Tell(channels, StartWalk(notice))
  /\ UNCHANGED <<channels, registry, at, gone, casts, beat, churned, unserved>>

Signal ==
  /\ server = "up"
  /\ IF Listed(channels) = {}
     THEN notice' = Notice("done") /\ server' = "exiting"
     ELSE Tell(channels, StartWalk(notice))
  /\ UNCHANGED <<channels, registry, at, gone, casts, beat, churned,
                 unserved>>

NoticeNext ==
  /\ notice.state = "running"
  /\ IF notice.todo # <<>>
     THEN notice' = [notice EXCEPT !.todo = Tail(@)] /\ UNCHANGED server
     ELSE Tell(channels, notice)
  /\ UNCHANGED <<channels, registry, at, gone, casts, beat, churned,
                 unserved>>

(* A client that does not read keeps the notice waiting until the timeout  *)
(* of 30 seconds cancels it.                                               *)
NoticeTimesOut ==
  /\ notice.state = "running"
  /\ notice' = Notice("expired")
  /\ UNCHANGED <<channels, registry, at, gone, casts, beat, server,
                 churned, unserved>>

(* uvicorn runs the application's shutdown when every handler has ended.   *)
(* A heartbeat that died raises again where it is awaited.                 *)
Quiet == /\ \A c \in Clients : at[c] \in {"new", "done"}
         /\ \A p \in Posts : ~casts[p].on

CloseDown ==
  /\ server = "exiting" /\ Quiet
  /\ IF beat.state = "died"
     THEN server' = "aborted" /\ UNCHANGED <<channels, beat>>
     ELSE /\ server' = "down" /\ beat' = Round("stopped")
          /\ channels' = [ch \in DOMAIN channels |-> <<>>]
  /\ UNCHANGED <<registry, at, gone, casts, notice, churned, unserved>>
-----------------------------------------------------------------------------
Handler(c) ==
  AcceptFails(c) \/ Serve(c) \/ Refuse(c) \/ SeeShutdown(c) \/ Leave(c)

Next ==
  \/ \E c \in Clients : Connect(c) \/ Handler(c) \/ PeerLeaves(c)
  \/ \E p \in Posts : BroadcastNext(p) \/ \E ch \in Channels : Publish(p, ch)
  \/ Wake \/ BeatNext
  \/ Signal \/ NoticeNext \/ NoticeTimesOut \/ CloseDown

(* The loop runs every task that can run, and a send ends, if only because *)
(* the keep-alive of the server gives up on the client.  Handlers and the  *)
(* shutdown have finitely many steps to take, so that one fairness         *)
(* condition serves them all.  Nothing is asked of clients, services, the  *)
(* heartbeat or the signal; an exiting server closes its sockets.          *)
HandlersAndShutdown ==
  \/ \E c \in Clients : Handler(c) \/ (server = "exiting" /\ PeerLeaves(c))
  \/ NoticeNext \/ CloseDown

Fairness == /\ WF_vars(HandlersAndShutdown)
            /\ \A p \in Posts : WF_vars(BroadcastNext(p))

Spec == Init /\ [][Next]_vars /\ Fairness
-----------------------------------------------------------------------------
CastType == [on : BOOLEAN, live : BOOLEAN, ch : Channels \cup {Anonymous},
             pos : Nat, sent : Seq(Clients), whom : SUBSET Clients]
BeatType == [state : {"asleep", "round", "stopped", "died"},
             size : Nat, left : Nat, seen : SUBSET Channels, live : BOOLEAN,
             ch : Channels \cup {Anonymous}, pos : Nat,
             ws : Clients \cup {Anonymous}, dead : SUBSET Clients]
NoticeType ==
  [state : {"none", "running", "done", "failed", "expired"},
   size : Nat, left : Nat, seen : SUBSET Channels, todo : Seq(Clients)]

(* The fields have their types: an iteration never sees more entries than  *)
(* there were (left).                                                      *)
TypeOK ==
  /\ channels \in [DOMAIN channels -> Seq(Clients)]
  /\ DOMAIN channels \subseteq Channels /\ IsFiniteSet(DOMAIN channels)
  /\ registry \subseteq Clients /\ gone \subseteq Clients
  /\ at \in [Clients -> {"new", "accepting", "served", "closing", "done"}]
  /\ casts \in [Posts -> CastType]
  /\ beat \in BeatType /\ notice \in NoticeType
  /\ server \in {"up", "stopping", "exiting", "down", "aborted"}
  /\ churned \subseteq {"beat", "notice"} /\ unserved \subseteq Channels

NoTwice(s) == \A i, j \in DOMAIN s : i # j => s[i] # s[j]

(* The table and the registry hold the same connections, each once and     *)
(* under the channel it asked for, none whose handler has ended, and every *)
(* one that is served and still there: no clean-up, heartbeat or shutdown  *)
(* takes a subscriber away from under its handler.                         *)
TableAgrees ==
  /\ registry = Listed(channels)
  /\ \A ch \in DOMAIN channels :
       /\ NoTwice(channels[ch])
       /\ \A c \in Range(channels[ch]) :
            Path[c] = ch /\ at[c] \in {"served", "closing"}
  /\ \A c \in Clients : at[c] = "served" /\ c \notin gone => c \in registry

(* The limits hold of the connections really served, whatever the lists    *)
(* they are checked on go through.                                         *)
LimitsHold ==
  LET Live == {c \in Clients : at[c] = "served" /\ c \notin gone}
      AtMost(limit, S) == limit = 0 \/ Cardinality(S) <= limit
  IN  /\ AtMost(MaxTotal, Live)
      /\ \A c \in Live :
           /\ AtMost(MaxPerChannel, {d \in Live : Path[d] = Path[c]})
           /\ User[c] # Anonymous =>
                AtMost(MaxPerUser, {d \in Live : User[d] = User[c]})

(* One broadcast sends to no client twice, although the list it goes       *)
(* through by index changes while it waits.                                *)
SentOnce ==
  \A p \in Posts : NoTwice(casts[p].sent)

(* When a broadcast ends, the subscribers it had at its start and has not  *)
(* sent to, although they are still there, are no more than those that     *)
(* left meanwhile: nobody is missed for another reason.                    *)
MissesHaveCause ==
  [][\A p \in Posts :
       casts[p].on /\ ~casts'[p].on =>
         LET cast == casts[p]
             Now == IF cast.live THEN Range(channels[cast.ch]) ELSE {}
         IN  Cardinality((cast.whom \cap Now) \ Range(cast.sent))
               <= Cardinality(cast.whom \ Now)]_vars

(* An ephemeral channel does not outlive its subscribers: it is there and  *)
(* empty with no handler left to delete it only if nobody ever subscribed, *)
(* a publication or a refused client having created it.                    *)
EphemeralDeleted ==
  \A ch \in Ephemeral \cap DOMAIN channels :
    (\A c \in Clients : Path[c] = ch => at[c] \in {"new", "accepting", "done"})
      => ch \in unserved

(* After the signal the server stops, unless a send of the notice took too *)
(* long or a channel came or went during an iteration over the table.      *)
ShutdownEnds ==
  ShuttingDown ~> \/ server = "down"
                  \/ notice.state = "expired"
                  \/ churned # {}
=============================================================================
