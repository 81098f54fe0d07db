---------------------------- MODULE ThreadStream ----------------------------
(***************************************************************************)
(* The event stream of a thread: what is appended to its Chronicle stream, *)
(* how the host replays and follows it for a connection                    *)
(* (GET /threads/:threadId/items), and what a client has seen of it.       *)
(*                                                                         *)
(* One action is the code between two awaits.  An event is known by its    *)
(* sequence number wherever it travels; bodies matter only to Console.     *)
(* Appends interleave between reading the tail and writing; an append is   *)
(* stored before it is broadcast; a connection replays what it read and    *)
(* then follows; connections break and the host dies at any point.         *)
(*                                                                         *)
(* Not modelled: heartbeats, CORS, the framing of the transport.           *)
(***************************************************************************)
EXTENDS Chronicle, Integers, FiniteSets, SequencesExt

CONSTANTS
    Threads,    \* the thread ids
    Writers,    \* who appends: turns, and the rename route
    Clients,    \* who calls streamItems
    MaxConns,   \* bound: connections opened over a run
    MaxEvents,  \* bound: events on all threads together
    Nil        \* no thread, no connection, no draft

ASSUME StreamAssumption == /\ MaxConns \in Nat
                           /\ Nil \notin Threads \cup (1 .. MaxConns)

VARIABLES
    streams,    \* streams[t]: the Chronicle stream of thread t
    draft,      \* draft[w]: the append w is in, between its two awaits
    emitting,   \* stored, the broadcast still to come, oldest first
    conn,       \* conn[c]: the handler of a connection
    client      \* client[x]: thread, connection and what x has yielded

streamVars == <<streams, draft, emitting, conn, client>>

Conns == 1 .. MaxConns

Unused == [state |-> "none", thread |-> Nil, page |-> 0, watermark |-> 0,
         queue |-> <<>>, wire |-> <<>>, peer |-> FALSE]

Away == [thread |-> Nil, conn |-> Nil, view |-> <<>>]

EventCount(ss) == FoldFunction(LAMBDA s, n : Len(s) + n, 0, ss)

Used == EventCount(streams) + Cardinality({w \in Writers : draft[w] # Nil})

-----------------------------------------------------------------------------
(* Appending.  appendThreadEvents reads the tail, then appends behind it;  *)
(* the broadcasting store emits what was stored before it gives its answer *)
(* to the writer.                                                          *)

Appending(w) == draft[w] # Nil \/ \E i \in DOMAIN emitting : emitting[i].writer = w

ReadTail(w, t, e) ==
    /\ ~ Appending(w)
    /\ Used < MaxEvents
    /\ draft' = [draft EXCEPT ![w] = [thread |-> t, event |-> e,
                                      expected |-> NextSequence(streams[t])]]
    /\ UNCHANGED <<streams, emitting, conn, client>>

Refused(w) ==
    /\ draft[w] # Nil
    /\ Conflicts(streams[draft[w].thread], <<draft[w].event>>, draft[w].expected)

\* ChronicleSequenceConflictError: nothing is stored, the writer is told.
Refuse(w) ==
    /\ Refused(w)
    /\ draft' = [draft EXCEPT ![w] = Nil]
    /\ UNCHANGED <<streams, emitting, conn, client>>

Store(w) ==
    /\ draft[w] # Nil
    /\ ~ Refused(w)
    /\ LET d == draft[w] IN
       /\ streams' = [streams EXCEPT ![d.thread] = Appended(@, <<d.event>>, d.expected)]
       /\ emitting' = Append(emitting, [writer |-> w, thread |-> d.thread,
                                      sequence |-> d.expected])
       /\ draft' = [draft EXCEPT ![w] = Nil]
    /\ UNCHANGED <<conn, client>>

\* Mutant: the listener is registered once the replay is done.
Offered_AfterReplay(c, t, n) ==
    IF conn[c].state = "following" /\ conn[c].thread = t /\ n > conn[c].watermark
    THEN [conn[c] EXCEPT !.queue = Append(@, n)]
    ELSE conn[c]

\* onAppend of a connection: queue what it has not sent, and wake the loop.
Offered(c, t, n) ==
    IF conn[c].state \in {"reading", "following"} /\ conn[c].thread = t
       /\ n > conn[c].watermark
    THEN [conn[c] EXCEPT !.queue = Append(@, n)]
    ELSE conn[c]

Emit ==
    /\ emitting # <<>>
    /\ LET b == Head(emitting) IN
         conn' = [c \in Conns |-> Offered(c, b.thread, b.sequence)]
    /\ emitting' = Tail(emitting)
    /\ UNCHANGED <<streams, draft, client>>

-----------------------------------------------------------------------------
(* A connection of the host.                                               *)

\* Mutant: what is queued is sent whether or not the page had it.
Sent_Unfiltered(h, n) ==
    [h EXCEPT !.watermark = n, !.wire = IF h.peer THEN Append(@, n) ELSE @]

\* send(): an event at or below the watermark is dropped, any other moves it.
Sent(h, n) ==
    IF n <= h.watermark THEN h
    ELSE [h EXCEPT !.watermark = n,
                   !.wire = IF h.peer THEN Append(@, n) ELSE @]

SentAll(h, events) == FoldLeft(Sent, h, events)

\* The events of the page: what the stream held behind `after` at the read.
Page(h, after) == [i \in 1 .. (h.page - after) |-> after + i]

\* The page is sent, then whatever was queued meanwhile, without an await.
Replay(c) ==
    /\ conn[c].state = "reading"
    /\ LET h == conn[c] IN
         conn' = [conn EXCEPT ![c] =
             [SentAll(h, Page(h, h.watermark) \o h.queue)
                 EXCEPT !.queue = <<>>, !.state = "following"]]
    /\ UNCHANGED <<streams, draft, emitting, client>>

\* The follow loop, woken by a queued event: it drains the queue and sleeps.
Drain(c) ==
    /\ conn[c].state = "following"
    /\ conn[c].queue # <<>>
    /\ conn' = [conn EXCEPT ![c] =
           [SentAll(conn[c], conn[c].queue) EXCEPT !.queue = <<>>]]
    /\ UNCHANGED <<streams, draft, emitting, client>>

\* 'close' of the socket: finish() takes the listener off and ends.
Finish(c) ==
    /\ conn[c].state \in {"reading", "following"}
    /\ ~ conn[c].peer
    /\ conn' = [conn EXCEPT ![c] = [Unused EXCEPT !.state = "closed"]]
    /\ UNCHANGED <<streams, draft, emitting, client>>

-----------------------------------------------------------------------------
(* A client: streamItems of the client library.                            *)

\* The stream is asked for behind `after`; the handler subscribes and reads in
\* one stretch, so the page ends where the stream does now.
Opened(t, after) ==
    [Unused EXCEPT !.state = "reading", !.thread = t, !.page = Len(streams[t]),
                 !.watermark = after, !.peer = TRUE]

FreeConns == {c \in Conns : conn[c].state = "none"}

\* The connections with client x hung up, and one opened if there is a thread.
Reconnected(x, t, after) ==
    LET hungUp == [c \in Conns |-> IF c = client[x].conn
                                   THEN [conn[c] EXCEPT !.peer = FALSE, !.wire = <<>>]
                                   ELSE conn[c]]
    IN  IF t = Nil THEN hungUp
        ELSE [hungUp EXCEPT ![Min(FreeConns)] = Opened(t, after)]

\* Client x turns to thread t (or away, to Nil) with `seen` of it in hand.
Subscribe(x, t, seen) ==
    /\ t # Nil => FreeConns # {}
    /\ conn' = Reconnected(x, t, IF seen = <<>> THEN 0 ELSE Last(seen))
    /\ client' = [client EXCEPT ![x] =
           [thread |-> t, conn |-> IF t = Nil THEN Nil ELSE Min(FreeConns),
            view |-> seen]]

\* A frame arrives and is yielded.
Receive(x) ==
    /\ client[x].conn # Nil
    /\ LET c == client[x].conn IN
       /\ conn[c].wire # <<>>
       /\ client' = [client EXCEPT ![x].view = Append(@, Head(conn[c].wire))]
       /\ conn' = [conn EXCEPT ![c].wire = Tail(@)]
    /\ UNCHANGED <<streams, draft, emitting>>

\* The connection breaks: what was on the wire is lost, the host learns later.
Break(x) ==
    /\ client[x].conn # Nil
    /\ conn' = [conn EXCEPT ![client[x].conn].peer = FALSE,
                            ![client[x].conn].wire = <<>>]
    /\ client' = [client EXCEPT ![x].conn = Nil]
    /\ UNCHANGED <<streams, draft, emitting>>

\* The host dies: streams stay, everything else of it is gone.
HostDies ==
    /\ emitting' = <<>>
    /\ draft' = [w \in Writers |-> Nil]
    /\ conn' = [c \in Conns |-> IF conn[c].state \in {"reading", "following"}
                                THEN [Unused EXCEPT !.state = "closed"] ELSE conn[c]]
    /\ client' = [x \in Clients |-> [client[x] EXCEPT !.conn = Nil]]
    /\ UNCHANGED streams

StreamInit ==
    /\ streams = [t \in Threads |-> <<>>]
    /\ draft = [w \in Writers |-> Nil]
    /\ emitting = <<>>
    /\ conn = [c \in Conns |-> Unused]
    /\ client = [x \in Clients |-> Away]

-----------------------------------------------------------------------------
(* Properties.                                                             *)

\* Each client has seen a gapless beginning of the thread it is on, each event
\* once and in order, whatever was appended during its replay and however often
\* it reconnected (threads.ts: replay after the watermark, then follow).
ViewIsPrefix ==
    \A x \in Clients :
        /\ client[x].view = [i \in DOMAIN client[x].view |-> i]
        /\ client[x].thread # Nil => Len(client[x].view) <= Len(streams[client[x].thread])

\* Nothing between the streams and the clients is still to move: no broadcast, no
\* page under way, no queued event on a sleeping loop that will wake, no frame.
AtRest ==
    /\ emitting = <<>>
    /\ \A c \in Conns : conn[c].state # "reading" /\ conn[c].queue = <<>> /\ conn[c].wire = <<>>

\* When nothing is under way any more, each connected client has seen all of
\* its thread.
AllDelivered ==
    AtRest => \A x \in Clients : client[x].conn # Nil =>
                  Len(client[x].view) = Len(streams[client[x].thread])

=============================================================================
