------------------------------- MODULE LogFeed -------------------------------
(***************************************************************************)
(* The feed of warnings and errors (internal/logfeed/logfeed.go) and the   *)
(* event stream that passes it on to browsers (handleEvents of             *)
(* internal/webui): a ring of log entries under one mutex, a channel of    *)
(* capacity one per subscriber, and per connected client a goroutine that  *)
(* sends the whole ring once and then an increment per signal. An action   *)
(* is one critical section of Feed.mu or one channel operation.            *)
(*                                                                         *)
(* An entry is represented by its sequence number.                         *)
(***************************************************************************)
EXTENDS Integers, Sequences

CONSTANTS
    Cap,        \* Feed.cap
    Client,     \* browsers; each may come back after its stream ended
    MaxSeq      \* bound: entries ever logged

ASSUME LogFeedAssumption == Cap \in Nat \ {0} /\ MaxSeq \in Nat

VARIABLES
    buf,        \* Feed.buf: the entry in each slot
    n,          \* Feed.n
    start,      \* Feed.start
    next,       \* Feed.next
    signal,     \* each client's channel: "none" (not subscribed), "empty", "full"
    stream,     \* where each client's goroutine is, and its local variables
    got,        \* history: entries sent since the client connected
    cuts        \* history: the values of lastLogSeq it asked increments with

feedVars == <<buf, n, start, next>>
streamVars == <<stream, got, cuts>>
allVars == <<feedVars, signal, streamVars>>

Slot == 0 .. Cap - 1
empty == MaxSeq     \* what an unused slot holds

Off == [pc |-> "off", last |-> 0, seq |-> 0]

FeedInit ==
    /\ buf = [i \in Slot |-> empty]
    /\ n = 0
    /\ start = 0
    /\ next = 0
    /\ signal = [c \in Client |-> "none"]
    /\ stream = [c \in Client |-> Off]
    /\ got = [c \in Client |-> {}]
    /\ cuts = [c \in Client |-> {}]

-----------------------------------------------------------------------------
(* Results of the feed's readers, newest entry first.                      *)
Snapshot == [i \in 1 .. n |-> buf[(start + n - i) % Cap]]

(* Faulty variant: the loop ends one slot early.                           *)
SinceNotNewest(seq) ==
    LET lo == IF seq > start THEN seq + 1 ELSE start IN
    IF n = 0 \/ seq >= next THEN << >>
    ELSE [i \in 1 .. next - lo - 1 |-> buf[(next - 1 - i) % Cap]]

Since(seq) ==
    LET lo == IF seq > start THEN seq + 1 ELSE start IN
    IF n = 0 \/ seq >= next THEN << >>
    ELSE [i \in 1 .. next - lo |-> buf[(next - i) % Cap]]

Entries(frame) == {frame[i] : i \in DOMAIN frame}

(* Faulty variant: the channels have no capacity, only who waits is told.  *)
BroadcastUnbuffered ==
    signal' = [c \in Client |-> IF stream[c].pc = "select" THEN "full" ELSE signal[c]]

(* Every subscriber's channel gets a token unless it holds one.            *)
Broadcast ==
    signal' = [c \in Client |-> IF signal[c] = "none" THEN "none" ELSE "full"]

(* Faulty variants: a full ring still counts up; a full ring tells nobody. *)
AddCountsOn ==
    /\ next < MaxSeq
    /\ buf' = [buf EXCEPT ![next % Cap] = next]
    /\ next' = next + 1
    /\ n' = n + 1
    /\ Broadcast
    /\ UNCHANGED <<start, streamVars>>

AddSilently ==
    /\ next < MaxSeq
    /\ buf' = [buf EXCEPT ![next % Cap] = next]
    /\ next' = next + 1
    /\ IF n < Cap THEN n' = n + 1 /\ Broadcast /\ UNCHANGED start
                  ELSE start' = start + 1 /\ UNCHANGED <<n, signal>>
    /\ UNCHANGED streamVars

(* A record of level warning or higher is logged.                          *)
Add ==
    /\ next < MaxSeq
    /\ buf' = [buf EXCEPT ![next % Cap] = next]
    /\ next' = next + 1
    /\ IF n < Cap THEN n' = n + 1 /\ UNCHANGED start
                  ELSE start' = start + 1 /\ UNCHANGED n
    /\ Broadcast
    /\ UNCHANGED streamVars

(* Faulty variant: the first number stays.                                 *)
ClearCountOnly ==
    /\ n' = 0
    /\ UNCHANGED <<buf, start, next, signal, streamVars>>

(* A user clears the list: DELETE /api/logs.                               *)
Clear ==
    /\ n' = 0
    /\ start' = next
    /\ UNCHANGED <<buf, next, signal, streamVars>>

-----------------------------------------------------------------------------
StreamAt(c, l) == stream[c].pc = l
StreamGoto(c, l) == stream' = [stream EXCEPT ![c].pc = l]

(* A client connects: its goroutine subscribes first ...                   *)
Subscribe(c) ==
    /\ StreamAt(c, "off")
    /\ signal' = [signal EXCEPT ![c] = "empty"]
    /\ StreamGoto(c, "replay")
    /\ UNCHANGED <<feedVars, got, cuts>>

(* ... and sends the whole ring.                                           *)
Replay(c) ==
    /\ StreamAt(c, "replay")
    /\ stream' = [stream EXCEPT ![c].pc = "write",
                    ![c].last = IF Snapshot = << >> THEN 0 ELSE Head(Snapshot)]
    /\ got' = [got EXCEPT ![c] = Entries(Snapshot)]
    /\ UNCHANGED <<feedVars, signal, cuts>>

(* The select: a token has come.                                           *)
Receive(c) ==
    /\ StreamAt(c, "select")
    /\ signal[c] = "full"
    /\ signal' = [signal EXCEPT ![c] = "empty"]
    /\ StreamGoto(c, "seq")
    /\ UNCHANGED <<feedVars, got, cuts>>

(* Feed.Seq and Feed.Since are two critical sections. (lastLogSeq is set   *)
(* after the write: nobody else reads it.)                                 *)
ReadSeq(c) ==
    /\ StreamAt(c, "seq")
    /\ stream' = [stream EXCEPT ![c].pc = "since", ![c].seq = next]
    /\ UNCHANGED <<feedVars, signal, got, cuts>>

SendIncrement(c) ==
    /\ StreamAt(c, "since")
    /\ got' = [got EXCEPT ![c] = @ \cup Entries(Since(stream[c].last))]
    /\ cuts' = [cuts EXCEPT ![c] = @ \cup {stream[c].last}]
    /\ stream' = [stream EXCEPT ![c].pc = "write", ![c].last = stream[c].seq]
    /\ UNCHANGED <<feedVars, signal>>

(* The frame is written to the connection, which may take its time.        *)
Written(c) ==
    /\ StreamAt(c, "write")
    /\ StreamGoto(c, "select")
    /\ UNCHANGED <<feedVars, signal, got, cuts>>

(* The client goes away, a write fails, or the application ends.           *)
Disconnect(c) ==
    /\ ~StreamAt(c, "off")
    /\ stream' = [stream EXCEPT ![c] = Off]
    /\ signal' = [signal EXCEPT ![c] = "none"]
    /\ got' = [got EXCEPT ![c] = {}]
    /\ cuts' = [cuts EXCEPT ![c] = {}]
    /\ UNCHANGED feedVars

Streaming(c) ==
    Replay(c) \/ Receive(c) \/ ReadSeq(c) \/ SendIncrement(c) \/ Written(c)

FeedNext ==
    \/ Add
    \/ Clear
    \/ \E c \in Client : Subscribe(c) \/ Streaming(c) \/ Disconnect(c)

(* A connected client's goroutine goes on; nobody has to log or connect.   *)
FeedSpec == FeedInit /\ [][FeedNext]_allVars /\ \A c \in Client : WF_allVars(Streaming(c))

-----------------------------------------------------------------------------
(* Types of the variables.                                                 *)
FeedTypeOK ==
    /\ buf \in [Slot -> 0 .. MaxSeq]
    /\ n \in 0 .. Cap
    /\ start \in 0 .. MaxSeq
    /\ next \in 0 .. MaxSeq
    /\ signal \in [Client -> {"none", "empty", "full"}]
    /\ stream \in [Client -> [pc : {"off", "replay", "select", "seq", "since", "write"},
                              last : 0 .. MaxSeq, seq : 0 .. MaxSeq]]
    /\ got \in [Client -> SUBSET (0 .. MaxSeq)]
    /\ cuts \in [Client -> SUBSET (0 .. MaxSeq)]

Buffered == start .. next - 1

(* The layout of the ring survives wrapping round and clearing in any      *)
(* order: the n latest entries are there, each in the slot of its number,  *)
(* so that a reader never meets an overwritten or unused slot.             *)
RingLayout ==
    /\ next = start + n
    /\ \A s \in Buffered : buf[s % Cap] = s

(* No signal is lost between the handler's reads and its select: a client  *)
(* that waits with an empty channel has been sent everything up to now, or *)
(* has at least compared with the number the next entry will have.         *)
WaitingIsUpToDate ==
    \A c \in Client :
        StreamAt(c, "select") /\ signal[c] = "empty" /\ n > 0
            => stream[c].last = next \/ next - 1 \in got[c]

(* What a waiting client misses of the ring is at most one entry per       *)
(* increment: the one whose number lastLogSeq held when it was asked for   *)
(* (Since skips it, although Seq had returned it as the next to come).     *)
OnlyCutsAreMissed ==
    \A c \in Client :
        StreamAt(c, "select") /\ signal[c] = "empty"
            => \A s \in Buffered : s \in got[c] \/ s \in cuts[c]

(* A client that waits has been sent every entry in the ring               *)
(* (handler_events.go: entries that come while it connects are made up for *)
(* by the increments, later ones are sent as they come).                   *)
NothingIsMissed ==
    \A c \in Client :
        StreamAt(c, "select") /\ signal[c] = "empty" => Buffered \subseteq got[c]

(* A new entry is eventually dealt with by each connected client's stream: *)
(* it is sent or passed over, it leaves the ring, or the client leaves.    *)
EntryIsDealtWith ==
    \A c \in Client, s \in 0 .. MaxSeq - 1 :
        ~StreamAt(c, "off") /\ s \in Buffered
            ~> \/ s \in got[c] \/ stream[c].last > s
               \/ s \notin Buffered \/ StreamAt(c, "off")

=============================================================================
