------------------------------ MODULE Roaming ------------------------------
(***************************************************************************)
(* Roaming: one conversation of one user, as the server has it, as the     *)
(* Android client shows it (MainViewModel) and as the client keeps it in   *)
(* its own database (ChatStore).  A page of history is asked for with a    *)
(* cursor, loadedMinSeq; live messages, messages resent after a login, the *)
(* local database and pages all flow into one list, in any order.          *)
(*                                                                         *)
(* collectEvents handles one event at a time; whatever it launches (a send,*)
(* a save, hydrate) runs later.  On the server the login and the requests  *)
(* of this connection are taken in order; the peer's strand saves a message*)
(* and delivers it in two steps.                                           *)
(*                                                                         *)
(* Abstractions: the list is a function from messages to sequence numbers  *)
(* (0 while the server has given none), since it is kept sorted by them;   *)
(* contents, unread counts and previews are absent.  The user waits for the*)
(* events of an old connection before logging in again, always the same    *)
(* user.                                                                   *)
(***************************************************************************)
EXTENDS Integers, Sequences, FiniteSets, FiniteSetsExt

CONSTANTS
    Msg,          \* messages of the conversation
    Mine,         \* those this device sends
    History,      \* messages stored before this device was ever used
    PageSize,     \* PAGE_SIZE, which the server caps at 100
    MaxConns      \* bound: connections of this device

ASSUME RoamingAssumption ==
    /\ IsFiniteSet(Msg) /\ Mine \subseteq Msg
    /\ History \in Seq(Msg \ Mine)
    /\ \A i, j \in DOMAIN History : History[i] = History[j] => i = j   \* msg_id is unique
    /\ PageSize \in 1..100 /\ MaxConns \in Nat \ {0}

Absent == -1                     \* not in the list
Latest == Cardinality(Msg) + 1   \* Long.MAX_VALUE, above every sequence number

VARIABLES
    \* the server
    log,          \* the conversation's rows in messages, in order of seq
    waiting,      \* rows not yet delivered
    posted,       \* rows saved for this session, deliver() still to come
    online,       \* the server counts this device's session as the user's
    \* the connection
    conns,        \* connections so far
    link,         \* "up" or "none"
    up,           \* requests on the way to the server
    down,         \* frames on the way to collectEvents
    \* MainViewModel
    screen,       \* "login" or "in"
    opened,       \* the conversation has been opened (backToFriends is to wait)
    mem,          \* _messages
    loadedMinSeq, \* the cursor, 0 when there is none
    roamHasMore,  \* "null", "yes" or "no"
    roamLoading,
    \* ChatStore
    disk,         \* Room's messages table
    hydrating,    \* "none", "opening", "reading", "merging", "done", or "late": read
                  \* before resetToLogin closed the store, merged after it
    snapshot,     \* what hydrate has read
    saving,       \* inserts and updates not yet done
    \* history
    missed,       \* messages this device may never show: see Lose, Leave, Elsewhere
    stuck,        \* a history request or its answer was lost
    raced         \* messages whose number a save or a merge has lost

server == <<log, waiting, posted, online>>
wire == <<conns, link, up, down>>
paging == <<loadedMinSeq, roamHasMore, roamLoading>>
store == <<disk, hydrating, snapshot, saving>>
history == <<missed, stuck, raced>>
vars == <<server, wire, screen, opened, mem, paging, store, history>>

Nothing == [m \in Msg |-> Absent]
Shown(list) == {m \in Msg : list[m] # Absent}
Seqs == 1..Len(log)
SeqOf(m) == CHOOSE i \in Seqs : log[i] = m
InLog(m) == \E i \in Seqs : log[i] = m

Ev(t) == [type |-> t, m |-> 0, seq |-> 0, page |-> {}, more |-> FALSE]
Chat(m) == [Ev("CHAT") EXCEPT !.m = m, !.seq = SeqOf(m)]
Types(q) == {q[i].type : i \in DOMAIN q}

Init ==
    /\ log = History /\ waiting = {} /\ posted = {} /\ online = FALSE
    /\ conns = 0 /\ link = "none" /\ up = <<>> /\ down = <<>>
    /\ screen = "login" /\ opened = FALSE
    /\ mem = Nothing /\ disk = Nothing
    /\ loadedMinSeq = 0 /\ roamHasMore = "null" /\ roamLoading = FALSE
    /\ hydrating = "none" /\ snapshot = Nothing /\ saving = {}
    /\ missed = {} /\ stuck = FALSE /\ raced = {}

(***************************************************************************)
(* The peer, and the user's other devices.                                 *)
(***************************************************************************)
\* onChat of the peer: the receiver is looked up, the message is saved ...
PeerSaves ==
    \E m \in Msg \ Mine :
        /\ ~InLog(m)
        /\ log' = Append(log, m)
        /\ IF online THEN posted' = posted \cup {m} /\ UNCHANGED waiting
           ELSE waiting' = waiting \cup {m} /\ UNCHANGED posted
        /\ UNCHANGED <<online, wire, screen, opened, mem, paging, store, history>>

\* ... and delivered to the session found, if it is still there.
PeerDelivers ==
    \E m \in posted :
        /\ posted' = posted \ {m}
        /\ IF online /\ link = "up"
           THEN down' = Append(down, Chat(m)) /\ UNCHANGED missed
           ELSE missed' = missed \cup {m} /\ UNCHANGED down
        /\ UNCHANGED <<log, waiting, online, conns, link, up, screen, opened, mem, paging, store,
                       stuck, raced>>

\* Another device of the user logs in and gets what waits.
Elsewhere ==
    /\ ~online /\ waiting # {}
    /\ missed' = missed \cup waiting
    /\ waiting' = {}
    /\ UNCHANGED <<log, posted, online, wire, screen, opened, mem, paging, store, stuck, raced>>

(***************************************************************************)
(* The server, for this connection.                                        *)
(***************************************************************************)
Served(t) == link = "up" /\ up # <<>> /\ Head(up).type = t /\ up' = Tail(up)

\* The k-th row of a set of rows, in order.
Nth(rows, k) == CHOOSE i \in rows : Cardinality({j \in rows : j < i}) = k - 1

\* Database::pullUndelivered: ... ORDER BY ts ASC, id ASC, the order of the rows.
WaitingRows == {i \in Seqs : log[i] \in waiting}
Resent == [k \in 1..Cardinality(WaitingRows) |-> Chat(log[Nth(WaitingRows, k)])]

\* activateSession: the result, then everything that waits, in order.
ServeLogin ==
    /\ Served("LOGIN") \/ Served("TOKEN")
    /\ online' = TRUE
    /\ down' = Append(down, Head(up)) \o Resent
    /\ waiting' = {}
    /\ UNCHANGED <<log, posted, conns, link, screen, opened, mem, paging, store, history>>

ServeChat ==
    LET m == Head(up).m
        seq == IF InLog(m) THEN SeqOf(m) ELSE Len(log) + 1
    IN  /\ Served("CHAT")
        /\ log' = IF InLog(m) THEN log ELSE Append(log, m)
        /\ down' = Append(down, [Ev("ACK") EXCEPT !.m = m, !.seq = seq])
        /\ UNCHANGED <<waiting, posted, online, conns, link, screen, opened, mem, paging, store, history>>

\* Slip: the row at the cursor comes again.
RowsFrom(before) ==
    LET older == {i \in Seqs : i <= before}
    IN  {i \in older : Cardinality({j \in older : j > i}) < PageSize}

\* Database::roamMessages: ... AND seq < ? ORDER BY seq DESC LIMIT ?
roamMessages(before) ==
    LET older == {i \in Seqs : i < before}
    IN  {i \in older : Cardinality({j \in older : j > i}) < PageSize}

\* RoamHandler::onMessages: has_more when the page is full; the client takes the
\* smallest number from min_seq, 0 for an empty page.
ServeRoam ==
    LET rows == roamMessages(Head(up).seq)
    IN  /\ Served("ROAM")
        /\ down' = Append(down, [Ev("PAGE") EXCEPT
                                   !.page = {log[i] : i \in rows},
                                   !.seq = IF rows = {} THEN 0 ELSE Min(rows),
                                   !.more = Cardinality(rows) = PageSize])
        /\ UNCHANGED <<server, conns, link, screen, opened, mem, paging, store, history>>

\* The server's own end of a lost connection.
ServerNotices ==
    /\ online /\ link = "none"
    /\ online' = FALSE
    /\ UNCHANGED <<log, waiting, posted, wire, screen, opened, mem, paging, store, history>>

(***************************************************************************)
(* The connection and the process.                                         *)
(***************************************************************************)
\* login(), or one round of startReconnect, which logs in with the token.
Connect ==
    /\ link = "none" /\ down = <<>> /\ hydrating # "late" /\ conns < MaxConns
    /\ conns' = conns + 1
    /\ link' = "up"
    /\ up' = <<Ev(IF screen = "login" THEN "LOGIN" ELSE "TOKEN")>>
    /\ UNCHANGED <<server, down, screen, opened, mem, paging, store, history>>

\* A connection ends: k frames have come through, the others and all requests are
\* gone, and with them the messages the server has marked delivered.
Drop(k) ==
    LET cut == {down[i] : i \in (k + 1)..Len(down)}
    IN  /\ link' = "none" /\ up' = <<>>
        /\ missed' = missed \cup {e.m : e \in {f \in cut : f.type = "CHAT"}} \cup posted
        /\ posted' = {}
        /\ stuck' = (stuck \/ "ROAM" \in Types(up) \/ "PAGE" \in {e.type : e \in cut})
        /\ UNCHANGED conns

Lose ==
    /\ link = "up"
    /\ \E k \in 0..Len(down) : Drop(k) /\ down' = SubSeq(down, 1, k)
    /\ UNCHANGED <<log, waiting, online, screen, opened, mem, paging, store, raced>>

\* resetToLogin, or the end of the process: memory is gone, the database is closed
\* and keeps what has been saved.  resetToLogin does not stop the coroutine of
\* LoginResult: an openStore under way opens the store again, a merge still comes.
Reset(ended) ==
    /\ screen' = "login" /\ opened' = FALSE
    /\ mem' = Nothing
    /\ loadedMinSeq' = 0 /\ roamHasMore' = "null" /\ roamLoading' = FALSE
    /\ hydrating' = CASE ended -> "none"
                      [] hydrating = "opening" -> "opening"
                      [] hydrating = "merging" -> "late"
                      [] OTHER -> "none"
    /\ snapshot' = IF ended THEN Nothing ELSE snapshot
    /\ saving' = {}
    /\ UNCHANGED <<log, waiting, online, disk, raced>>

\* What was shown and not saved is not shown by the next hydrate.
Unsaved == Shown(mem) \ Shown(disk)

\* logout(), KickedOffline, a reconnection given up: frames already emitted are
\* still handled afterwards.  When the process ends (also by the exception of a
\* send without a connection) they are not.
Leave(ended) ==
    \E k \in 0..(IF ended THEN 0 ELSE Len(down)) :
        /\ down' = SubSeq(down, 1, k)
        /\ link' = "none" /\ up' = <<>> /\ UNCHANGED conns
        /\ missed' = missed \cup posted \cup Unsaved
                            \cup {down[i].m : i \in {j \in (k + 1)..Len(down) : down[j].type = "CHAT"}}
        /\ posted' = {}
        /\ stuck' = FALSE
        /\ Reset(ended)

Logout == screen = "in" /\ Leave(FALSE)
ProcessEnds == screen = "in" /\ Leave(TRUE)

(***************************************************************************)
(* MainViewModel: the user.                                                *)
(***************************************************************************)
\* requestHistory.  Without a connection the request vanishes into a dead socket
\* or its send throws, which ends the process.
Request(before) ==
    IF roamLoading THEN UNCHANGED <<up, roamLoading, stuck>>
    ELSE /\ roamLoading' = TRUE
         /\ IF link = "up"
            THEN up' = Append(up, [Ev("ROAM") EXCEPT !.seq = before]) /\ UNCHANGED stuck
            ELSE stuck' = TRUE /\ UNCHANGED up

Numbered == {m \in Msg : mem[m] > 0}

openChat ==
    /\ screen = "in"
    /\ opened' = TRUE
    /\ IF Shown(mem) = {} \/ (loadedMinSeq = 0 /\ Numbered = {})
       THEN Request(Latest) /\ UNCHANGED <<loadedMinSeq, roamHasMore>>
       ELSE /\ IF loadedMinSeq = 0
               THEN loadedMinSeq' = Min({mem[m] : m \in Numbered}) /\ roamHasMore' = "yes"
               ELSE UNCHANGED <<loadedMinSeq, roamHasMore>>
            /\ UNCHANGED <<up, roamLoading, stuck>>
    /\ UNCHANGED <<server, conns, link, down, screen, mem, store, missed, raced>>

\* The list is scrolled to its top.
loadMoreHistory ==
    /\ opened /\ roamHasMore # "no" /\ ~roamLoading /\ loadedMinSeq # 0
    /\ Request(loadedMinSeq)
    /\ UNCHANGED <<server, conns, link, down, screen, opened, mem, loadedMinSeq, roamHasMore, store,
                   missed, raced>>

\* append: into the list if it is not there, and to the database if one is open.
Insert(m, seq) == [op |-> "insert", m |-> m, seq |-> seq]
StoreOpen == hydrating \in {"reading", "merging", "done"}
append(new) ==
    LET fresh == {p \in new : mem[p.m] = Absent}
        isNew(m) == \E p \in fresh : p.m = m
    IN  /\ mem' = [m \in Msg |-> IF isNew(m) THEN (CHOOSE p \in fresh : p.m = m).seq ELSE mem[m]]
        /\ saving' = IF StoreOpen THEN saving \cup fresh ELSE saving

\* send(): the message is shown at once, without a number.
SendChat ==
    \E m \in Mine :
        /\ opened /\ link = "up" /\ mem[m] = Absent /\ disk[m] = Absent /\ ~InLog(m)
        /\ append({Insert(m, 0)})
        /\ up' = Append(up, [Ev("CHAT") EXCEPT !.m = m])
        /\ UNCHANGED <<server, conns, link, down, screen, opened, paging, disk, hydrating, snapshot,
                       history>>

(***************************************************************************)
(* MainViewModel: collectEvents.                                           *)
(***************************************************************************)
Collect(t) == down # <<>> /\ Head(down).type = t /\ down' = Tail(down)

\* LoginResult opens the store; TokenLoginResult finds everything as it was.
OnLogin ==
    /\ Collect("LOGIN")
    /\ screen' = "in"
    /\ hydrating' = "opening"
    /\ UNCHANGED <<server, conns, link, up, opened, mem, paging, disk, snapshot, saving, history>>

OnTokenLogin ==
    /\ Collect("TOKEN")
    /\ UNCHANGED <<server, conns, link, up, screen, opened, mem, paging, store, history>>

OnChat ==
    /\ Collect("CHAT")
    /\ append({Insert(Head(down).m, Head(down).seq)})
    /\ UNCHANGED <<server, conns, link, up, screen, opened, paging, disk, hydrating, snapshot, history>>

\* Slip: the number is not written to the database.
AckInMemory ==
    LET e == Head(down)
    IN  /\ Collect("ACK")
        /\ mem' = [mem EXCEPT ![e.m] = IF @ = Absent THEN @ ELSE e.seq]
        /\ UNCHANGED <<server, conns, link, up, screen, opened, paging, store, history>>

\* ChatSendResult: updateStatus gives the message its number, in both places.
OnAck ==
    LET e == Head(down)
    IN  /\ Collect("ACK")
        /\ mem' = [mem EXCEPT ![e.m] = IF @ = Absent THEN @ ELSE e.seq]
        /\ saving' = IF StoreOpen /\ mem[e.m] # Absent
                     THEN saving \cup {[op |-> "update", m |-> e.m, seq |-> e.seq]} ELSE saving
        /\ UNCHANGED <<server, conns, link, up, screen, opened, paging, disk, hydrating, snapshot,
                       history>>

\* RoamMessages: append all, move the cursor down, allow the next request.
TakePage(cursor, loading) ==
    LET e == Head(down)
    IN  /\ Collect("PAGE")
        /\ append({Insert(m, SeqOf(m)) : m \in e.page})
        /\ loadedMinSeq' = cursor
        /\ roamHasMore' = IF e.more THEN "yes" ELSE "no"
        /\ roamLoading' = loading
        /\ UNCHANGED <<server, conns, link, up, screen, opened, disk, hydrating, snapshot, history>>

MinCursor == IF Head(down).seq > 0 /\ (loadedMinSeq = 0 \/ Head(down).seq < loadedMinSeq)
             THEN Head(down).seq ELSE loadedMinSeq

\* Slip: the cursor goes one below the smallest number of the page.
PagePastMin == down # <<>> /\ TakePage(IF MinCursor > 1 THEN MinCursor - 1 ELSE MinCursor, FALSE)

\* Slip: an empty page does not end the loading.
PageKeepsLoading == down # <<>> /\ TakePage(MinCursor, Head(down).page = {})

OnPage == down # <<>> /\ TakePage(MinCursor, FALSE)

(***************************************************************************)
(* ChatStore.                                                              *)
(***************************************************************************)
Hydrate(from, to) == hydrating = from /\ hydrating' = to

openStore ==
    /\ Hydrate("opening", "reading")
    /\ UNCHANGED <<server, wire, screen, opened, mem, paging, disk, snapshot, saving, history>>

hydrate ==
    /\ Hydrate("reading", "merging")
    /\ snapshot' = disk
    /\ UNCHANGED <<server, wire, screen, opened, mem, paging, disk, saving, history>>

\* mergeMessages: what the database had wins over what is in memory now.
mergeMessages ==
    /\ Hydrate("merging", "done") \/ Hydrate("late", "none")
    /\ mem' = [m \in Msg |-> IF snapshot[m] # Absent THEN snapshot[m] ELSE mem[m]]
    /\ raced' = raced \cup {m \in Msg : snapshot[m] = 0 /\ mem[m] > 0}
    /\ snapshot' = Nothing
    /\ UNCHANGED <<server, wire, screen, opened, paging, disk, saving, missed, stuck>>

\* One insert or update on an I/O thread; their order is open.
Save ==
    \E p \in saving :
        /\ saving' = saving \ {p}
        /\ disk' = IF (p.op = "insert") = (disk[p.m] = Absent)
                   THEN [disk EXCEPT ![p.m] = p.seq] ELSE disk
        /\ raced' = IF p.op = "update" /\ disk[p.m] = Absent THEN raced \cup {p.m} ELSE raced
        /\ UNCHANGED <<server, wire, screen, opened, mem, paging, hydrating, snapshot, missed, stuck>>

ServerStep == ServeLogin \/ ServeChat \/ ServeRoam
Event == OnLogin \/ OnTokenLogin \/ OnChat \/ OnAck \/ OnPage
StoreStep == openStore \/ hydrate \/ mergeMessages \/ Save

Next ==
    \/ PeerSaves \/ PeerDelivers \/ Elsewhere \/ ServerStep \/ ServerNotices
    \/ Connect \/ Lose \/ Logout \/ ProcessEnds
    \/ openChat \/ loadMoreHistory \/ SendChat
    \/ Event \/ StoreStep

\* Both sides handle what comes, and a reader at the top of the list scrolls on.
Fairness ==
    /\ WF_vars(ServerStep) /\ WF_vars(Event) /\ WF_vars(StoreStep)
    /\ WF_vars(loadMoreHistory)

Spec == Init /\ [][Next]_vars /\ Fairness

-----------------------------------------------------------------------------
\* Shown, or certain to come without being asked for.
Known(m) ==
    \/ mem[m] # Absent
    \/ m \in waiting \cup posted \cup missed
    \/ \E i \in DOMAIN down : down[i].type = "CHAT" /\ down[i].m = m
    \/ disk[m] # Absent /\ hydrating # "done"

\* Paging skips nothing: every message from the cursor on, and every message once
\* roamHasMore is false, is shown or about to be, whatever live messages, resent
\* ones, hydrate and late pages do to the list; except those in missed.
NothingSkipped ==
    \A i \in Seqs :
        (roamHasMore = "no" \/ (loadedMinSeq > 0 /\ i >= loadedMinSeq)) => Known(log[i])

Outstanding ==
    Cardinality({i \in DOMAIN up : up[i].type = "ROAM"}) +
    Cardinality({i \in DOMAIN down : down[i].type = "PAGE"})

\* roamLoading allows one page at a time and is held by nothing but an open
\* request: it is set exactly while a request or its answer is on the way, unless
\* one was lost with its connection (then it stays until resetToLogin).
OnePageAtATime ==
    /\ Outstanding <= 1
    /\ screen = "in" /\ ~stuck => (roamLoading <=> Outstanding = 1)

\* The number the server gave to a message reaches the list and, once the saves
\* are through, the database, unless hydrate or the order of the saves lost it.
NumberSticks ==
    \A m \in Mine \ raced :
        /\ mem[m] > 0 => log[mem[m]] = m
        /\ mem[m] > 0 /\ saving = {} /\ hydrating = "done" /\ disk[m] # Absent => disk[m] = mem[m]

\* A reader who scrolls up reaches the beginning, as long as the connection holds
\* and no request has been lost.
HistoryCompletes ==
    (opened /\ link = "up" /\ ~stuck)
        ~> (roamHasMore = "no" \/ ~opened \/ link # "up" \/ stuck)
=============================================================================
