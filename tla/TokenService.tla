---------------------------- MODULE TokenService ----------------------------
(***************************************************************************)
(* Token sessions of im_server: auth/TokenService.cpp, the auth_sessions   *)
(* and auth_refresh_history tables of Database.cpp, and AuthHandler.cpp's  *)
(* onTokenRefresh and onLogout.                                            *)
(*                                                                         *)
(* Business strands (Workers) run requests in parallel.  rotateRefresh     *)
(* reads the clock, then holds m_refreshMtx; logout takes no lock, so it   *)
(* falls between the lookup and the write of a rotation.  Each database    *)
(* call is one step.  A restart loses the cache and the requests under     *)
(* way, not the tables; a client whose answer was lost calls again with    *)
(* the same request id.                                                    *)
(*                                                                         *)
(* Abstractions: the n-th pair of tokens is the number n (tokens are       *)
(* random, so never equal; their hashes identify them); an auth session is *)
(* also its family (issue() makes one of each).  The clock counts units of *)
(* which CacheTtl, IssueTtl and RotateTtl are lifetimes.  Access tokens are*)
(* only ever replaced together with their refresh token.                   *)
(***************************************************************************)
EXTENDS Naturals, FiniteSets

CONSTANTS
  AuthSessions, Users, Devices, Requests, Workers,
  None,
  CacheMax,                          \* 1024 remembered results
  CacheTtl,                          \* lifetime of a remembered result (120 s)
  IssueTtl, RotateTtl,               \* of a login's, of a rotated refresh token (2, 30 days)
  MaxPairs,                          \* bound: token pairs ever made
  MaxTime,                           \* bound: the clock
  MaxRestarts                        \* bound: restarts of the server

ASSUME TokenAssumption ==
  /\ None \notin AuthSessions \cup Workers \cup Users
  /\ CacheMax \in Nat \ {0}
  /\ {CacheTtl, IssueTtl, RotateTtl} \subseteq Nat \ {0}
  /\ {MaxPairs, MaxTime, MaxRestarts} \subseteq Nat

VARIABLES
  now,       \* the clock
  rows,      \* auth_sessions
  history,   \* auth_refresh_history: refresh tokens that were rotated
  cache,     \* m_refreshResults
  lock,      \* who holds m_refreshMtx
  work,      \* work[w]: the request worker w runs, with its local variables
  minted,    \* pairs made so far
  parent,    \* parent[n]: the refresh token pair n replaced, 0 for a login
  answers,   \* pairs sent in answer to refresh requests
  replays,   \* calls that were judged a replay
  restarts

vars == <<now, rows, history, cache, lock, work, minted, parent, answers, replays, restarts>>

PairIds == 1..MaxPairs
Times == 0..(MaxTime + CacheTtl + IssueTtl + RotateTtl)

\* A row of auth_sessions; pair 0: there is no such row yet.
NoRow == [pair |-> 0, user |-> None, device |-> None, refreshExp |-> 0,
          revoked |-> FALSE]
RefreshCall == [op : {"refresh"}, token : PairIds, device : Devices, req : Requests]
LogoutCall == [op : {"logout"}, token : PairIds, device : Devices, all : BOOLEAN]
Call == RefreshCall \cup LogoutCall
Idle == [pc |-> "idle", call |-> None, now |-> 0, found |-> None]

Init ==
  /\ now = 0
  /\ rows = [s \in AuthSessions |-> NoRow]
  /\ history = {} /\ cache = {}
  /\ lock = None
  /\ work = [w \in Workers |-> Idle]
  /\ minted = 0 /\ parent = [n \in PairIds |-> 0]
  /\ answers = {} /\ replays = {} /\ restarts = 0

-----------------------------------------------------------------------------
(* The database.                                                           *)

\* findByRefreshHash: the session whose current refresh token this is.
FindByRefresh(token) ==
  LET hits == {s \in AuthSessions : rows[s].pair = token}
  IN IF hits = {} THEN None ELSE CHOOSE s \in hits : TRUE

\* wasRefreshTokenUsed and revokeTokenFamily.
UsedBy(token) == {h.family : h \in {x \in history : x.token = token}}
Revoke(S) == [s \in AuthSessions |->
                IF s \in S THEN [rows[s] EXCEPT !.revoked = TRUE] ELSE rows[s]]

Mint(token) ==
  /\ minted < MaxPairs
  /\ minted' = minted + 1
  /\ parent' = [parent EXCEPT ![minted + 1] = token]

-----------------------------------------------------------------------------
(* Requests.                                                               *)

\* issue(): a login opens a token session.
Issue(s, u, d) ==
  /\ rows[s].pair = 0
  /\ Mint(0)
  /\ rows' = [rows EXCEPT ![s] = [pair |-> minted + 1, user |-> u, device |-> d,
                                  refreshExp |-> now + IssueTtl, revoked |-> FALSE]]
  /\ UNCHANGED <<now, history, cache, lock, work, answers, replays, restarts>>

\* A request arrives on a strand; a refresh reads the clock before it waits for the
\* mutex.
Receive(w, c) ==
  /\ work[w].pc = "idle" /\ c.token <= minted
  /\ work' = [work EXCEPT ![w] = [pc |-> IF c.op = "refresh" THEN "lock" ELSE "find",
                                  call |-> c, now |-> now, found |-> None]]
  /\ UNCHANGED <<now, rows, history, cache, lock, minted, parent, answers, replays, restarts>>

At(w, pc) == work[w].pc = pc
Goto(w, pc, s) == work' = [work EXCEPT ![w] = [@ EXCEPT !.pc = pc, !.found = s]]
Finish(w) == work' = [work EXCEPT ![w] = Idle]

Fresh(t) == {e \in cache : e.expiresAt > t}
Answer(c, n) == answers' = answers \cup {[call |-> c, pair |-> n]}
Refuse == UNCHANGED answers

\* Slip: the remembered token and device are not compared.
CachedForAnyToken(w) ==
  /\ At(w, "lock") /\ lock = None
  /\ LET c == work[w].call IN
       \E e \in Fresh(work[w].now) : e.req = c.req /\ Answer(c, e.pair)
  /\ cache' = Fresh(work[w].now)
  /\ Finish(w)
  /\ UNCHANGED <<now, rows, history, lock, minted, parent, replays, restarts>>

\* The request id is remembered: the same answer again, or none if the request is not
\* the same one.
RefreshCached(w) ==
  /\ At(w, "lock") /\ lock = None
  /\ LET c == work[w].call IN
       \E e \in Fresh(work[w].now) :
         /\ e.req = c.req
         /\ IF e.token = c.token /\ e.device = c.device THEN Answer(c, e.pair) ELSE Refuse
  /\ cache' = Fresh(work[w].now)
  /\ Finish(w)
  /\ UNCHANGED <<now, rows, history, lock, minted, parent, replays, restarts>>

\* Otherwise the token is looked up.  A row that is revoked, expired or of another
\* device ends the request; no row at all may mean that the token was used before.
RefreshFind(w) ==
  /\ At(w, "lock") /\ lock = None
  /\ cache' = Fresh(work[w].now)
  /\ LET c == work[w].call
         s == FindByRefresh(c.token)
     IN /\ \A e \in cache' : e.req # c.req
        /\ IF s # None /\ (\/ rows[s].revoked \/ rows[s].refreshExp <= work[w].now
                           \/ rows[s].device # c.device)
           THEN Finish(w) /\ UNCHANGED lock
           ELSE Goto(w, IF s = None THEN "replay" ELSE "rotate", s) /\ lock' = w
        /\ Refuse
  /\ UNCHANGED <<now, rows, history, minted, parent, replays, restarts>>

\* wasRefreshTokenUsed, revokeTokenFamily: the whole family goes.
RefreshReplay(w) ==
  /\ At(w, "replay")
  /\ LET c == work[w].call IN
       /\ rows' = Revoke(UsedBy(c.token))
       /\ replays' = IF UsedBy(c.token) = {} THEN replays ELSE replays \cup {c}
       /\ Refuse
  /\ lock' = None
  /\ Finish(w)
  /\ UNCHANGED <<now, history, cache, minted, parent, restarts>>

\* Slip: the result is not remembered.
RememberNothing(c, n, t) == cache' = cache

\* What is remembered of a result; an arbitrary older one makes room.
Remember(c, n, t) ==
  LET entry == [req |-> c.req, token |-> c.token, device |-> c.device, pair |-> n,
                expiresAt |-> t + CacheTtl]
  IN IF Cardinality(cache) >= CacheMax
     THEN \E e \in cache : cache' = (cache \ {e}) \cup {entry}
     ELSE cache' = cache \cup {entry}

\* Slip: the update does not ask for revoked=0.
RotateRevoked(w) ==
  /\ At(w, "rotate")
  /\ LET c == work[w].call
         s == work[w].found
     IN /\ rows[s].pair = c.token
        /\ Mint(c.token)
        /\ history' = history \cup {[family |-> s, token |-> c.token]}
        /\ rows' = [rows EXCEPT ![s].pair = minted + 1,
                                ![s].refreshExp = work[w].now + RotateTtl]
        /\ Remember(c, minted + 1, work[w].now)
        /\ Answer(c, minted + 1)
  /\ lock' = None
  /\ Finish(w)
  /\ UNCHANGED <<now, replays, restarts>>

\* Slip: the used token is not put into the history.
RotateNoHistory(w) ==
  /\ At(w, "rotate")
  /\ LET c == work[w].call
         s == work[w].found
     IN /\ rows[s].pair = c.token /\ ~rows[s].revoked
        /\ Mint(c.token)
        /\ rows' = [rows EXCEPT ![s].pair = minted + 1,
                                ![s].refreshExp = work[w].now + RotateTtl]
        /\ Remember(c, minted + 1, work[w].now)
        /\ Answer(c, minted + 1)
  /\ lock' = None
  /\ Finish(w)
  /\ UNCHANGED <<now, history, replays, restarts>>

\* rotateRefreshToken: one transaction, on the row as it was found and not revoked.
RefreshRotate(w) ==
  /\ At(w, "rotate")
  /\ LET c == work[w].call
         s == work[w].found
     IN /\ rows[s].pair = c.token /\ ~rows[s].revoked
        /\ Mint(c.token)
        /\ history' = history \cup {[family |-> s, token |-> c.token]}
        /\ rows' = [rows EXCEPT ![s].pair = minted + 1,
                                ![s].refreshExp = work[w].now + RotateTtl]
        /\ Remember(c, minted + 1, work[w].now)
        /\ Answer(c, minted + 1)
  /\ lock' = None
  /\ Finish(w)
  /\ UNCHANGED <<now, replays, restarts>>

\* The transaction changed no row, or the database failed: was the token used?
RefreshRotateFails(w) ==
  /\ At(w, "rotate")
  /\ Goto(w, "replay", work[w].found)
  /\ UNCHANGED <<now, rows, history, cache, lock, minted, parent, answers, replays, restarts>>

\* onLogout: the session is looked up, then (one or all of the user's) revoked.  The
\* connection's own session must be the one found, which the client's is.
LogoutFind(w) ==
  /\ At(w, "find")
  /\ LET c == work[w].call
         s == FindByRefresh(c.token)
     IN IF s = None \/ rows[s].revoked \/ rows[s].device # c.device
        THEN Finish(w)
        ELSE Goto(w, "revoke", s)
  /\ UNCHANGED <<now, rows, history, cache, lock, minted, parent, answers, replays, restarts>>

LogoutRevoke(w) ==
  /\ At(w, "revoke")
  /\ LET s == work[w].found IN
       rows' = Revoke(IF work[w].call.all
                      THEN {t \in AuthSessions : rows[t].user = rows[s].user} ELSE {s})
  /\ Finish(w)
  /\ UNCHANGED <<now, history, cache, lock, minted, parent, answers, replays, restarts>>

-----------------------------------------------------------------------------

Tick ==
  /\ now < MaxTime
  /\ now' = now + 1
  /\ UNCHANGED <<rows, history, cache, lock, work, minted, parent, answers, replays, restarts>>

Restart ==
  /\ restarts < MaxRestarts
  /\ restarts' = restarts + 1
  /\ cache' = {} /\ lock' = None
  /\ work' = [w \in Workers |-> Idle]
  /\ UNCHANGED <<now, rows, history, minted, parent, answers, replays>>

Next ==
  \/ \E s \in AuthSessions, u \in Users, d \in Devices : Issue(s, u, d)
  \/ \E w \in Workers :
       \/ \E c \in Call : Receive(w, c)
       \/ RefreshCached(w) \/ RefreshFind(w) \/ RefreshReplay(w)
       \/ RefreshRotate(w) \/ RefreshRotateFails(w)
       \/ LogoutFind(w) \/ LogoutRevoke(w)
  \/ Tick \/ Restart

Spec == Init /\ [][Next]_vars

-----------------------------------------------------------------------------
(* Properties.                                                             *)

\* Every variable has the type of the member or table it stands for.
TypeOK ==
  /\ now \in 0..MaxTime
  /\ rows \in [AuthSessions -> [pair : 0..MaxPairs, user : Users \cup {None},
                                device : Devices \cup {None}, refreshExp : Times,
                                revoked : BOOLEAN]]
  /\ history \subseteq [family : AuthSessions, token : PairIds]
  /\ cache \subseteq [req : Requests, token : PairIds, device : Devices, pair : PairIds,
                      expiresAt : Times]
  /\ lock \in Workers \cup {None}
  /\ work \in [Workers -> [pc : {"idle", "lock", "replay", "rotate", "find", "revoke"},
                           call : Call \cup {None}, now : 0..MaxTime,
                           found : AuthSessions \cup {None}]]
  /\ minted \in 0..MaxPairs /\ parent \in [PairIds -> 0..MaxPairs]
  /\ answers \subseteq [call : RefreshCall, pair : PairIds]
  /\ replays \subseteq RefreshCall
  /\ restarts \in 0..MaxRestarts

\* A refresh token buys one pair: whoever presents it, on whatever strand, however
\* often, and across restarts, all successful answers carry the same pair.  (With
\* the types.)
SingleUse ==
  /\ TypeOK
  /\ \A x, y \in answers : x.call.token = y.call.token => x.pair = y.pair

\* A replay is always detectable: every refresh token made is the current one of its
\* session or is in the history table, after a restart too.
ReplayDetectable ==
  \A n \in 1..minted :
    (\E s \in AuthSessions : rows[s].pair = n) \/ (\E h \in history : h.token = n)

\* Revocation is final: no rotation that was under way when the session was revoked
\* gives it a new pair.
RevokedIsFinal ==
  [][\A s \in AuthSessions :
       rows[s].revoked => rows'[s].revoked /\ rows'[s].pair = rows[s].pair]_vars

\* "The server must return the same pair generated the first time and must not judge
\* it a replay": the retry of an answered request is judged a replay only if the
\* remembered results were lost with the process, grew old or had to make room.
RetryIsNotReplay ==
  \A a \in answers :
    a.call \in replays => restarts > 0 \/ now >= CacheTtl \/ Cardinality(history) > CacheMax

=============================================================================
