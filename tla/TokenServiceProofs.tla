------------------------- MODULE TokenServiceProofs -------------------------
(***************************************************************************)
(* Proofs about TokenService for any users, devices, strands and request   *)
(* ids, any size and lifetime of the cache and any number of restarts.     *)
(***************************************************************************)
EXTENDS TokenService, FiniteSetTheorems, TLAPS

\* What a request has found out so far, and who holds m_refreshMtx.
Requested ==
  \A w \in Workers :
    /\ work[w].pc \in {"lock", "replay", "rotate"} => work[w].call \in RefreshCall
    /\ work[w].pc \in {"find", "revoke"} => work[w].call \in LogoutCall
    /\ work[w].pc \in {"rotate", "revoke"} =>
         work[w].found \in AuthSessions /\ rows[work[w].found].pair # 0
    /\ work[w].pc \in {"replay", "rotate"} => lock = w
    /\ work[w].now <= now

\* The pairs form chains: a pair replaces an older one, which nothing else replaced,
\* and the current pair of a session has not been replaced.
Lineage ==
  /\ \A n \in PairIds : parent[n] < n /\ (n > minted => parent[n] = 0)
  /\ \A m, n \in PairIds : parent[m] = parent[n] /\ parent[m] # 0 => m = n
  /\ \A s \in AuthSessions : rows[s].pair <= minted
  /\ \A s \in AuthSessions, n \in PairIds : parent[n] # 0 => parent[n] # rows[s].pair
  /\ \A s, t \in AuthSessions : rows[s].pair = rows[t].pair /\ rows[s].pair # 0 => s = t
  /\ \A h \in history : rows[h.family].pair # 0 /\ \E n \in PairIds : parent[n] = h.token

\* A session that does not exist yet belongs to nobody and is not revoked.
Existing ==
  \A s \in AuthSessions : /\ rows[s].pair # 0 => rows[s].user # None
                          /\ rows[s].pair = 0 => rows[s].user = None /\ ~rows[s].revoked

\* What is answered or remembered is the pair that replaced the token.
Answered ==
  /\ \A a \in answers : parent[a.pair] = a.call.token
  /\ \A e \in cache : \E a \in answers :
       /\ a.pair = e.pair /\ a.call.token = e.token
       /\ a.call.device = e.device /\ a.call.req = e.req

\* The cache is never larger than the history, so a result has to make room only
\* when the history has outgrown the cache.
Remembered ==
  /\ IsFiniteSet(cache) /\ IsFiniteSet(history)
  /\ Cardinality(cache) <= Cardinality(history)
  /\ \A e \in cache : e.expiresAt >= CacheTtl
  /\ \A w \in Workers : work[w].pc \in {"replay", "rotate"} =>
       \A e \in cache : e.req # work[w].call.req
  /\ restarts = 0 /\ now < CacheTtl /\ Cardinality(history) <= CacheMax =>
       \A a \in answers : \E e \in cache : e.req = a.call.req
  /\ \A c \in replays : \E h \in history : h.token = c.token

IInv == TypeOK /\ Requested /\ Lineage /\ Existing /\ Answered /\ Remembered
          /\ ReplayDetectable /\ RetryIsNotReplay

-----------------------------------------------------------------------------

\* The constants, one by one.
LEMMA ConstantFacts ==
  /\ CacheMax \in Nat /\ CacheTtl \in Nat /\ IssueTtl \in Nat /\ RotateTtl \in Nat
  /\ MaxPairs \in Nat /\ MaxTime \in Nat /\ MaxRestarts \in Nat
  /\ None \notin AuthSessions /\ None \notin Workers /\ None \notin Users
BY TokenAssumption

\* A token that is found belongs to the session.
LEMMA FindFacts ==
  ASSUME NEW token
  PROVE  /\ FindByRefresh(token) \in AuthSessions \cup {None}
         /\ FindByRefresh(token) # None => rows[FindByRefresh(token)].pair = token
         /\ FindByRefresh(token) = None => \A s \in AuthSessions : rows[s].pair # token
<1> DEFINE hits == {s \in AuthSessions : rows[s].pair = token}
<1>1. CASE hits = {}
  BY <1>1, ConstantFacts DEF FindByRefresh
<1>2. CASE hits # {}
  <2>1. FindByRefresh(token) = CHOOSE s \in hits : TRUE
    BY <1>2 DEF FindByRefresh
  <2>2. FindByRefresh(token) \in hits
    BY <1>2, <2>1
  <2> QED
    BY <2>2, ConstantFacts
<1> QED
  BY <1>1, <1>2

\* The rows after a revocation: nothing but the mark changes.
LEMMA RevokeFacts ==
  ASSUME TypeOK, NEW S
  PROVE  /\ \A s \in AuthSessions :
              /\ Revoke(S)[s].pair = rows[s].pair /\ Revoke(S)[s].user = rows[s].user
              /\ rows[s].revoked => Revoke(S)[s].revoked
              /\ s \notin S => Revoke(S)[s] = rows[s]
         /\ Revoke(S) \in [AuthSessions -> [pair : 0..MaxPairs, user : Users \cup {None},
                                device : Devices \cup {None}, refreshExp : Times,
                                revoked : BOOLEAN]]
BY DEF Revoke, TypeOK

\* The fields of requests.
LEMMA CallFacts ==
  /\ \A c \in RefreshCall : /\ c.op = "refresh" /\ c.token \in PairIds
                             /\ c.device \in Devices /\ c.req \in Requests
                             /\ c = [op |-> "refresh", token |-> c.token, device |-> c.device,
                                    req |-> c.req]
  /\ \A c \in LogoutCall : c.op = "logout" /\ c.token \in PairIds
BY DEF RefreshCall, LogoutCall

\* The initial state.
LEMMA InitIInv == Init => IInv
<1> SUFFICES ASSUME Init PROVE IInv
  OBVIOUS
<1>1. TypeOK
  BY ConstantFacts DEF Init, TypeOK, NoRow, Idle, Times
<1>2. Requested /\ Lineage /\ Existing /\ Answered /\ ReplayDetectable /\ RetryIsNotReplay
  BY ConstantFacts DEF Init, Requested, Lineage, Existing, Answered, ReplayDetectable,
     RetryIsNotReplay, NoRow, Idle, PairIds
<1>3. Remembered
  BY ConstantFacts, FS_EmptySet DEF Init, Remembered, Idle
<1> QED
  BY <1>1, <1>2, <1>3 DEF IInv

\* The clock and a lifetime stay within the range of times.
LEMMA TimeFacts ==
  \A t \in 0..MaxTime : t + CacheTtl \in Times /\ t + IssueTtl \in Times /\ t + RotateTtl \in Times
BY ConstantFacts DEF Times

\* What the cache holds after a rotation.
LEMMA RememberFacts ==
  ASSUME NEW c, NEW n, NEW t, Remember(c, n, t)
  PROVE  LET entry == [req |-> c.req, token |-> c.token, device |-> c.device, pair |-> n,
                       expiresAt |-> t + CacheTtl]
         IN  /\ cache' \subseteq cache \cup {entry} /\ entry \in cache'
             /\ \/ cache' = cache \cup {entry}
                \/ Cardinality(cache) >= CacheMax /\ \E e \in cache : cache' = (cache \ {e}) \cup {entry}
BY DEF Remember

\* The type of work in TypeOK.
WorkType == [Workers -> [pc : {"idle", "lock", "replay", "rotate", "find", "revoke"},
                         call : Call \cup {None}, now : 0..MaxTime,
                         found : AuthSessions \cup {None}]]

\* Requests that end or go on keep the type.
LEMMA WorkFacts ==
  ASSUME TypeOK, NEW w \in Workers
  PROVE  /\ Finish(w) => work' \in WorkType
         /\ \A pc \in {"replay", "rotate", "revoke"}, s \in AuthSessions \cup {None} :
              Goto(w, pc, s) => work' \in WorkType
<1>1. work \in WorkType
  BY DEF TypeOK, WorkType
<1>2. Finish(w) => work' \in WorkType
  BY <1>1, ConstantFacts DEF Finish, Idle, WorkType
<1> SUFFICES ASSUME NEW pc \in {"replay", "rotate", "revoke"}, NEW s \in AuthSessions \cup {None},
                    Goto(w, pc, s)
             PROVE  work' \in WorkType
  BY <1>2
<1> QED
  BY <1>1 DEF Goto, WorkType

\* Types.
LEMMA TypeStep ==
  ASSUME TypeOK, Requested, [Next]_vars
  PROVE  TypeOK'
<1>0. /\ TypeOK
      /\ CacheTtl \in Nat /\ IssueTtl \in Nat /\ RotateTtl \in Nat
      /\ MaxPairs \in Nat /\ MaxTime \in Nat /\ MaxRestarts \in Nat
  BY ConstantFacts
<1>1. CASE UNCHANGED vars
  BY <1>0, <1>1 DEF vars, TypeOK
<1>2. ASSUME NEW s \in AuthSessions, NEW u \in Users, NEW d \in Devices, Issue(s, u, d)
      PROVE  TypeOK'
  <2>1. minted + 1 \in PairIds /\ minted + 1 \in 0..MaxPairs /\ now + IssueTtl \in Times
    BY <1>0, <1>2, TimeFacts DEF Issue, Mint, TypeOK, PairIds
  <2> QED
    BY <1>0, <1>2, <2>1 DEF Issue, Mint, TypeOK
<1>3. ASSUME NEW w \in Workers, NEW c \in Call, Receive(w, c)
      PROVE  TypeOK'
  BY <1>0, <1>3 DEF Receive, TypeOK
<1>4. ASSUME NEW w \in Workers, RefreshCached(w)
      PROVE  TypeOK'
  <2>1. work[w].call \in RefreshCall
    BY <1>4 DEF RefreshCached, At, Requested
  <2>2. PICK e \in cache : answers' = answers \/ answers' = answers \cup {[call |-> work[w].call, pair |-> e.pair]}
    BY <1>4 DEF RefreshCached, Fresh, Answer, Refuse
  <2>3. answers' \subseteq [call : RefreshCall, pair : PairIds]
    BY <1>0, <2>1, <2>2 DEF TypeOK
  <2> QED
    BY <1>0, <1>4, <2>3 DEF RefreshCached, Fresh, Finish, Idle, TypeOK
<1>5. ASSUME NEW w \in Workers, RefreshFind(w)
      PROVE  TypeOK'
  <2>1. PICK s \in AuthSessions \cup {None} : s = FindByRefresh(work[w].call.token)
    BY FindFacts
  <2>2. Finish(w) \/ Goto(w, "replay", s) \/ Goto(w, "rotate", s)
    BY <1>5, <2>1 DEF RefreshFind
  <2>3. lock' \in Workers \cup {None} /\ cache' \subseteq cache
    BY <1>0, <1>5 DEF RefreshFind, Fresh, TypeOK
  <2>4. work' \in WorkType
    BY <1>0, <2>1, <2>2, WorkFacts
  <2>5. UNCHANGED <<now, rows, history, minted, parent, answers, replays, restarts>>
    BY <1>5 DEF RefreshFind, Refuse
  <2> QED
    BY <1>0, <2>3, <2>4, <2>5 DEF TypeOK, WorkType
<1>6. ASSUME NEW w \in Workers, RefreshReplay(w)
      PROVE  TypeOK'
  <2>1. work[w].call \in RefreshCall
    BY <1>6 DEF RefreshReplay, At, Requested
  <2> QED
    BY <1>0, <1>6, <2>1, RevokeFacts DEF RefreshReplay, Finish, Refuse, Idle, TypeOK
<1>7. ASSUME NEW w \in Workers, RefreshRotate(w)
      PROVE  TypeOK'
  <2> DEFINE c == work[w].call
             s == work[w].found
  <2>1. c \in RefreshCall /\ s \in AuthSessions /\ c.token \in PairIds /\ c.token \in 0..MaxPairs
    BY <1>7, CallFacts DEF RefreshRotate, At, Requested, PairIds
  <2>2. minted + 1 \in PairIds /\ minted + 1 \in 0..MaxPairs
    BY <1>0, <1>7 DEF RefreshRotate, Mint, TypeOK, PairIds
  <2>3. work[w].now + RotateTtl \in Times /\ work[w].now + CacheTtl \in Times
    BY <1>0, TimeFacts DEF TypeOK
  <2>4. cache' \subseteq [req : Requests, token : PairIds, device : Devices, pair : PairIds,
                         expiresAt : Times]
    <3>1. Remember(c, minted + 1, work[w].now)
      BY <1>7 DEF RefreshRotate
    <3>2. cache' \subseteq cache \cup {[req |-> c.req, token |-> c.token, device |-> c.device,
                                     pair |-> minted + 1, expiresAt |-> work[w].now + CacheTtl]}
      BY <3>1, RememberFacts
    <3>3. c.req \in Requests /\ c.device \in Devices
      BY <2>1, CallFacts
    <3> QED
      BY <1>0, <2>1, <2>2, <2>3, <3>2, <3>3 DEF TypeOK
  <2>5. rows' \in [AuthSessions -> [pair : 0..MaxPairs, user : Users \cup {None},
                                device : Devices \cup {None}, refreshExp : Times,
                                revoked : BOOLEAN]]
    BY <1>0, <1>7, <2>1, <2>2, <2>3 DEF RefreshRotate, TypeOK
  <2> QED
    BY <1>0, <1>7, <2>1, <2>2, <2>4, <2>5 DEF RefreshRotate, Mint, Answer, Finish, Idle, TypeOK
<1>8. ASSUME NEW w \in Workers, RefreshRotateFails(w)
      PROVE  TypeOK'
  BY <1>0, <1>8 DEF RefreshRotateFails, Goto, TypeOK
<1>9. ASSUME NEW w \in Workers, LogoutFind(w)
      PROVE  TypeOK'
  <2>1. PICK s \in AuthSessions \cup {None} : s = FindByRefresh(work[w].call.token)
    BY FindFacts
  <2>2. Finish(w) \/ Goto(w, "revoke", s)
    BY <1>9, <2>1 DEF LogoutFind
  <2>3. work' \in WorkType
    BY <1>0, <2>1, <2>2, WorkFacts
  <2>4. UNCHANGED <<now, rows, history, cache, lock, minted, parent, answers, replays, restarts>>
    BY <1>9 DEF LogoutFind
  <2> QED
    BY <1>0, <2>3, <2>4 DEF TypeOK, WorkType
<1>10. ASSUME NEW w \in Workers, LogoutRevoke(w)
       PROVE  TypeOK'
  BY <1>0, <1>10, RevokeFacts DEF LogoutRevoke, Finish, Idle, TypeOK
<1>11. CASE Tick
  BY <1>0, <1>11 DEF Tick, TypeOK
<1>12. CASE Restart
  BY <1>0, <1>12 DEF Restart, Idle, TypeOK
<1> QED
  BY <1>1, <1>2, <1>3, <1>4, <1>5, <1>6, <1>7, <1>8, <1>9, <1>10, <1>11, <1>12 DEF Next

\* The rows of the sessions that exist stay.
LEMMA RowsStay ==
  ASSUME IInv, [Next]_vars
  PROVE  \A s \in AuthSessions : rows[s].pair # 0 => rows'[s].pair # 0
<1>0. TypeOK /\ Requested
  BY DEF IInv
<1>1. ASSUME NEW s \in AuthSessions, NEW u \in Users, NEW d \in Devices, Issue(s, u, d)
      PROVE  \A t \in AuthSessions : rows[t].pair # 0 => rows'[t].pair # 0
  BY <1>0, <1>1 DEF Issue, TypeOK
<1>2. ASSUME NEW w \in Workers, RefreshReplay(w) \/ LogoutRevoke(w)
      PROVE  \A t \in AuthSessions : rows[t].pair # 0 => rows'[t].pair # 0
  BY <1>0, <1>2, RevokeFacts DEF RefreshReplay, LogoutRevoke
<1>3. ASSUME NEW w \in Workers, RefreshRotate(w)
      PROVE  \A t \in AuthSessions : rows[t].pair # 0 => rows'[t].pair # 0
  <2>1. minted \in Nat
    BY <1>0, ConstantFacts DEF TypeOK
  <2> QED
    BY <1>0, <1>3, <2>1 DEF RefreshRotate, TypeOK
<1>4. CASE UNCHANGED rows
  BY <1>4
<1> QED
  BY <1>1, <1>2, <1>3, <1>4 DEF Next, vars, Receive, RefreshCached, RefreshFind, RefreshRotateFails,
     LogoutFind, Tick, Restart

\* Requests.
LEMMA RequestedStep ==
  ASSUME IInv, [Next]_vars
  PROVE  Requested'
<1>0. /\ TypeOK /\ Requested /\ now \in Nat
      /\ \A s \in AuthSessions : rows[s].pair # 0 => rows'[s].pair # 0
  BY RowsStay, ConstantFacts DEF IInv, TypeOK
<1>1. CASE UNCHANGED vars
  BY <1>0, <1>1 DEF vars, Requested
<1>2. ASSUME NEW s \in AuthSessions, NEW u \in Users, NEW d \in Devices, Issue(s, u, d)
      PROVE  Requested'
  BY <1>0, <1>2 DEF Issue, Requested
<1>3. ASSUME NEW w \in Workers, NEW c \in Call, Receive(w, c)
      PROVE  Requested'
  <2>1. IF c.op = "refresh" THEN c \in RefreshCall ELSE c \in LogoutCall
    BY CallFacts DEF Call
  <2> QED
    BY <1>0, <1>3, <2>1 DEF Receive, Requested, TypeOK
<1>4. ASSUME NEW w \in Workers, Finish(w), lock' = lock \/ (lock = w /\ lock' = None), now' = now
      PROVE  Requested'
  BY <1>0, <1>4 DEF Finish, Idle, Requested, TypeOK
<1>5. ASSUME NEW w \in Workers, RefreshFind(w)
      PROVE  Requested'
  <2>1. PICK s \in AuthSessions \cup {None} : s = FindByRefresh(work[w].call.token)
    BY FindFacts
  <2>2. work[w].call \in RefreshCall /\ work[w].call.token # 0
    BY <1>0, <1>5, CallFacts DEF RefreshFind, At, Requested, PairIds
  <2>3. s # None => rows[s].pair # 0
    BY <2>1, <2>2, FindFacts
  <2>4. CASE Finish(w) /\ lock' = lock
    BY <1>4, <1>5, <2>4 DEF RefreshFind
  <2>5. CASE Goto(w, IF s = None THEN "replay" ELSE "rotate", s) /\ lock = None /\ lock' = w
    <3>1. \A v \in Workers : work[v].pc \notin {"replay", "rotate"}
      BY <1>0, <2>5, ConstantFacts DEF Requested
    <3>2. UNCHANGED <<now, rows>>
      BY <1>5 DEF RefreshFind
    <3> QED
      BY <1>0, <2>1, <2>2, <2>3, <2>5, <3>1, <3>2 DEF Goto, Requested, TypeOK
  <2> QED
    BY <1>5, <2>1, <2>4, <2>5 DEF RefreshFind
<1>6. ASSUME NEW w \in Workers, RefreshRotateFails(w)
      PROVE  Requested'
  BY <1>0, <1>6 DEF RefreshRotateFails, At, Goto, Requested, TypeOK
<1>7. ASSUME NEW w \in Workers, LogoutFind(w)
      PROVE  Requested'
  <2>1. PICK s \in AuthSessions \cup {None} : s = FindByRefresh(work[w].call.token)
    BY FindFacts
  <2>2. work[w].call \in LogoutCall /\ work[w].call.token # 0
    BY <1>0, <1>7, CallFacts DEF LogoutFind, At, Requested, PairIds
  <2>3. s # None => rows[s].pair # 0
    BY <2>1, <2>2, FindFacts
  <2>4. CASE Finish(w)
    BY <1>4, <1>7, <2>4 DEF LogoutFind
  <2>5. CASE s # None /\ Goto(w, "revoke", s)
    <3>1. UNCHANGED <<now, rows, lock>>
      BY <1>7 DEF LogoutFind
    <3> QED
      BY <1>0, <2>1, <2>2, <2>3, <2>5, <3>1 DEF Goto, Requested, TypeOK
  <2> QED
    BY <1>7, <2>1, <2>4, <2>5 DEF LogoutFind
<1>8. ASSUME NEW w \in Workers,
             RefreshCached(w) \/ RefreshReplay(w) \/ RefreshRotate(w) \/ LogoutRevoke(w)
      PROVE  Requested'
  <2>1. Finish(w) /\ now' = now
    BY <1>8 DEF RefreshCached, RefreshReplay, RefreshRotate, LogoutRevoke
  <2>2. lock' = lock \/ (lock = w /\ lock' = None)
    BY <1>0, <1>8 DEF RefreshCached, RefreshReplay, RefreshRotate, LogoutRevoke, At, Requested
  <2> QED
    BY <1>4, <2>1, <2>2
<1>9. CASE Tick
  BY <1>0, <1>9 DEF Tick, Requested, TypeOK
<1>10. CASE Restart
  BY <1>0, <1>10 DEF Restart, Idle, Requested
<1> QED
  BY <1>1, <1>2, <1>3, <1>5, <1>6, <1>7, <1>8, <1>9, <1>10 DEF Next

\* A rotation, seen from the tables.
LEMMA RotateFacts ==
  ASSUME IInv, NEW w \in Workers, RefreshRotate(w)
  PROVE  /\ work[w].call \in RefreshCall /\ work[w].found \in AuthSessions
         /\ rows[work[w].found].pair = work[w].call.token /\ ~rows[work[w].found].revoked
         /\ work[w].call.token \in 1..minted /\ minted \in Nat
         /\ minted + 1 \in PairIds /\ minted' = minted + 1
         /\ parent[minted + 1] = 0
         /\ parent' = [parent EXCEPT ![minted + 1] = work[w].call.token]
         /\ history' = history \cup {[family |-> work[w].found, token |-> work[w].call.token]}
         /\ \A s \in AuthSessions \ {work[w].found} : rows'[s] = rows[s]
         /\ rows'[work[w].found].pair = minted + 1
         /\ rows'[work[w].found].user = rows[work[w].found].user
         /\ rows'[work[w].found].revoked = rows[work[w].found].revoked
         /\ work[w].pc = "rotate" /\ lock = w /\ work[w].now \in Nat
         /\ UNCHANGED <<now, replays, restarts>>
<1>0. TypeOK /\ Requested /\ Lineage
  BY DEF IInv
<1>1. work[w].call \in RefreshCall /\ work[w].found \in AuthSessions /\ work[w].pc = "rotate" /\ lock = w
  BY <1>0 DEF RefreshRotate, At, Requested
<1>2. minted \in Nat /\ minted + 1 \in PairIds /\ minted < MaxPairs
  BY <1>0, ConstantFacts DEF TypeOK, RefreshRotate, Mint, PairIds
<1>3. parent[minted + 1] = 0
  BY <1>0, <1>2 DEF Lineage
<1>4. /\ rows[work[w].found].pair = work[w].call.token /\ ~rows[work[w].found].revoked
      /\ minted' = minted + 1 /\ parent' = [parent EXCEPT ![minted + 1] = work[w].call.token]
      /\ history' = history \cup {[family |-> work[w].found, token |-> work[w].call.token]}
      /\ UNCHANGED <<now, replays, restarts>>
  BY DEF RefreshRotate, Mint
<1>5. work[w].call.token \in 1..minted
  BY <1>0, <1>1, <1>2, <1>4, CallFacts DEF Lineage, PairIds
<1>6. /\ \A s \in AuthSessions \ {work[w].found} : rows'[s] = rows[s]
      /\ rows'[work[w].found].pair = minted + 1
      /\ rows'[work[w].found].user = rows[work[w].found].user
      /\ rows'[work[w].found].revoked = rows[work[w].found].revoked
  BY <1>0, <1>1 DEF RefreshRotate, TypeOK
<1>7. work[w].now \in Nat
  BY <1>0, ConstantFacts DEF TypeOK
<1> QED
  BY <1>1, <1>2, <1>3, <1>4, <1>5, <1>6, <1>7

\* A login, seen from the tables.
LEMMA IssueFacts ==
  ASSUME IInv, NEW s \in AuthSessions, NEW u \in Users, NEW d \in Devices, Issue(s, u, d)
  PROVE  /\ minted \in Nat /\ minted + 1 \in PairIds /\ minted' = minted + 1
         /\ rows[s].pair = 0 /\ parent[minted + 1] = 0 /\ parent' = parent
         /\ \A t \in AuthSessions \ {s} : rows'[t] = rows[t]
         /\ rows'[s].pair = minted + 1 /\ rows'[s].user = u
         /\ UNCHANGED <<now, history, cache, lock, work, answers, replays, restarts>>
<1>0. TypeOK /\ Lineage
  BY DEF IInv
<1>1. minted \in Nat /\ minted + 1 \in PairIds /\ minted < MaxPairs
  BY <1>0, ConstantFacts DEF TypeOK, Issue, Mint, PairIds
<1>2. parent[minted + 1] = 0
  BY <1>0, <1>1 DEF Lineage
<1>3. parent' = parent
  BY <1>0, <1>1, <1>2 DEF Issue, Mint, TypeOK
<1> QED
  BY <1>0, <1>1, <1>2, <1>3 DEF Issue, Mint, TypeOK

\* Steps that leave the tables of pairs alone but for marks of revocation.
LEMMA OtherFacts ==
  ASSUME IInv, [Next]_vars,
         ~\E s \in AuthSessions, u \in Users, d \in Devices : Issue(s, u, d),
         ~\E w \in Workers : RefreshRotate(w)
  PROVE  /\ UNCHANGED <<minted, parent, history>>
         /\ \A s \in AuthSessions : /\ rows'[s].pair = rows[s].pair /\ rows'[s].user = rows[s].user
                                    /\ rows[s].revoked => rows'[s].revoked
                                    /\ rows[s].pair = 0 => rows'[s] = rows[s]
<1>0. TypeOK /\ Requested /\ Lineage /\ Existing
  BY DEF IInv
<1> DEFINE Kept == \A s \in AuthSessions :
                     /\ rows'[s].pair = rows[s].pair /\ rows'[s].user = rows[s].user
                     /\ rows[s].revoked => rows'[s].revoked
                     /\ rows[s].pair = 0 => rows'[s] = rows[s]
<1>1. ASSUME NEW w \in Workers, RefreshReplay(w)
      PROVE  Kept
  <2>1. PICK c : rows' = Revoke(UsedBy(c.token))
    BY <1>1 DEF RefreshReplay
  <2>2. \A s \in UsedBy(c.token) : s \in AuthSessions => rows[s].pair # 0
    BY <1>0 DEF UsedBy, Lineage
  <2> QED
    BY <1>0, <2>1, <2>2, RevokeFacts
<1>2. ASSUME NEW w \in Workers, LogoutRevoke(w)
      PROVE  Kept
  <2> DEFINE f == work[w].found
             S == IF work[w].call.all THEN {t \in AuthSessions : rows[t].user = rows[f].user} ELSE {f}
  <2>1. rows' = Revoke(S)
    BY <1>2 DEF LogoutRevoke
  <2>2. f \in AuthSessions /\ rows[f].pair # 0
    BY <1>0, <1>2 DEF LogoutRevoke, At, Requested
  <2>3. \A s \in S : rows[s].pair # 0
    BY <1>0, <2>2 DEF Existing
  <2> HIDE DEF S
  <2> QED
    BY <1>0, <2>1, <2>3, RevokeFacts
<1>3. ASSUME UNCHANGED rows
      PROVE  Kept
  BY <1>3
<1>4. Kept
  BY <1>1, <1>2, <1>3 DEF Next, vars, Receive, RefreshCached, RefreshFind, RefreshRotateFails,
     LogoutFind, Tick, Restart
<1>5. UNCHANGED <<minted, parent, history>>
  BY DEF Next, vars, Receive, RefreshCached, RefreshFind, RefreshReplay, RefreshRotateFails,
     LogoutFind, LogoutRevoke, Tick, Restart
<1> QED
  BY <1>4, <1>5

\* The chains of pairs, and that a replay can be detected.
LEMMA LineageStep ==
  ASSUME IInv, [Next]_vars
  PROVE  Lineage' /\ Existing' /\ ReplayDetectable'
<1>0. /\ TypeOK /\ Lineage /\ Existing /\ ReplayDetectable
      /\ \A n \in PairIds : n \in Nat \ {0} /\ parent[n] \in Nat
      /\ \A s \in AuthSessions : rows[s].pair \in Nat
      /\ \A h \in history : h.family \in AuthSessions /\ h.token \in PairIds
      /\ minted \in Nat
  BY ConstantFacts DEF IInv, TypeOK, PairIds
<1>1. ASSUME NEW s \in AuthSessions, NEW u \in Users, NEW d \in Devices, Issue(s, u, d)
      PROVE  Lineage' /\ Existing' /\ ReplayDetectable'
  <2>1. /\ minted + 1 \in PairIds /\ minted' = minted + 1
        /\ rows[s].pair = 0 /\ parent[minted + 1] = 0
        /\ \A t \in AuthSessions \ {s} : rows'[t] = rows[t]
        /\ rows'[s].pair = minted + 1 /\ rows'[s].user = u
        /\ UNCHANGED <<history, parent>>
    BY <1>1, IssueFacts
  <2>2. \A n \in PairIds : parent[n] # 0 => parent[n] <= minted
    BY <1>0 DEF Lineage
  <2>3. Lineage'
    BY <1>0, <2>1, <2>2 DEF Lineage
  <2>4. Existing'
    BY <1>0, <2>1, ConstantFacts DEF Existing
  <2>5. ReplayDetectable'
    BY <1>0, <2>1 DEF ReplayDetectable
  <2> QED
    BY <2>3, <2>4, <2>5
<1>2. ASSUME NEW w \in Workers, RefreshRotate(w)
      PROVE  Lineage' /\ Existing' /\ ReplayDetectable'
  <2> DEFINE f == work[w].found
             k == work[w].call.token
  <2>1. /\ f \in AuthSessions /\ rows[f].pair = k /\ k \in 1..minted
        /\ minted + 1 \in PairIds /\ minted' = minted + 1
        /\ parent[minted + 1] = 0 /\ parent' = [parent EXCEPT ![minted + 1] = k]
        /\ history' = history \cup {[family |-> f, token |-> k]}
        /\ \A t \in AuthSessions \ {f} : rows'[t] = rows[t]
        /\ rows'[f].pair = minted + 1 /\ rows'[f].user = rows[f].user
    BY <1>2, RotateFacts
  <2> HIDE DEF f, k
  <2>2. /\ parent'[minted + 1] = k /\ \A n \in PairIds \ {minted + 1} : parent'[n] = parent[n]
    BY <1>0, <2>1 DEF TypeOK
  <2>3. \A n \in PairIds : parent[n] # 0 => parent[n] <= minted /\ parent[n] # k
    BY <1>0, <2>1 DEF Lineage
  <2>4. \A t \in AuthSessions \ {f} : rows[t].pair # k
    BY <1>0, <2>1 DEF Lineage
  <2>5. \A n \in PairIds : parent'[n] < n /\ (n > minted' => parent'[n] = 0)
    BY <1>0, <2>1, <2>2 DEF Lineage
  <2>6. \A m, n \in PairIds : parent'[m] = parent'[n] /\ parent'[m] # 0 => m = n
    BY <1>0, <2>1, <2>2, <2>3 DEF Lineage
  <2>7. \A t \in AuthSessions : rows'[t].pair <= minted'
    BY <1>0, <2>1 DEF Lineage
  <2>8. \A t \in AuthSessions, n \in PairIds : parent'[n] # 0 => parent'[n] # rows'[t].pair
    BY <1>0, <2>1, <2>2, <2>3, <2>4 DEF Lineage
  <2>9. \A t, v \in AuthSessions : rows'[t].pair = rows'[v].pair /\ rows'[t].pair # 0 => t = v
    BY <1>0, <2>1 DEF Lineage
  <2>10. \A h \in history' : rows'[h.family].pair # 0 /\ \E n \in PairIds : parent'[n] = h.token
    <3> TAKE h \in history'
    <3>1. CASE h \in history
      <4>1. rows[h.family].pair # 0 /\ \E n \in PairIds : parent[n] = h.token
        BY <1>0, <3>1 DEF Lineage
      <4>2. PICK n \in PairIds : parent[n] = h.token
        BY <4>1
      <4>3. n # minted + 1
        BY <1>0, <2>1, <3>1, <4>2
      <4> QED
        BY <1>0, <2>1, <2>2, <3>1, <4>1, <4>2, <4>3
    <3>2. CASE h = [family |-> f, token |-> k]
      BY <1>0, <2>1, <2>2, <3>2
    <3> QED
      BY <2>1, <3>1, <3>2
  <2>11. Lineage'
    BY <2>5, <2>6, <2>7, <2>8, <2>9, <2>10 DEF Lineage
  <2>12. Existing'
    BY <1>0, <2>1 DEF Existing
  <2>13. ReplayDetectable'
    <3>1. ASSUME NEW n \in 1..minted
          PROVE  (\E t \in AuthSessions : rows'[t].pair = n) \/ (\E h \in history' : h.token = n)
      <4>1. CASE n = k
        <5>1. [family |-> f, token |-> k] \in history' /\ [family |-> f, token |-> k].token = k
          BY <2>1
        <5> QED
          BY <4>1, <5>1
      <4>2. CASE n # k /\ \E t \in AuthSessions : rows[t].pair = n
        BY <2>1, <4>2
      <4>3. CASE \E h \in history : h.token = n
        BY <2>1, <4>3
      <4> QED
        BY <1>0, <3>1, <4>1, <4>2, <4>3 DEF ReplayDetectable
    <3>2. \A n \in 1..minted' : n \in 1..minted \/ n = minted + 1
      BY <1>0, <2>1
    <3> QED
      BY <2>1, <3>1, <3>2 DEF ReplayDetectable
  <2> QED
    BY <2>11, <2>12, <2>13
<1>3. CASE ~(\E s \in AuthSessions, u \in Users, d \in Devices : Issue(s, u, d))
           /\ ~(\E w \in Workers : RefreshRotate(w))
  <2>1. /\ UNCHANGED <<minted, parent, history>>
        /\ \A s \in AuthSessions : /\ rows'[s].pair = rows[s].pair /\ rows'[s].user = rows[s].user
                                   /\ rows[s].pair = 0 => rows'[s] = rows[s]
    BY <1>3, OtherFacts
  <2> QED
    BY <1>0, <2>1 DEF Lineage, Existing, ReplayDetectable
<1> QED
  BY <1>1, <1>2, <1>3

\* What a remembered answer gives a second time, seen from the calls.
LEMMA CachedFacts ==
  ASSUME IInv, NEW w \in Workers, RefreshCached(w)
  PROVE  /\ cache' \subseteq cache /\ work[w].call \in RefreshCall
         /\ \/ answers' = answers
            \/ \E a \in answers : /\ answers' = answers \cup {[call |-> work[w].call, pair |-> a.pair]}
                                  /\ a.call = work[w].call
         /\ UNCHANGED <<now, history, minted, parent, replays, restarts>>
<1>0. TypeOK /\ Requested /\ Answered
  BY DEF IInv
<1>1. cache' \subseteq cache /\ UNCHANGED <<now, history, minted, parent, replays, restarts>>
  BY DEF RefreshCached, Fresh
<1>2. work[w].call \in RefreshCall
  BY <1>0 DEF RefreshCached, At, Requested
<1>3. PICK e \in cache : /\ e.req = work[w].call.req
                         /\ \/ answers' = answers
                            \/ /\ e.token = work[w].call.token /\ e.device = work[w].call.device
                               /\ answers' = answers \cup {[call |-> work[w].call, pair |-> e.pair]}
  BY DEF RefreshCached, Fresh, Answer, Refuse
<1>4. PICK a \in answers : /\ a.pair = e.pair /\ a.call.token = e.token
                           /\ a.call.device = e.device /\ a.call.req = e.req
  BY <1>0 DEF Answered
<1>5. a.call \in RefreshCall
  BY <1>0 DEF TypeOK
<1>6. e.token = work[w].call.token /\ e.device = work[w].call.device => a.call = work[w].call
  BY <1>2, <1>3, <1>4, <1>5, CallFacts
<1> QED
  BY <1>1, <1>2, <1>3, <1>4, <1>6

\* Only a rotation and a remembered answer add to the answers; only a rotation adds
\* to the cache.
LEMMA AnswersStay ==
  ASSUME IInv, [Next]_vars,
         ~\E w \in Workers : RefreshRotate(w) \/ RefreshCached(w)
  PROVE  UNCHANGED <<answers, parent, history>> /\ cache' \subseteq cache
<1>1. ASSUME NEW s \in AuthSessions, NEW u \in Users, NEW d \in Devices, Issue(s, u, d)
      PROVE  UNCHANGED <<answers, parent, history, cache>>
  BY <1>1, IssueFacts
<1> QED
  BY <1>1 DEF Next, vars, Receive, RefreshFind, RefreshReplay, RefreshRotateFails,
     LogoutFind, LogoutRevoke, Tick, Restart, Refuse, Fresh

\* What is answered and remembered.
LEMMA AnsweredStep ==
  ASSUME IInv, [Next]_vars
  PROVE  Answered'
<1>0. /\ TypeOK /\ Answered
      /\ \A a \in answers : a.call \in RefreshCall /\ a.call.token \in PairIds /\ a.pair \in PairIds
  BY CallFacts DEF IInv, TypeOK
<1>1. CASE UNCHANGED <<answers, parent>> /\ cache' \subseteq cache
  BY <1>0, <1>1 DEF Answered
<1>2. ASSUME NEW w \in Workers, RefreshCached(w)
      PROVE  Answered'
  <2>1. cache' \subseteq cache /\ parent' = parent
    BY <1>2, CachedFacts
  <2>2. CASE answers' = answers
    BY <1>1, <2>1, <2>2
  <2>3. ASSUME NEW a \in answers, a.call = work[w].call,
               answers' = answers \cup {[call |-> work[w].call, pair |-> a.pair]}
        PROVE  Answered'
    BY <1>0, <2>1, <2>3 DEF Answered
  <2> QED
    BY <1>2, <2>2, <2>3, CachedFacts
<1>3. ASSUME NEW w \in Workers, RefreshRotate(w)
      PROVE  Answered'
  <2> DEFINE c == work[w].call
             n == minted + 1
             entry == [req |-> c.req, token |-> c.token, device |-> c.device, pair |-> n,
                       expiresAt |-> work[w].now + CacheTtl]
  <2>1. /\ n \in PairIds /\ parent[n] = 0 /\ parent' = [parent EXCEPT ![n] = c.token]
        /\ c \in RefreshCall
    BY <1>3, RotateFacts
  <2>2. answers' = answers \cup {[call |-> c, pair |-> n]}
    BY <1>3 DEF RefreshRotate, Answer
  <2>3. cache' \subseteq cache \cup {entry}
    <3>1. Remember(c, n, work[w].now)
      BY <1>3 DEF RefreshRotate
    <3> QED
      BY <3>1, RememberFacts
  <2> HIDE DEF c, n
  <2>4. parent'[n] = c.token /\ \A m \in PairIds \ {n} : parent'[m] = parent[m]
    BY <1>0, <2>1 DEF TypeOK
  <2>5. \A a \in answers : a.pair # n
    BY <1>0, <2>1 DEF Answered, PairIds
  <2>6. \A a \in answers' : parent'[a.pair] = a.call.token
    BY <1>0, <2>2, <2>4, <2>5 DEF Answered
  <2>7. ASSUME NEW e \in cache'
        PROVE  \E a \in answers' : /\ a.pair = e.pair /\ a.call.token = e.token
                                   /\ a.call.device = e.device /\ a.call.req = e.req
    <3>1. CASE e \in cache
      BY <1>0, <2>2, <3>1 DEF Answered
    <3>2. CASE e = entry
      <4>1. [call |-> c, pair |-> n] \in answers'
        BY <2>2
      <4> QED
        BY <3>2, <4>1
    <3> QED
      BY <2>3, <3>1, <3>2
  <2> QED
    BY <2>6, <2>7 DEF Answered
<1> QED
  BY <1>1, <1>2, <1>3, AnswersStay

\* As long as nothing can have grown old, no request's clock drops a result.
LEMMA FreshFacts ==
  ASSUME IInv, NEW w \in Workers, now < CacheTtl
  PROVE  Fresh(work[w].now) = cache
<1>0. /\ now \in Nat /\ work[w].now \in Nat /\ work[w].now <= now /\ CacheTtl \in Nat
      /\ \A e \in cache : e.expiresAt \in Nat /\ e.expiresAt >= CacheTtl
  BY ConstantFacts DEF IInv, TypeOK, Requested, Remembered, Times
<1>1. \A e \in cache : e.expiresAt > work[w].now
  BY <1>0
<1> QED
  BY <1>1 DEF Fresh

\* A subset of the cache is no larger than the history.
LEMMA SmallerCache ==
  ASSUME IInv, NEW S \in SUBSET cache
  PROVE  IsFiniteSet(S) /\ Cardinality(S) <= Cardinality(history)
<1>0. IsFiniteSet(cache) /\ IsFiniteSet(history) /\ Cardinality(cache) <= Cardinality(history)
  BY DEF IInv, Remembered
<1>1. IsFiniteSet(S) /\ Cardinality(S) <= Cardinality(cache)
  BY <1>0, FS_Subset
<1> QED
  BY <1>0, <1>1, FS_CardinalityType

\* A rotation, seen from the cache: the token was not in the history yet.
LEMMA RotateCacheFacts ==
  ASSUME IInv, NEW w \in Workers, RefreshRotate(w)
  PROVE  /\ \A h \in history : h.token # work[w].call.token
         /\ IsFiniteSet(history') /\ Cardinality(history') = Cardinality(history) + 1
         /\ IsFiniteSet(cache') /\ Cardinality(cache') <= Cardinality(cache) + 1
         /\ \E entry : /\ entry.req = work[w].call.req /\ entry.expiresAt >= CacheTtl
                       /\ entry \in cache' /\ cache' \subseteq cache \cup {entry}
                       /\ Cardinality(history') <= CacheMax => cache' = cache \cup {entry}
<1> DEFINE c == work[w].call
           f == work[w].found
           entry == [req |-> c.req, token |-> c.token, device |-> c.device, pair |-> minted + 1,
                     expiresAt |-> work[w].now + CacheTtl]
           new == [family |-> f, token |-> c.token]
<1>0. /\ Lineage /\ IsFiniteSet(cache) /\ IsFiniteSet(history)
      /\ Cardinality(cache) <= Cardinality(history) /\ CacheTtl \in Nat /\ CacheMax \in Nat
  BY ConstantFacts DEF IInv, Remembered
<1>1. /\ f \in AuthSessions /\ rows[f].pair = c.token /\ c.token \in 1..minted
      /\ history' = history \cup {new} /\ work[w].now \in Nat /\ minted \in Nat
  BY RotateFacts
<1>2. Remember(c, minted + 1, work[w].now)
  BY DEF RefreshRotate
<1>3. /\ cache' \subseteq cache \cup {entry} /\ entry \in cache'
      /\ \/ cache' = cache \cup {entry}
         \/ Cardinality(cache) >= CacheMax /\ \E e \in cache : cache' = (cache \ {e}) \cup {entry}
  BY <1>2, RememberFacts
<1>4. entry.req = c.req /\ entry.expiresAt >= CacheTtl /\ new.token = c.token
  BY <1>0, <1>1
<1> HIDE DEF entry, new, c, f
<1>5. \A h \in history : h.token # c.token
  BY <1>0, <1>1 DEF Lineage
<1>6. IsFiniteSet(history') /\ Cardinality(history') = Cardinality(history) + 1
  <2>1. new \notin history
    BY <1>4, <1>5
  <2> QED
    BY <1>0, <1>1, <2>1, FS_AddElement
<1>7. /\ IsFiniteSet(cache \cup {entry}) /\ Cardinality(cache \cup {entry}) \in Nat
      /\ Cardinality(cache \cup {entry}) <= Cardinality(cache) + 1
      /\ Cardinality(cache) \in Nat /\ Cardinality(history) \in Nat
  <2>1. Cardinality(cache) \in Nat /\ Cardinality(history) \in Nat
    BY <1>0, FS_CardinalityType
  <2>2. CASE entry \in cache
    <3>1. cache \cup {entry} = cache
      BY <2>2
    <3> QED
      BY <1>0, <2>1, <3>1
  <2>3. CASE entry \notin cache
    BY <1>0, <2>1, <2>3, FS_AddElement
  <2> QED
    BY <2>1, <2>2, <2>3
<1>8. IsFiniteSet(cache') /\ Cardinality(cache') <= Cardinality(cache \cup {entry}) /\ Cardinality(cache') \in Nat
  BY <1>3, <1>7, FS_Subset, FS_CardinalityType
<1>9. Cardinality(history') <= CacheMax => cache' = cache \cup {entry}
  BY <1>0, <1>3, <1>6, <1>7
<1> QED
  BY <1>3, <1>4, <1>5, <1>6, <1>7, <1>8, <1>9 DEF c

\* What is remembered.
LEMMA RememberedStep ==
  ASSUME IInv, [Next]_vars
  PROVE  Remembered'
<1> DEFINE Young == restarts = 0 /\ now < CacheTtl /\ Cardinality(history) <= CacheMax
           Busy(w) == work[w].pc \in {"replay", "rotate"}
<1>0. /\ TypeOK /\ Requested /\ Remembered /\ restarts \in Nat /\ now \in Nat
      /\ CacheTtl \in Nat
  BY ConstantFacts DEF IInv, TypeOK
<1>1. ASSUME cache' \subseteq cache, UNCHANGED history, replays' = replays,
             Young' => Young /\ cache' = cache /\ UNCHANGED answers,
             \A w \in Workers : Busy(w)' => \A e \in cache' : e.req # work'[w].call.req
      PROVE  Remembered'
  <2>1. IsFiniteSet(cache') /\ Cardinality(cache') <= Cardinality(history)
    BY <1>1, SmallerCache
  <2> QED
    BY <1>0, <1>1, <2>1 DEF Remembered
<1>2. ASSUME UNCHANGED <<cache, history, answers, replays, restarts>>, now' = now \/ now' = now + 1,
             \A w \in Workers : Busy(w)' => Busy(w) /\ work'[w].call = work[w].call
      PROVE  Remembered'
  <2>1. Young' => Young
    BY <1>0, <1>2
  <2>2. \A w \in Workers : Busy(w)' => \A e \in cache' : e.req # work'[w].call.req
    BY <1>0, <1>2 DEF Remembered
  <2> QED
    BY <1>1, <1>2, <2>1, <2>2
<1>3. CASE UNCHANGED vars \/ Tick \/ \E s \in AuthSessions, u \in Users, d \in Devices : Issue(s, u, d)
  <2>1. /\ UNCHANGED <<cache, history, answers, replays, restarts, work>>
        /\ now' = now \/ now' = now + 1
    BY <1>3 DEF vars, Tick, Issue
  <2> QED
    BY <1>2, <2>1
<1>4. ASSUME NEW w \in Workers,
             (\E c \in Call : Receive(w, c)) \/ RefreshRotateFails(w) \/ LogoutFind(w) \/ LogoutRevoke(w)
      PROVE  Remembered'
  <2>1. UNCHANGED <<cache, history, answers, replays, restarts, now>>
    BY <1>4 DEF Receive, RefreshRotateFails, LogoutFind, LogoutRevoke
  <2>2. \A v \in Workers : Busy(v)' => Busy(v) /\ work'[v].call = work[v].call
    <3>1. CASE \E c \in Call : Receive(w, c)
      BY <1>0, <3>1 DEF Receive, TypeOK
    <3>2. CASE Finish(w)
      BY <1>0, <3>2 DEF Finish, Idle, TypeOK
    <3>3. CASE RefreshRotateFails(w)
      BY <1>0, <3>3 DEF RefreshRotateFails, At, Goto, TypeOK
    <3>4. ASSUME NEW s, Goto(w, "revoke", s)
          PROVE  \A v \in Workers : Busy(v)' => Busy(v) /\ work'[v].call = work[v].call
      BY <1>0, <3>4 DEF Goto, TypeOK
    <3> QED
      BY <1>4, <3>1, <3>2, <3>3, <3>4 DEF LogoutFind, LogoutRevoke
  <2> QED
    BY <1>2, <2>1, <2>2
<1>5. ASSUME NEW w \in Workers, RefreshCached(w)
      PROVE  Remembered'
  <2>1. /\ cache' \subseteq cache /\ cache' = Fresh(work[w].now)
        /\ UNCHANGED <<history, replays, restarts, now>>
    BY <1>5 DEF RefreshCached, Fresh
  <2>2. \A v \in Workers : Busy(v)' => Busy(v) /\ work'[v].call = work[v].call
    BY <1>0, <1>5 DEF RefreshCached, Finish, Idle, At, TypeOK
  <2>3. Young' => Young /\ cache' = cache
    BY <2>1, FreshFacts
  <2>4. PICK e \in cache' : e.req = work[w].call.req
    BY <1>5 DEF RefreshCached
  <2>5. \A a \in answers' : a \in answers \/ a.call = work[w].call
    BY <1>5 DEF RefreshCached, Answer, Refuse
  <2>6. IsFiniteSet(cache') /\ Cardinality(cache') <= Cardinality(history)
    BY <2>1, SmallerCache
  <2>7. Young' => \A a \in answers' : \E x \in cache' : x.req = a.call.req
    BY <1>0, <2>3, <2>4, <2>5 DEF Remembered
  <2>8. \A v \in Workers : Busy(v)' => \A x \in cache' : x.req # work'[v].call.req
    BY <1>0, <2>1, <2>2 DEF Remembered
  <2> QED
    BY <1>0, <2>1, <2>6, <2>7, <2>8 DEF Remembered
<1>6. ASSUME NEW w \in Workers, RefreshFind(w)
      PROVE  Remembered'
  <2>1. /\ cache' \subseteq cache /\ cache' = Fresh(work[w].now)
        /\ UNCHANGED <<history, answers, replays, restarts, now>>
        /\ \A e \in cache' : e.req # work[w].call.req
    BY <1>6 DEF RefreshFind, Fresh, Refuse
  <2>2. \A v \in Workers : Busy(v)' => /\ v # w => Busy(v) /\ work'[v] = work[v]
                                       /\ work'[v].call = work[v].call
    <3>1. Finish(w) \/ \E pc, s : Goto(w, pc, s)
      BY <1>6 DEF RefreshFind
    <3>2. CASE Finish(w)
      BY <1>0, <3>2 DEF Finish, Idle, TypeOK
    <3>3. ASSUME NEW pc, NEW s, Goto(w, pc, s)
          PROVE  \A v \in Workers : work'[v].call = work[v].call /\ (v # w => work'[v] = work[v])
      BY <1>0, <3>3 DEF Goto, TypeOK
    <3>4. CASE \E pc, s : Goto(w, pc, s)
      BY <3>3, <3>4
    <3> QED
      BY <3>1, <3>2, <3>4
  <2>3. Young' => Young /\ cache' = cache
    BY <2>1, FreshFacts
  <2>4. \A v \in Workers : Busy(v)' => \A x \in cache' : x.req # work'[v].call.req
    BY <1>0, <2>1, <2>2 DEF Remembered
  <2> QED
    BY <1>1, <2>1, <2>3, <2>4
<1>7. ASSUME NEW w \in Workers, RefreshReplay(w)
      PROVE  Remembered'
  <2>1. UNCHANGED <<cache, history, answers, restarts, now>>
    BY <1>7 DEF RefreshReplay, Refuse
  <2>2. \A v \in Workers : Busy(v)' => Busy(v) /\ work'[v].call = work[v].call
    BY <1>0, <1>7 DEF RefreshReplay, Finish, Idle, TypeOK
  <2>3. replays' = replays \/ (UsedBy(work[w].call.token) # {} /\ replays' = replays \cup {work[w].call})
    BY <1>7 DEF RefreshReplay
  <2>4. \A c \in replays' : \E h \in history : h.token = c.token
    BY <1>0, <2>3 DEF UsedBy, Remembered
  <2>5. \A v \in Workers : Busy(v)' => \A x \in cache' : x.req # work'[v].call.req
    BY <1>0, <2>1, <2>2 DEF Remembered
  <2> QED
    BY <1>0, <2>1, <2>4, <2>5 DEF Remembered
<1>8. ASSUME NEW w \in Workers, RefreshRotate(w)
      PROVE  Remembered'
  <2>1. PICK entry : /\ entry.req = work[w].call.req /\ entry.expiresAt >= CacheTtl
                     /\ entry \in cache' /\ cache' \subseteq cache \cup {entry}
                     /\ Cardinality(history') <= CacheMax => cache' = cache \cup {entry}
    BY <1>8, RotateCacheFacts
  <2>2. /\ IsFiniteSet(history') /\ Cardinality(history') = Cardinality(history) + 1
        /\ IsFiniteSet(cache') /\ Cardinality(cache') <= Cardinality(cache) + 1
    BY <1>8, RotateCacheFacts
  <2>3. /\ UNCHANGED <<now, replays, restarts>> /\ lock = w
        /\ history \subseteq history'
    BY <1>8, RotateFacts
  <2>4. answers' = answers \cup {[call |-> work[w].call, pair |-> minted + 1]} /\ Finish(w)
    BY <1>8 DEF RefreshRotate, Answer
  <2>5. Cardinality(cache) \in Nat /\ Cardinality(history) \in Nat /\ Cardinality(cache') \in Nat /\ CacheMax \in Nat
    BY <1>0, <2>2, FS_CardinalityType, ConstantFacts DEF Remembered
  <2>6. Cardinality(cache') <= Cardinality(history')
    <3>1. Cardinality(cache) <= Cardinality(history)
      BY <1>0 DEF Remembered
    <3>2. \A a, b, x, y \in Nat : a <= b /\ x = b + 1 /\ y <= a + 1 => y <= x
      OBVIOUS
    <3> QED
      BY <2>2, <2>5, <3>1
  <2>7. \A v \in Workers : ~Busy(v)'
    BY <1>0, <2>3, <2>4 DEF Finish, Idle, Requested, TypeOK
  <2>8. \A e \in cache' : e.expiresAt >= CacheTtl
    BY <1>0, <2>1 DEF Remembered
  <2>9. ASSUME Young'
        PROVE  \A a \in answers' : \E e \in cache' : e.req = a.call.req
    <3>1. Young /\ cache' = cache \cup {entry}
      BY <2>1, <2>2, <2>3, <2>5, <2>9
    <3>2. \A a \in answers : \E e \in cache : e.req = a.call.req
      BY <1>0, <3>1 DEF Remembered
    <3> QED
      BY <2>1, <2>4, <3>1, <3>2
  <2>10. \A c \in replays' : \E h \in history' : h.token = c.token
    BY <1>0, <2>3 DEF Remembered
  <2> QED
    BY <2>2, <2>6, <2>7, <2>8, <2>9, <2>10 DEF Remembered
<1>9. CASE Restart
  <2>1. cache' = {} /\ UNCHANGED <<history, replays>> /\ restarts' # 0
    BY <1>0, <1>9 DEF Restart
  <2> QED
    BY <1>1, <2>1
<1> QED
  BY <1>3, <1>4, <1>5, <1>6, <1>7, <1>8, <1>9 DEF Next

\* A retry is not judged a replay.
LEMMA RetryStep ==
  ASSUME IInv, [Next]_vars
  PROVE  RetryIsNotReplay'
<1> DEFINE Old == restarts > 0 \/ now >= CacheTtl \/ Cardinality(history) > CacheMax
<1>0. /\ TypeOK /\ Requested /\ Lineage /\ Remembered /\ RetryIsNotReplay
      /\ restarts \in Nat /\ now \in Nat /\ CacheTtl \in Nat /\ CacheMax \in Nat
      /\ Cardinality(history) \in Nat
  BY ConstantFacts, FS_CardinalityType DEF IInv, TypeOK, Remembered
<1>1. CASE UNCHANGED <<answers, history, replays>> /\ now' \in {now, now + 1}
             /\ restarts' \in {restarts, restarts + 1}
  BY <1>0, <1>1 DEF RetryIsNotReplay
<1>2. ASSUME NEW w \in Workers, RefreshCached(w)
      PROVE  RetryIsNotReplay'
  <2>1. UNCHANGED <<now, history, replays, restarts>>
    BY <1>2, CachedFacts
  <2>2. CASE answers' = answers
    BY <1>1, <2>1, <2>2
  <2>3. ASSUME NEW a \in answers, a.call = work[w].call,
               answers' = answers \cup {[call |-> work[w].call, pair |-> a.pair]}
        PROVE  RetryIsNotReplay'
    BY <1>0, <2>1, <2>3 DEF RetryIsNotReplay
  <2> QED
    BY <1>2, <2>2, <2>3, CachedFacts
<1>3. ASSUME NEW w \in Workers, RefreshReplay(w)
      PROVE  RetryIsNotReplay'
  <2>1. UNCHANGED <<now, history, answers, restarts>> /\ replays' \subseteq replays \cup {work[w].call}
    BY <1>3 DEF RefreshReplay, Refuse
  <2>2. \A e \in cache : e.req # work[w].call.req
    BY <1>0, <1>3 DEF RefreshReplay, At, Remembered
  <2>3. ASSUME NEW a \in answers, a.call = work[w].call
        PROVE  Old
    <3>1. ~(restarts = 0 /\ now < CacheTtl /\ Cardinality(history) <= CacheMax)
      BY <1>0, <2>2, <2>3 DEF Remembered
    <3> QED
      BY <1>0, <3>1
  <2> QED
    BY <1>0, <2>1, <2>3 DEF RetryIsNotReplay
<1>4. ASSUME NEW w \in Workers, RefreshRotate(w)
      PROVE  RetryIsNotReplay'
  <2>1. UNCHANGED <<now, replays, restarts>> /\ Cardinality(history') = Cardinality(history) + 1
    BY <1>4, RotateFacts, RotateCacheFacts
  <2>2. Old => Old'
    BY <1>0, <2>1
  <2>3. answers' = answers \cup {[call |-> work[w].call, pair |-> minted + 1]}
    BY <1>4 DEF RefreshRotate, Answer
  <2>4. work[w].call \notin replays
    BY <1>0, <1>4, RotateCacheFacts DEF Remembered
  <2> QED
    BY <1>0, <2>1, <2>2, <2>3, <2>4 DEF RetryIsNotReplay
<1>5. ASSUME NEW s \in AuthSessions, NEW u \in Users, NEW d \in Devices, Issue(s, u, d)
      PROVE  UNCHANGED <<answers, history, replays, now, restarts>>
  BY <1>5, IssueFacts
<1> QED
  BY <1>1, <1>2, <1>3, <1>4, <1>5 DEF Next, vars, Receive, RefreshFind, RefreshRotateFails,
     LogoutFind, LogoutRevoke, Tick, Restart, Refuse

-----------------------------------------------------------------------------

\* The inductive invariant.
LEMMA IInvInvariant == Spec => []IInv
<1>1. IInv /\ [Next]_vars => IInv'
  BY TypeStep, RequestedStep, LineageStep, AnsweredStep, RememberedStep, RetryStep DEF IInv
<1> QED
  BY InitIInv, <1>1, PTL DEF Spec

\* A refresh token buys one pair (rotateRefresh and rotateRefreshToken), on any
\* number of strands and across restarts: two answers to the same token carry the
\* one pair that replaced it.
THEOREM TokenSingleUse == Spec => []SingleUse
<1>1. IInv => SingleUse
  <2> SUFFICES ASSUME IInv PROVE SingleUse
    OBVIOUS
  <2>0. TypeOK /\ Lineage /\ Answered
    BY DEF IInv
  <2>1. \A a \in answers : a.pair \in PairIds /\ a.call.token \in PairIds /\ parent[a.pair] = a.call.token
    BY <2>0, CallFacts DEF TypeOK, Answered
  <2>2. \A x, y \in answers : x.call.token = y.call.token => x.pair = y.pair
    BY <2>0, <2>1 DEF Lineage, PairIds
  <2> QED
    BY <2>0, <2>2 DEF SingleUse
<1> QED
  BY IInvInvariant, <1>1, PTL

\* Every refresh token that was ever made is current or in auth_refresh_history, so
\* that presenting a used one can be told from presenting an unknown one.
THEOREM TokenReplayDetectable == Spec => []ReplayDetectable
<1>1. IInv => ReplayDetectable
  BY DEF IInv
<1> QED
  BY IInvInvariant, <1>1, PTL

\* rotateRefresh judges the retry of an answered request a replay only after a
\* restart, once results can have expired, or once more tokens were rotated than
\* m_refreshResults holds.
THEOREM TokenRetryIsNotReplay == Spec => []RetryIsNotReplay
<1>1. IInv => RetryIsNotReplay
  BY DEF IInv
<1> QED
  BY IInvInvariant, <1>1, PTL

\* No step takes the mark of revocation from a session or gives a revoked session a
\* new pair: a rotation that logout or a replay overtook fails.
THEOREM TokenRevokedIsFinal == Spec => RevokedIsFinal
<1>1. ASSUME IInv, [Next]_vars
      PROVE  \A s \in AuthSessions : rows[s].revoked => rows'[s].revoked /\ rows'[s].pair = rows[s].pair
  <2>1. ASSUME NEW s \in AuthSessions, NEW u \in Users, NEW d \in Devices, Issue(s, u, d)
        PROVE  \A t \in AuthSessions : rows[t].revoked => rows'[t] = rows[t]
    <3>1. ~rows[s].revoked /\ \A t \in AuthSessions \ {s} : rows'[t] = rows[t]
      BY <1>1, <2>1, IssueFacts DEF IInv, Existing
    <3> QED
      BY <3>1
  <2>2. ASSUME NEW w \in Workers, RefreshRotate(w)
        PROVE  \A t \in AuthSessions : rows[t].revoked => rows'[t] = rows[t]
    <3>1. /\ ~rows[work[w].found].revoked
          /\ \A t \in AuthSessions \ {work[w].found} : rows'[t] = rows[t]
      BY <1>1, <2>2, RotateFacts
    <3> QED
      BY <3>1
  <2>3. CASE ~(\E s \in AuthSessions, u \in Users, d \in Devices : Issue(s, u, d))
             /\ ~(\E w \in Workers : RefreshRotate(w))
    BY <1>1, <2>3, OtherFacts
  <2> QED
    BY <2>1, <2>2, <2>3
<1> QED
  BY IInvInvariant, <1>1, PTL DEF Spec, RevokedIsFinal
=============================================================================
