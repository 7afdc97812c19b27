---------------------------- MODULE ThreadProofs ----------------------------
(***************************************************************************)
(* Proofs about the three components that run on threads of their own:     *)
(* the media server (FileTransfer, for any uploads, contents, users and    *)
(* chats, any lifetime of a record and any number of restarts), the        *)
(* database writer (DbWriteQueue, for any callers and any number of tasks) *)
(* and the client's transport (ClientTransport, for every limit of the     *)
(* heartbeat and every number of packets).  They share no state.            *)
(***************************************************************************)
EXTENDS FileTransfer, DbWriteQueue, ClientTransport, SequenceTheorems, TLAPS

-----------------------------------------------------------------------------
(* The media server.                                                       *)

\* A file that got to its path is there, or its path is of an upload gcLoop expired.
Kept(f) == Path(f) \in disk \/ \E g \in orphans \cup lost : Path(g) = Path(f)

\* What an upload has reached: an image whose content was found, a file at its path,
\* and the record, which stays until a chat claims it, it expires or is lost.
Placed ==
  \A f \in Uploads :
    /\ upload[f] \in {"have", "placed", "answered"} => Kept(f)
    /\ Recorded(f) => upload[f] = "answered"
    /\ upload[f] = "answered" =>
         \/ Recorded(f) \/ f \in orphans \/ restarts > 0
         \/ \E d \in Chats : FileOf[d] = f /\ chat[d] = "SUCC"

\* The two users of a chat, the upload's own.
Mine(c) ==
  /\ upload[FileOf[c]] = "answered"
  /\ From[FileOf[c]] = Sender[c] /\ To[FileOf[c]] = Target[c]

\* A chat that got past the look at the record is the upload's own, and a claimed
\* upload has no record left for gcLoop to find.
Claims ==
  /\ \A c \in Chats : chat[c] \in {"found", "saved", "SUCC", "SERVER_ERROR"} => Mine(c)
  /\ \A c \in messages : Mine(c)
  /\ \A c \in Chats : chat[c] = "SUCC" => ~Recorded(FileOf[c])

\* What gcLoop is about to remove belongs to an upload nobody had claimed.
Sweeping == \A p \in expired : \E g \in orphans : Path(g) = p

IInv == TypeOK /\ Placed /\ Claims /\ Sweeping

-----------------------------------------------------------------------------

\* The initial state.
LEMMA InitIInv == Init => IInv
BY FileAssumption DEF Init, IInv, TypeOK, Placed, Claims, Sweeping, Recorded

\* Types.
LEMMA TypeStep ==
  ASSUME IInv, [Next]_vars
  PROVE  TypeOK'
<1>0. /\ TypeOK /\ Placed
      /\ MaxTime \in Nat /\ MaxRestarts \in Nat
      /\ \A f \in Uploads : Path(f) \in Paths
  BY FileAssumption DEF IInv, Paths
<1>1. ASSUME NEW f \in Uploads,
             UploadBegin(f) \/ UploadBroken(f) \/ UploadReceived(f) \/ UploadShared(f)
             \/ UploadPlaced(f) \/ UploadNotPlaced(f)
      PROVE  TypeOK'
  <2>1. PICK to \in {"receiving", "refused", "have", "place", "placed"} : UploadMoves(f, to)
    BY <1>1 DEF UploadBegin, UploadBroken, UploadReceived, UploadShared, UploadPlaced,
        UploadNotPlaced
  <2>2. upload' \in [Uploads -> {"none", "receiving", "refused", "have", "place", "placed",
                                 "answered"}]
    BY <1>0, <2>1 DEF UploadMoves, TypeOK
  <2>3. parts' \subseteq Uploads /\ disk' \subseteq Paths /\ lost' \subseteq Uploads
    BY <1>0, <1>1 DEF TypeOK, UploadBegin, UploadBroken, UploadReceived, UploadShared,
        UploadPlaced,
       UploadNotPlaced
  <2>4. UNCHANGED <<now, records, chat, messages, expired, orphans, restarts>>
    BY <1>1 DEF UploadBegin, UploadBroken, UploadReceived, UploadShared, UploadPlaced,
        UploadNotPlaced
  <2> QED
    BY <1>0, <2>2, <2>3, <2>4 DEF TypeOK
<1>2. ASSUME NEW f \in Uploads, UploadRecorded(f)
      PROVE  TypeOK'
  <2>1. ~Recorded(f)
    BY <1>0, <1>2 DEF UploadRecorded, Placed
  <2>2. \A q, r \in records' : q.file = r.file => q = r
    BY <1>0, <1>2, <2>1 DEF UploadRecorded, Recorded, TypeOK
  <2> QED
    BY <1>0, <1>2, <2>2 DEF UploadRecorded, UploadMoves, TypeOK
<1>3. ASSUME NEW c \in Chats, ChatStep(c)
      PROVE  TypeOK'
  BY <1>0, <1>3 DEF ChatStep, ChatFinds, ChatSaves, ChatSaveFails, ChatErases, ChatMoves,
      TypeOK
<1>4. CASE GcSweep
  <2>1. expired' \subseteq Paths /\ orphans' \subseteq Uploads /\ records' \subseteq records
    BY <1>0, <1>4 DEF GcSweep, Unclaimed, TypeOK
  <2> QED
    BY <1>0, <1>4, <2>1 DEF GcSweep, TypeOK
<1>5. ASSUME NEW p \in Paths, GcRemove(p)
      PROVE  TypeOK'
  BY <1>0, <1>5 DEF GcRemove, TypeOK
<1>6. CASE Tick
  BY <1>0, <1>6 DEF Tick, TypeOK
<1>7. CASE Restart
  BY <1>0, <1>7 DEF Restart, TypeOK
<1>8. CASE UNCHANGED vars
  BY <1>0, <1>8 DEF vars, TypeOK
<1> QED
  BY <1>1, <1>2, <1>3, <1>4, <1>5, <1>6, <1>7, <1>8 DEF Next, UploadStep

\* gcLoop's pass: what it takes out of the map becomes an orphan.
LEMMA SweepFacts ==
  ASSUME IInv, GcSweep
  PROVE  /\ \A r \in records : r \in records' \/ r.file \in orphans'
         /\ \A p \in expired' : \E g \in orphans' : Path(g) = p
         /\ records' \subseteq records /\ orphans \subseteq orphans'
         /\ UNCHANGED <<upload, chat, messages, disk, lost, restarts>>
<1> DEFINE old == {r \in records : Old(r)}
<1>1. \A r \in records : \A c \in Chats : FileOf[c] = r.file => chat[c] # "SUCC"
  BY DEF IInv, Claims, Recorded
<1>2. \A r \in old : r.file \in Unclaimed(old)
  BY <1>1 DEF Unclaimed
<1>3. orphans' = orphans \cup Unclaimed(old) /\ records' = records \ old
      /\ expired' = {Path(r.file) : r \in old}
  BY DEF GcSweep
<1> HIDE DEF old
<1>4. \A r \in records : r \in records' \/ r.file \in orphans'
  BY <1>2, <1>3
<1>5. \A p \in expired' : \E g \in orphans' : Path(g) = p
  BY <1>2, <1>3
<1> QED
  BY <1>3, <1>4, <1>5 DEF GcSweep

\* A file at its path stays there, unless gcLoop has expired an upload of the path.
LEMMA KeptStep ==
  ASSUME IInv, [Next]_vars, NEW f \in Uploads, Kept(f)
  PROVE  Kept(f)'
<1>1. ASSUME disk \subseteq disk', orphans \subseteq orphans', lost \subseteq lost'
      PROVE  Kept(f)'
  BY <1>1 DEF Kept, Path
<1>2. ASSUME NEW p \in Paths, GcRemove(p)
      PROVE  Kept(f)'
  <2>1. \E g \in orphans : Path(g) = p
    BY <1>2 DEF GcRemove, IInv, Sweeping
  <2> QED
    BY <1>2, <2>1 DEF GcRemove, Kept, Path
<1>3. ASSUME NEW g \in Uploads, UploadStep(g)
      PROVE  disk \subseteq disk' /\ orphans \subseteq orphans' /\ lost \subseteq lost'
  BY <1>3 DEF UploadStep, UploadBegin, UploadBroken, UploadReceived, UploadShared,
      UploadPlaced,
     UploadNotPlaced, UploadRecorded
<1>4. ASSUME NEW c \in Chats, ChatStep(c)
      PROVE  disk \subseteq disk' /\ orphans \subseteq orphans' /\ lost \subseteq lost'
  BY <1>4 DEF ChatStep, ChatFinds, ChatSaves, ChatSaveFails, ChatErases
<1>5. ASSUME GcSweep \/ Tick \/ Restart \/ UNCHANGED vars
      PROVE  disk \subseteq disk' /\ orphans \subseteq orphans' /\ lost \subseteq lost'
  BY <1>5 DEF GcSweep, Tick, Restart, vars
<1> QED
  BY <1>1, <1>2, <1>3, <1>4, <1>5 DEF Next

\* How an upload moves on.
LEMMA UploadFacts ==
  ASSUME IInv, NEW g \in Uploads, UploadStep(g)
  PROVE  /\ \A f \in Uploads \ {g} : upload'[f] = upload[f]
         /\ upload[g] # "answered"
         /\ upload'[g] \in {"have", "placed", "answered"} =>
              \/ upload[g] \in {"have", "placed"}
              \/ Path(g) \in disk' \/ g \in lost'
         /\ \/ upload'[g] # "answered" /\ records' = records
            \/ upload'[g] = "answered" /\ records' = records \cup {[file |-> g, at |-> now]}
         /\ UNCHANGED <<chat, messages, expired, orphans, restarts>>
<1>0. TypeOK
  BY DEF IInv
<1>1. PICK to : /\ to \in {"receiving", "refused", "have", "place", "placed", "answered"}
                /\ UploadMoves(g, to)
                /\ upload[g] # "answered"
                /\ to \in {"have", "placed", "answered"} =>
                     upload[g] \in {"have", "placed"} \/ Path(g) \in disk' \/ g \in lost'
                /\ \/ to # "answered" /\ records' = records
                   \/ to = "answered" /\ records' = records \cup {[file |-> g, at |-> now]}
  BY DEF UploadStep, UploadBegin, UploadBroken, UploadReceived, UploadShared, UploadPlaced,
     UploadNotPlaced, UploadRecorded
<1>2. upload'[g] = to /\ \A f \in Uploads \ {g} : upload'[f] = upload[f]
  BY <1>0, <1>1 DEF UploadMoves, TypeOK
<1>3. UNCHANGED <<chat, messages, expired, orphans, restarts>>
  BY DEF UploadStep, UploadBegin, UploadBroken, UploadReceived, UploadShared, UploadPlaced,
     UploadNotPlaced, UploadRecorded
<1> QED
  BY <1>1, <1>2, <1>3

\* How a chat moves on.
LEMMA ChatFacts ==
  ASSUME IInv, NEW c \in Chats, ChatStep(c)
  PROVE  /\ \A d \in Chats \ {c} : chat'[d] = chat[d]
         /\ chat[c] # "SUCC"
         /\ chat'[c] \in {"found", "saved", "SUCC", "SERVER_ERROR"} =>
              chat[c] \in {"found", "saved"} \/ (Owned(c) /\ upload[FileOf[c]] = "answered")
         /\ \/ chat'[c] # "SUCC" /\ records' = records
            \/ chat'[c] = "SUCC" /\ records' = {r \in records : r.file # FileOf[c]}
         /\ messages' = messages \/ (chat[c] = "found" /\ messages' = messages \cup {c})
         /\ UNCHANGED <<upload, disk, expired, orphans, lost, restarts>>
<1>0. TypeOK
  BY DEF IInv
<1>1. PICK to : /\ ChatMoves(c, to) /\ chat[c] # "SUCC"
                /\ to \in {"found", "saved", "SUCC", "SERVER_ERROR"} =>
                     \/ chat[c] \in {"found", "saved"}
                     \/ Owned(c) /\ upload[FileOf[c]] = "answered"
                /\ \/ to # "SUCC" /\ records' = records
                   \/ to = "SUCC" /\ records' = {r \in records : r.file # FileOf[c]}
  BY DEF ChatStep, ChatFinds, ChatSaves, ChatSaveFails, ChatErases
<1>2. chat'[c] = to /\ \A d \in Chats \ {c} : chat'[d] = chat[d]
  BY <1>0, <1>1 DEF ChatMoves, TypeOK
<1>3. /\ messages' = messages \/ (chat[c] = "found" /\ messages' = messages \cup {c})
      /\ UNCHANGED <<upload, disk, expired, orphans, lost, restarts>>
  BY DEF ChatStep, ChatFinds, ChatSaves, ChatSaveFails, ChatErases
<1> QED
  BY <1>1, <1>2, <1>3

\* What is placed and recorded.
LEMMA PlacedStep ==
  ASSUME IInv, [Next]_vars
  PROVE  Placed'
<1>0. /\ TypeOK /\ Placed /\ restarts \in Nat
      /\ \A f \in Uploads : Kept(f) => Kept(f)'
      /\ FileOf \in [Chats -> Uploads]
  BY KeptStep, FileAssumption DEF IInv, TypeOK
<1> SUFFICES ASSUME NEW f \in Uploads
             PROVE  /\ upload'[f] \in {"have", "placed", "answered"} => Kept(f)'
                    /\ Recorded(f)' => upload'[f] = "answered"
                    /\ upload'[f] = "answered" =>
                         \/ Recorded(f)' \/ f \in orphans' \/ restarts' > 0
                         \/ \E d \in Chats : FileOf[d] = f /\ chat'[d] = "SUCC"
  BY DEF Placed
<1>1. ASSUME UNCHANGED <<upload, records, chat, restarts>>, orphans \subseteq orphans'
      PROVE  /\ upload'[f] \in {"have", "placed", "answered"} => Kept(f)'
             /\ Recorded(f)' => upload'[f] = "answered"
             /\ upload'[f] = "answered" =>
                  \/ Recorded(f)' \/ f \in orphans' \/ restarts' > 0
                  \/ \E d \in Chats : FileOf[d] = f /\ chat'[d] = "SUCC"
  BY <1>0, <1>1 DEF Placed, Recorded
<1>2. ASSUME NEW g \in Uploads, UploadStep(g)
      PROVE  /\ upload'[f] \in {"have", "placed", "answered"} => Kept(f)'
             /\ Recorded(f)' => upload'[f] = "answered"
             /\ upload'[f] = "answered" =>
                  \/ Recorded(f)' \/ f \in orphans' \/ restarts' > 0
                  \/ \E d \in Chats : FileOf[d] = f /\ chat'[d] = "SUCC"
  <2>1. Path(f)' = Path(f)
    BY DEF Path
  <2>2. CASE f # g
    <3>1. upload'[f] = upload[f] /\ (Recorded(f)' <=> Recorded(f))
          /\ UNCHANGED <<chat, orphans, restarts>>
      BY <1>2, <2>2, UploadFacts DEF Recorded
    <3> QED
      BY <1>0, <3>1 DEF Placed
  <2>3. CASE f = g
    <3>1. /\ upload[f] # "answered"
          /\ upload'[f] \in {"have", "placed", "answered"} =>
               upload[f] \in {"have", "placed"} \/ Path(f) \in disk' \/ f \in lost'
          /\ \/ upload'[f] # "answered" /\ records' = records
             \/ upload'[f] = "answered" /\ records' = records \cup {[file |-> f, at |-> now]}
      BY <1>2, <2>3, UploadFacts
    <3>2. upload'[f] \in {"have", "placed", "answered"} => Kept(f)'
      BY <1>0, <2>1, <3>1 DEF Placed, Kept
    <3>3. ~Recorded(f)
      BY <1>0, <3>1 DEF Placed
    <3>4. Recorded(f)' <=> upload'[f] = "answered"
      <4>1. CASE upload'[f] = "answered" /\ records' = records \cup {[file |-> f, at |-> now]}
        <5>1. [file |-> f, at |-> now] \in records' /\ [file |-> f, at |-> now].file = f
          BY <4>1
        <5> QED
          BY <3>1, <3>3, <5>1 DEF Recorded
      <4>2. CASE upload'[f] # "answered" /\ records' = records
        BY <3>1, <3>3, <4>2 DEF Recorded
      <4> QED
        BY <3>1, <4>1, <4>2
    <3> QED
      BY <3>2, <3>4
  <2> QED
    BY <2>2, <2>3
<1>3. ASSUME NEW c \in Chats, ChatStep(c)
      PROVE  /\ upload'[f] \in {"have", "placed", "answered"} => Kept(f)'
             /\ Recorded(f)' => upload'[f] = "answered"
             /\ upload'[f] = "answered" =>
                  \/ Recorded(f)' \/ f \in orphans' \/ restarts' > 0
                  \/ \E d \in Chats : FileOf[d] = f /\ chat'[d] = "SUCC"
  <2>1. /\ \A d \in Chats \ {c} : chat'[d] = chat[d]
        /\ chat[c] # "SUCC"
        /\ \/ chat'[c] # "SUCC" /\ records' = records
           \/ chat'[c] = "SUCC" /\ records' = {r \in records : r.file # FileOf[c]}
        /\ UNCHANGED <<upload, orphans, restarts>>
    BY <1>3, ChatFacts
  <2>2. Recorded(f)' => Recorded(f)
    BY <2>1 DEF Recorded
  <2>3. Recorded(f) => Recorded(f)' \/ (FileOf[c] = f /\ chat'[c] = "SUCC")
    BY <2>1 DEF Recorded
  <2> QED
    BY <1>0, <2>1, <2>2, <2>3 DEF Placed
<1>4. CASE GcSweep
  <2>1. /\ \A r \in records : r \in records' \/ r.file \in orphans'
        /\ records' \subseteq records /\ orphans \subseteq orphans'
        /\ UNCHANGED <<upload, chat, restarts>>
    BY <1>4, SweepFacts
  <2>2. (Recorded(f)' => Recorded(f)) /\ (Recorded(f) => Recorded(f)' \/ f \in orphans')
    BY <2>1 DEF Recorded
  <2> QED
    BY <1>0, <2>1, <2>2 DEF Placed
<1>5. CASE Restart
  <2>1. /\ upload'[f] \in {"have", "placed", "answered"} =>
             upload[f] \in {"have", "placed", "answered"}
        /\ ~Recorded(f)' /\ restarts' > 0
    BY <1>0, <1>5 DEF Restart, Recorded, TypeOK
  <2> QED
    BY <1>0, <2>1 DEF Placed
<1>6. ASSUME (\E p \in Paths : GcRemove(p)) \/ Tick \/ UNCHANGED vars
      PROVE  UNCHANGED <<upload, records, chat, restarts, orphans>>
  BY <1>6 DEF GcRemove, Tick, vars
<1> QED
  BY <1>1, <1>2, <1>3, <1>4, <1>5, <1>6 DEF Next

\* Whose chats got past the look at the record.
LEMMA ClaimsStep ==
  ASSUME IInv, [Next]_vars
  PROVE  Claims'
<1>0. TypeOK /\ Placed /\ Claims /\ FileOf \in [Chats -> Uploads]
      /\ messages \subseteq Chats
  BY FileAssumption DEF IInv, TypeOK
<1>1. \A f \in Uploads : upload[f] = "answered" => upload'[f] = "answered"
  <2>1. ASSUME NEW g \in Uploads, UploadStep(g)
        PROVE  \A f \in Uploads : upload[f] = "answered" => upload'[f] = "answered"
    BY <2>1, UploadFacts
  <2>2. CASE Restart
    BY <1>0, <2>2 DEF Restart, TypeOK
  <2>3. ASSUME NEW c \in Chats, ChatStep(c)
        PROVE  UNCHANGED upload
    BY <2>3, ChatFacts
  <2> QED
    BY <2>1, <2>2, <2>3 DEF Next, GcSweep, GcRemove, Tick, vars
<1>2. \A c \in Chats : Mine(c) => Mine(c)'
  BY <1>0, <1>1 DEF Mine
<1>3. CASE UNCHANGED <<chat, messages>> /\ records' \subseteq records
  BY <1>0, <1>2, <1>3 DEF Claims, Recorded
<1>4. ASSUME NEW g \in Uploads, UploadStep(g)
      PROVE  Claims'
  <2>1. /\ upload[g] # "answered" /\ UNCHANGED <<chat, messages>>
        /\ records' \subseteq records \cup {[file |-> g, at |-> now]}
    BY <1>4, UploadFacts
  <2>2. \A c \in Chats : chat[c] = "SUCC" => FileOf[c] # g
    BY <1>0, <2>1 DEF Claims, Mine
  <2> QED
    BY <1>0, <1>2, <2>1, <2>2 DEF Claims, Recorded
<1>5. ASSUME NEW c \in Chats, ChatStep(c)
      PROVE  Claims'
  <2>1. /\ \A d \in Chats \ {c} : chat'[d] = chat[d]
        /\ chat[c] # "SUCC"
        /\ chat'[c] \in {"found", "saved", "SUCC", "SERVER_ERROR"} =>
             chat[c] \in {"found", "saved"} \/ (Owned(c) /\ upload[FileOf[c]] = "answered")
        /\ \/ chat'[c] # "SUCC" /\ records' = records
           \/ chat'[c] = "SUCC" /\ records' = {r \in records : r.file # FileOf[c]}
        /\ messages' = messages \/ (chat[c] = "found" /\ messages' = messages \cup {c})
    BY <1>5, ChatFacts
  <2>2. chat'[c] \in {"found", "saved", "SUCC", "SERVER_ERROR"} => Mine(c)
    BY <1>0, <2>1 DEF Claims, Owned, Mine
  <2>3. \A d \in Chats : chat'[d] \in {"found", "saved", "SUCC", "SERVER_ERROR"} => Mine(d)'
    BY <1>0, <1>2, <2>1, <2>2 DEF Claims
  <2>4. \A d \in messages' : Mine(d)'
    BY <1>0, <1>2, <2>1 DEF Claims
  <2>5. \A d \in Chats : chat'[d] = "SUCC" => ~Recorded(FileOf[d])'
    BY <1>0, <2>1 DEF Claims, Recorded
  <2> QED
    BY <2>3, <2>4, <2>5 DEF Claims
<1>6. CASE Restart
  BY <1>0, <1>2, <1>6 DEF Restart, Claims, Recorded, TypeOK
<1> QED
  BY <1>3, <1>4, <1>5, <1>6 DEF Next, GcSweep, GcRemove, Tick, vars

\* What gcLoop is about to remove.
LEMMA SweepingStep ==
  ASSUME IInv, [Next]_vars
  PROVE  Sweeping'
<1>0. Sweeping /\ \A f \in Uploads : Path(f)' = Path(f)
  BY DEF IInv, Path
<1>1. CASE expired' \subseteq expired /\ orphans \subseteq orphans'
  BY <1>0, <1>1 DEF Sweeping, Path
<1>2. CASE GcSweep
  BY <1>2, SweepFacts DEF Sweeping, Path
<1>3. ASSUME NEW g \in Uploads, UploadStep(g)
      PROVE  UNCHANGED <<expired, orphans>>
  BY <1>3, UploadFacts
<1>4. ASSUME NEW c \in Chats, ChatStep(c)
      PROVE  UNCHANGED <<expired, orphans>>
  BY <1>4, ChatFacts
<1> QED
  BY <1>1, <1>2, <1>3, <1>4 DEF Next, GcRemove, Tick, Restart, vars

-----------------------------------------------------------------------------

\* The inductive invariant.
LEMMA IInvInvariant == Spec => []IInv
<1>1. IInv /\ [Next]_vars => IInv'
  BY TypeStep, PlacedStep, ClaimsStep, SweepingStep DEF IInv
<1> QED
  BY InitIInv, <1>1, PTL DEF Spec

\* A stored media message can be downloaded by its two users and by nobody else
\* (onChat, eraseUploadRecord, handleDownload and gcLoop), unless gcLoop expired an
\* upload of the same content that no answered chat had claimed, or the disk refused
\* the file.
THEOREM MediaStoredIsDownloadable == Spec => []StoredIsDownloadable
<1>1. IInv => StoredIsDownloadable
  <2> SUFFICES ASSUME IInv PROVE StoredIsDownloadable
    OBVIOUS
  <2>0. TypeOK /\ Placed /\ Claims /\ messages \subseteq Chats /\ FileOf \in [Chats -> Uploads]
    BY FileAssumption DEF IInv, TypeOK
  <2>1. ASSUME NEW c \in messages, NEW u,
               ~\E f \in orphans \cup lost : Path(f) = Path(FileOf[c])
        PROVE  Download(u, FileOf[c]) = (IF u \in {Sender[c], Target[c]} THEN 200 ELSE 403)
    <3> DEFINE of == {d \in messages : FileOf[d] = FileOf[c]}
    <3>1. c \in of /\ \A d \in of : Sender[d] = Sender[c] /\ Target[d] = Target[c]
      BY <2>0 DEF Claims, Mine
    <3>2. Path(FileOf[c]) \in disk
      <4>1. FileOf[c] \in Uploads /\ upload[FileOf[c]] = "answered"
        BY <2>0 DEF Claims, Mine
      <4> QED
        BY <2>0, <2>1, <4>1 DEF Placed, Kept
    <3>3. (\A d \in of : u \notin {Sender[d], Target[d]}) <=> u \notin {Sender[c], Target[c]}
      BY <3>1
    <3> QED
      BY <3>1, <3>2, <3>3 DEF Download
  <2> QED
    BY <2>0, <2>1 DEF StoredIsDownloadable
<1> QED
  BY IInvInvariant, <1>1, PTL

\* A failed save does not use up the upload (HttpFileServer.h): the record is there
\* for the retry, unless it expired, another chat claimed it or the server has been
\* restarted.
THEOREM MediaFailedSaveCanRetry == Spec => []FailedSaveCanRetry
<1>1. IInv => FailedSaveCanRetry
  BY FileAssumption DEF IInv, Placed, Claims, Mine, FailedSaveCanRetry, Owned
<1> QED
  BY IInvInvariant, <1>1, PTL
-----------------------------------------------------------------------------
(* The database writer.                                                    *)

\* Where the worker stands, what is open and what has been recorded go together.
DbLifecycle ==
  /\ running = "yes" => worker \notin {"none", "exited"} /\ db = "open"
  /\ worker \notin {"none", "exited"} => db = "open" /\ dtor # "closed"
  /\ worker \in {"check", "asleep", "run"} => workerId = "set"
  /\ running = "no" /\ dtor = "no" => worker = "none"
  /\ worker = "none" => accepted = <<>>
  /\ worker = "exited" => taken = Len(accepted)

\* A caller has at most one task that has not run, and has one if it waits for a
\* result that is not there.
DbPending ==
  /\ \A i, j \in (ran + 1)..Len(accepted) : accepted[i].by = accepted[j].by => i = j
  /\ \A c \in Callers : caller[c] # "idle" /\ result[c] = "none" =>
       \E i \in (ran + 1)..Len(accepted) : accepted[i].by = c

DbIInv == QueueTypeOK /\ DbLifecycle /\ WritesAlone /\ ResultAfterRun /\ DbPending

-----------------------------------------------------------------------------

\* The queue after one more task.
LEMMA DbAppendFacts ==
  ASSUME NEW S, NEW s \in Seq(S), NEW e \in S
  PROVE  /\ Append(s, e) \in Seq(S)
         /\ Len(Append(s, e)) = Len(s) + 1 /\ Len(s) \in Nat
         /\ \A i \in 1..Len(s) : Append(s, e)[i] = s[i]
         /\ Append(s, e)[Len(s) + 1] = e
  BY AppendProperties, LenProperties

\* Every task of the queue belongs to a caller.
LEMMA DbTaskFacts ==
  ASSUME QueueTypeOK
  PROVE  /\ Len(accepted) \in Nat
         /\ taken \in Nat /\ taken <= Len(accepted) /\ ran \in Nat
         /\ \A i \in 1..Len(accepted) : accepted[i] \in Task /\ accepted[i].by \in Callers
<1>1. \A t \in Task : t.by \in Callers
  BY DEF Task
<1>2. accepted \in Seq(Task) /\ taken \in 0..Len(accepted) /\ ran \in Nat
  BY Zenon DEF QueueTypeOK
<1>3. Len(accepted) \in Nat /\ \A i \in 1..Len(accepted) : accepted[i] \in Task
  BY <1>2, LenProperties, ElementOfSeq
<1> QED
  BY <1>1, <1>2, <1>3

\* A queue just made satisfies the inductive invariant.
LEMMA DbInitIInv == QueueInit => DbIInv
<1> SUFFICES ASSUME QueueInit PROVE DbIInv
  OBVIOUS
<1>1. Len(accepted) = 0 /\ accepted \in Seq(Task)
  BY DEF QueueInit
<1> QED
  BY <1>1 DEF QueueInit, DbIInv, QueueTypeOK, DbLifecycle, WritesAlone, ResultAfterRun,
      DbPending

\* Types, the life of the worker and that it writes alone.
LEMMA DbLifecycleStep ==
  ASSUME DbIInv, [QueueNext]_queueVars
  PROVE  QueueTypeOK' /\ DbLifecycle' /\ WritesAlone'
<1>0. /\ QueueTypeOK /\ DbLifecycle /\ WritesAlone
      /\ accepted \in Seq(Task) /\ Len(accepted) \in Nat
  BY DbTaskFacts DEF DbIInv, QueueTypeOK
<1>1. CASE UNCHANGED queueVars
  BY <1>0, <1>1 DEF queueVars, QueueTypeOK, DbLifecycle, WritesAlone
<1>2. CASE Open
  BY <1>0, <1>2 DEF Open, callerVars, QueueTypeOK, DbLifecycle, WritesAlone
<1>3. ASSUME NEW c \in Callers, NEW kind \in TaskKinds, Submit(c, kind)
      PROVE  QueueTypeOK' /\ DbLifecycle' /\ WritesAlone'
  <2>1. [by |-> c, kind |-> kind] \in Task
    BY DEF Task
  <2>2. CASE running = "no"
    BY <1>0, <1>3, <2>2 DEF Submit, workerVars, QueueTypeOK, DbLifecycle, WritesAlone
  <2>3. CASE running = "yes"
    <3> DEFINE e == [by |-> c, kind |-> kind]
    <3>1. /\ accepted' = Append(accepted, e)
          /\ caller' = [caller EXCEPT ![c] = "notify"]
          /\ result' = [result EXCEPT ![c] = "none"]
          /\ UNCHANGED <<running, db, taken, ran, worker, workerId, dtor>>
      BY <1>3, <2>3 DEF Submit, workerVars
    <3>2. e \in Task
      BY <2>1
    <3> HIDE DEF e
    <3>3. /\ accepted' \in Seq(Task) /\ Len(accepted') = Len(accepted) + 1
      BY <1>0, <3>1, <3>2, DbAppendFacts
    <3>4. taken' \in 0..Len(accepted')
      BY <1>0, <3>1, <3>3, DbTaskFacts
    <3>5. QueueTypeOK'
      BY <1>0, <3>1, <3>3, <3>4 DEF QueueTypeOK
    <3>6. worker \notin {"none", "exited"}
      BY <1>0, <2>3 DEF DbLifecycle
    <3> QED
      BY <1>0, <3>1, <3>5, <3>6 DEF DbLifecycle, WritesAlone
  <2> QED
    BY <1>0, <2>2, <2>3 DEF QueueTypeOK
<1>4. ASSUME NEW c \in Callers, Caller(c)
      PROVE  QueueTypeOK' /\ DbLifecycle' /\ WritesAlone'
  BY <1>0, <1>4 DEF Caller, Notify, Return, Woken, workerVars, QueueTypeOK,
      DbLifecycle, WritesAlone
<1>5. CASE Worker
  <2>1. CASE RecordId
    BY <1>0, <2>1 DEF RecordId, callerVars, QueueTypeOK, DbLifecycle, WritesAlone
  <2>2. CASE Check
    <3>1. /\ UNCHANGED <<running, db, accepted, ran, caller, result, dtor>>
          /\ worker = "check"
          /\ taken \in 0..Len(accepted)
      BY <1>0, <2>2 DEF Check, callerVars, QueueTypeOK
    <3>2. taken' \in 0..Len(accepted) /\ (worker' = "run" <=> taken' = taken + 1)
          /\ (worker' # "run" <=> taken' = taken)
      BY <1>0, <2>2, <3>1 DEF Check, QueueEmpty
    <3>3. worker' = "exited" => running = "no" /\ taken' = Len(accepted)
      BY <2>2, <3>1 DEF Check, QueueEmpty
    <3>4. /\ worker' \in {"asleep", "exited", "run"}
          /\ workerId' = IF worker' = "exited" THEN "unset" ELSE workerId
      BY <2>2 DEF Check
    <3>5. QueueTypeOK'
      BY <1>0, <3>1, <3>2, <3>4 DEF QueueTypeOK
    <3> QED
      BY <1>0, <3>1, <3>2, <3>3, <3>4, <3>5 DEF DbLifecycle, WritesAlone
  <2>3. CASE RunTask
    <3>1. taken \in 1..Len(accepted)
      <4>1. taken = ran + 1
        BY <1>0, <2>3 DEF RunTask, WritesAlone
      <4> QED
        BY <1>0, <4>1, DbTaskFacts
    <3>2. accepted[taken].by \in Callers
      BY <1>0, <3>1, DbTaskFacts
    <3> QED
      BY <1>0, <2>3, <3>2 DEF RunTask, QueueTypeOK, DbLifecycle, WritesAlone
  <2> QED
    BY <1>5, <2>1, <2>2, <2>3 DEF Worker
<1>6. CASE SpuriousWakeup
  BY <1>0, <1>6 DEF SpuriousWakeup, callerVars, QueueTypeOK, DbLifecycle, WritesAlone
<1>7. CASE Destroy \/ DestroyNotify \/ DestroyJoin
  BY <1>0, <1>7 DEF Destroy, DestroyNotify, DestroyJoin, Woken, callerVars,
      workerVars,
                    QueueTypeOK, DbLifecycle, WritesAlone
<1> QED
  BY <1>1, <1>2, <1>3, <1>4, <1>5, <1>6, <1>7 DEF QueueNext

\* Tasks that have not run and their callers.
LEMMA DbPendingStep ==
  ASSUME DbIInv, [QueueNext]_queueVars
  PROVE  ResultAfterRun' /\ DbPending'
<1> DEFINE by(i) == accepted[i].by
           N == Len(accepted)
<1>0. /\ N \in Nat /\ ran \in Nat /\ ran <= N
      /\ \A i \in 1..N : by(i) \in Callers
      /\ \A i \in (ran + 1)..N : caller[by(i)] # "idle" /\ result[by(i)] = "none"
      /\ \A i, j \in (ran + 1)..N : by(i) = by(j) => i = j
      /\ \A c \in Callers : caller[c] # "idle" /\ result[c] = "none" =>
           \E i \in (ran + 1)..N : by(i) = c
  <2>1. QueueTypeOK /\ ResultAfterRun /\ DbPending /\ WritesAlone
    BY DEF DbIInv
  <2>2. ran \in Nat /\ ran <= N
    <3>1. taken = ran + 1 \/ taken = ran
      BY <2>1 DEF WritesAlone
    <3> QED
      BY <2>1, <3>1, DbTaskFacts
  <2> QED
    BY <2>1, <2>2, DbTaskFacts DEF ResultAfterRun, DbPending
<1>T. /\ caller \in [Callers -> {"idle", "notify", "wait"}]
      /\ result \in [Callers -> {"none", "value", "exception", "refused"}]
      /\ accepted \in Seq(Task)
  BY DEF DbIInv, QueueTypeOK
<1>1. CASE UNCHANGED <<accepted, ran, caller, result>>
  BY <1>0, <1>1 DEF ResultAfterRun, DbPending
<1>2. ASSUME NEW c \in Callers, NEW kind \in TaskKinds, Submit(c, kind)
      PROVE  ResultAfterRun' /\ DbPending'
  <2>1. \A i \in (ran + 1)..N : by(i) # c
    BY <1>0, <1>2 DEF Submit
  <2>2. CASE running = "no"
    <3>1. UNCHANGED <<accepted, ran, caller>> /\ caller[c] = "idle"
          /\ \A d \in Callers : d # c => result'[d] = result[d]
      BY <1>T, <1>2, <2>2 DEF Submit, workerVars
    <3> QED
      BY <1>0, <2>1, <3>1 DEF ResultAfterRun, DbPending
  <2>3. CASE running # "no"
    <3> DEFINE e == [by |-> c, kind |-> kind]
    <3>1. /\ accepted' = Append(accepted, e)
          /\ UNCHANGED ran
          /\ caller' = [caller EXCEPT ![c] = "notify"]
          /\ result' = [result EXCEPT ![c] = "none"]
      BY <1>2, <2>3 DEF Submit, workerVars
    <3>2. e \in Task /\ e.by = c
      BY DEF Task
    <3> HIDE DEF e
    <3>3. /\ Len(accepted') = N + 1
          /\ \A i \in 1..N : accepted'[i] = accepted[i]
          /\ accepted'[N + 1] = e
      BY <1>T, <3>1, <3>2, DbAppendFacts
    <3>4. /\ caller'[c] = "notify" /\ result'[c] = "none"
          /\ \A d \in Callers : d # c => caller'[d] = caller[d] /\ result'[d] = result[d]
      BY <1>T, <3>1
    <3>5. \A i \in (ran + 1)..(N + 1) :
            accepted'[i].by = (IF i = N + 1 THEN c ELSE by(i))
      BY <1>0, <3>2, <3>3
    <3> HIDE DEF by, N
    <3>6. ASSUME NEW i \in (ran + 1)..(N + 1)
          PROVE  caller'[accepted'[i].by] # "idle" /\ result'[accepted'[i].by] = "none"
      <4>1. CASE i = N + 1
        BY <3>4, <3>5, <4>1
      <4>2. CASE i # N + 1
        <5>1. i \in (ran + 1)..N /\ i \in 1..N
          BY <1>0, <4>2
        <5> QED
          BY <1>0, <2>1, <3>4, <3>5, <4>2, <5>1
      <4> QED
        BY <4>1, <4>2
    <3>7. ASSUME NEW i \in (ran + 1)..(N + 1), NEW j \in (ran + 1)..(N + 1),
                 accepted'[i].by = accepted'[j].by
          PROVE  i = j
      <4>1. \A x \in (ran + 1)..(N + 1) : x # N + 1 => x \in (ran + 1)..N
        BY <1>0
      <4> QED
        BY <1>0, <2>1, <3>5, <3>7, <4>1
    <3>8. ASSUME NEW d \in Callers, caller'[d] # "idle" /\ result'[d] = "none"
          PROVE  \E i \in (ran + 1)..(N + 1) : accepted'[i].by = d
      <4>1. CASE d = c
        <5>1. N + 1 \in (ran + 1)..(N + 1)
          BY <1>0
        <5> QED
          BY <3>5, <4>1, <5>1
      <4>2. CASE d # c
        <5>1. PICK i \in (ran + 1)..N : by(i) = d
          BY <1>0, <3>4, <3>8, <4>2
        <5>2. i \in (ran + 1)..(N + 1) /\ i # N + 1
          BY <1>0
        <5> QED
          BY <3>5, <5>1, <5>2
      <4> QED
        BY <4>1, <4>2
    <3> QED
      <4>1. (ran' + 1)..Len(accepted') = (ran + 1)..(N + 1)
        BY <3>1, <3>3
      <4>2. ResultAfterRun'
        BY <3>6, <4>1 DEF ResultAfterRun
      <4>3. DbPending'
        BY <3>7, <3>8, <4>1 DEF DbPending
      <4> QED
        BY <4>2, <4>3
  <2> QED
    BY <2>2, <2>3
<1>3. ASSUME NEW c \in Callers, Caller(c)
      PROVE  ResultAfterRun' /\ DbPending'
  <2>1. CASE Notify(c)
    <3>1. /\ UNCHANGED <<accepted, ran, result>> /\ caller[c] = "notify"
          /\ caller'[c] = "wait" /\ \A d \in Callers : d # c => caller'[d] = caller[d]
      BY <1>T, <2>1 DEF Notify
    <3> QED
      BY <1>0, <3>1 DEF ResultAfterRun, DbPending
  <2>2. CASE Return(c)
    <3>1. /\ UNCHANGED <<accepted, ran, result>> /\ result[c] # "none"
          /\ caller'[c] = "idle" /\ \A d \in Callers : d # c => caller'[d] = caller[d]
      BY <1>T, <2>2 DEF Return, workerVars
    <3> QED
      BY <1>0, <3>1 DEF ResultAfterRun, DbPending
  <2> QED
    BY <1>3, <2>1, <2>2 DEF Caller
<1>4. CASE RunTask
  <2>1. /\ worker = "run" /\ workerId = "set" /\ taken = ran + 1 /\ taken <= N
    BY <1>0, <1>4 DEF RunTask, DbIInv, DbLifecycle, WritesAlone, QueueTypeOK
  <2>2. /\ ran' = ran + 1 /\ UNCHANGED <<accepted, caller>>
        /\ by(ran + 1) \in Callers
        /\ result'[by(ran + 1)] # "none"
        /\ \A d \in Callers : d # by(ran + 1) => result'[d] = result[d]
    BY <1>0, <1>T, <1>4, <2>1 DEF RunTask
  <2>3. \A i \in (ran + 2)..N : i \in (ran + 1)..N /\ i \in 1..N /\ i # ran + 1
    BY <1>0
  <2>4. \A i \in (ran + 1)..N : i # ran + 1 => i \in (ran + 2)..N
    BY <1>0
  <2>5. ran + 1 \in (ran + 1)..N /\ ran' + 1 = ran + 2
    BY <1>0, <2>1, <2>2
  <2>6. \A i \in (ran + 2)..N : by(i) # by(ran + 1)
    BY <1>0, <2>3, <2>5
  <2>7. \A d \in Callers : caller[d] # "idle" /\ result'[d] = "none" =>
          \E i \in (ran + 2)..N : by(i) = d
    BY <1>0, <2>2, <2>4
  <2> QED
    BY <1>0, <2>2, <2>3, <2>5, <2>6, <2>7 DEF ResultAfterRun, DbPending
<1>5. CASE \/ Open \/ RecordId \/ Check \/ SpuriousWakeup
           \/ Destroy \/ DestroyNotify \/ DestroyJoin
  BY <1>1, <1>5 DEF Open, RecordId, Check, SpuriousWakeup, Destroy,
      DestroyNotify,
                    DestroyJoin, callerVars, workerVars
<1>6. CASE UNCHANGED queueVars
  BY <1>1, <1>6 DEF queueVars
<1> QED
  BY <1>2, <1>3, <1>4, <1>5, <1>6 DEF QueueNext, Worker

\* IInv is an invariant of the specification.
LEMMA DbIInvInvariant == QueueSpec => []DbIInv
<1>1. DbIInv /\ [QueueNext]_queueVars => DbIInv'
  BY DbLifecycleStep, DbPendingStep DEF DbIInv
<1> QED
  BY DbInitIInv, <1>1, PTL DEF QueueSpec

\* Type correctness of the queue.
THEOREM QueueTypeCorrect == QueueSpec => []QueueTypeOK
<1>1. DbIInv => QueueTypeOK
  BY DEF DbIInv
<1> QED
  BY DbIInvInvariant, <1>1, PTL

\* The worker of DbWriteQueue::run writes alone, on an open connection, and never waits
\* for itself, with any number of callers, tasks, exceptions and nested submits.
THEOREM QueueWritesAlone == QueueSpec => []WritesAlone
<1>1. DbIInv => WritesAlone
  BY DEF DbIInv
<1> QED
  BY DbIInvInvariant, <1>1, PTL

\* No caller of submit() learns anything of its task before it has run, and when the
\* destructor has closed the connection every accepted task has run.
THEOREM QueueNothingLeftBehind == QueueSpec => []NothingLeftBehind
<1>1. DbIInv => NothingLeftBehind
  <2> SUFFICES ASSUME DbIInv, dtor = "closed" PROVE NothingLeftBehind
    BY DEF DbIInv, NothingLeftBehind
  <2>1. worker \in {"none", "exited"} /\ taken = ran
    BY DEF DbIInv, DbLifecycle, WritesAlone
  <2>2. ran = Len(accepted)
    <3>1. CASE worker = "none"
      <4>1. accepted = <<>>
        BY <3>1 DEF DbIInv, DbLifecycle
      <4>2. Len(accepted) = 0
        BY <4>1
      <4> QED
        BY <2>1, <4>2, DbTaskFacts DEF DbIInv
    <3>2. CASE worker = "exited"
      BY <2>1, <3>2 DEF DbIInv, DbLifecycle
    <3> QED
      BY <2>1, <3>1, <3>2
  <2>3. Len(accepted) \in Nat
    BY DbTaskFacts DEF DbIInv
  <2>4. \A i \in (ran + 1)..Len(accepted) : FALSE
    BY <2>2, <2>3
  <2> QED
    BY <2>2, <2>4 DEF DbIInv, DbPending, NothingLeftBehind
<1> QED
  BY DbIInvInvariant, <1>1, PTL
-----------------------------------------------------------------------------
(* The client's transport.                                                 *)

\* The m_io thread ends only after the read has failed, which is reported; close()
\* comes to its own notifyClose() only when that thread has ended.
NetReported ==
  /\ closedBy \in {<<>>, <<"io">>}
  /\ io = "running" /\ read = "none" => closedBy # <<>>
  /\ io = "ended" => closedBy # <<>>
  /\ pc["user"] = "done" => io = "ended"
  /\ pc["user"] = "new" <=> io = "none"

\* No thread has posted the close yet.
NetNotYet == pc["user"] = "new" \/ open = "yes" \/ \E a \in Threads : pc[a] = "closePost"

\* Until then every packet is on the wire, in the queue or posted.
NetAccounted ==
  /\ NetNotYet => /\ closing = "no" /\ socket # "closed"
                  /\ \A k \in 1..Len(posted) : posted[k] = "send"
                  /\ wire + queue + Len(posted) = sent
  /\ open = "yes" => \A a \in Threads : pc[a] # "closePost"
  /\ pc["user"] = "closePost" => pc["hb"] # "closePost"
  /\ pc["user"] = "new" => open = "no" /\ pc["hb"] # "closePost"

\* Afterwards the close comes behind the packets of before, and so does its effect.
NetBehind ==
  /\ \A k \in 1..Len(posted) : posted[k] = "close" => wire + queue + k > before
  /\ closing = "yes" => wire + queue >= before
  /\ socket = "closed" => wire >= before

NetIInv == TransportTypeOK /\ NetReported /\ NetAccounted /\ NetBehind

\* What Append does to a sequence of handlers.
LEMMA NetAppendFacts ==
  ASSUME NEW s \in Seq(HandlerKinds), NEW e \in HandlerKinds
  PROVE  /\ Append(s, e) \in Seq(HandlerKinds)
         /\ Len(Append(s, e)) = Len(s) + 1
         /\ Len(s) \in Nat
         /\ \A k \in 1..Len(s) : Append(s, e)[k] = s[k]
         /\ Append(s, e)[Len(s) + 1] = e
<1>1. Len(s) \in Nat
  BY LenProperties
<1> QED
  BY <1>1, AppendProperties

\* What Tail does to one.
LEMMA NetTailFacts ==
  ASSUME NEW s \in Seq(HandlerKinds), s # <<>>
  PROVE  /\ Tail(s) \in Seq(HandlerKinds)
         /\ Len(s) \in Nat /\ Len(s) > 0
         /\ Len(Tail(s)) = Len(s) - 1
         /\ \A k \in 1..Len(Tail(s)) : Tail(s)[k] = s[k + 1]
         /\ Head(s) = s[1]
BY HeadTailProperties, LenProperties, EmptySeq

-----------------------------------------------------------------------------

\* Before connect() the inductive invariant holds.
LEMMA NetInitIInv == TransportInit => NetIInv
<1> SUFFICES ASSUME TransportInit PROVE NetIInv
  OBVIOUS
<1>1. posted = <<>> /\ posted \in Seq(HandlerKinds) /\ Len(posted) = 0
  BY EmptySeq DEF TransportInit
<1>2. pc \in [Threads -> Places] /\ pc["user"] = "new" /\ pc["hb"] = "none"
  BY DEF TransportInit, Threads, Places
<1>3. TransportTypeOK
  BY <1>1, <1>2 DEF TransportInit, TransportTypeOK
<1>4. NetReported
  BY <1>2 DEF TransportInit, NetReported
<1>5. NetAccounted
  BY <1>1, <1>2 DEF TransportInit, NetAccounted, Threads
<1>6. NetBehind
  BY <1>1 DEF TransportInit, NetBehind
<1> QED
  BY <1>3, <1>4, <1>5, <1>6 DEF NetIInv

\* Every step keeps the types.
LEMMA NetTypeOKStep == NetIInv /\ [TransportNext]_transportVars => TransportTypeOK'
<1> SUFFICES ASSUME NetIInv, [TransportNext]_transportVars PROVE TransportTypeOK'
  OBVIOUS
<1>t. /\ pc \in [Threads -> Places]
      /\ posted \in Seq(HandlerKinds)
      /\ queue \in Nat /\ wire \in Nat /\ sent \in Nat /\ before \in Nat
      /\ write # "none" => queue > 0
  BY Zenon DEF NetIInv, TransportTypeOK
<1>p. posted # <<>> => Tail(posted) \in Seq(HandlerKinds)
  BY <1>t, NetTailFacts
<1>a. Append(posted, "send") \in Seq(HandlerKinds) /\ Append(posted, "close") \in Seq(HandlerKinds)
  BY <1>t, NetAppendFacts DEF HandlerKinds
<1>1. CASE UNCHANGED transportVars
  BY <1>1, <1>t DEF transportVars, threadVars, streamVars, TransportTypeOK, Places
<1>2. CASE Connect
  BY <1>2, <1>t DEF Connect, TransportTypeOK, Places, Rest
<1>3. CASE UserSends \/ Disconnect \/ JoinHeartbeat \/ HeartbeatEnds
  BY <1>3, <1>t DEF UserSends, Disconnect, JoinHeartbeat, HeartbeatEnds,
      Goes, TransportTypeOK, Places, streamVars
<1>4. CASE Heartbeat
  BY <1>4, <1>t DEF Heartbeat, Goes, TransportTypeOK, Places, streamVars
<1>5. ASSUME NEW a \in Threads, Thread(a) PROVE TransportTypeOK'
  <2>1. CASE SendPost(a)
    BY <1>5, <2>1, <1>t, <1>a DEF SendPost, Goes, Rest, TransportTypeOK, Places,
        streamVars
  <2>2. CASE CloseExchange(a)
    BY <1>5, <2>2, <1>t DEF CloseExchange, Goes, TransportTypeOK, Places,
        streamVars
  <2>3. CASE ClosePost(a)
    BY <1>5, <2>3, <1>t, <1>a DEF ClosePost, Goes, TransportTypeOK, Places,
        streamVars
  <2>4. CASE CloseJoin(a)
    BY <1>5, <2>4, <1>t DEF CloseJoin, Goes, TransportTypeOK, Places, streamVars
  <2> QED
    BY <1>5, <2>1, <2>2, <2>3, <2>4 DEF Thread
<1>6. CASE Io
  <2>1. CASE RunSend \/ RunClose
    <3>1. /\ UNCHANGED <<pc, wire, sent, before>> /\ posted' \in Seq(HandlerKinds)
      BY <2>1, <1>p DEF RunSend, RunClose, threadVars
    <3>2. queue' \in Nat /\ (write' # "none" => queue' > 0)
      BY <2>1, <1>t DEF RunSend, RunClose
    <3> QED
      BY <1>t, <3>1, <3>2 DEF TransportTypeOK
  <2>2. CASE ReadPacket \/ ReadFailed \/ IoEnds
    BY <2>2, <1>t DEF ReadPacket, ReadFailed, IoEnds, threadVars,
        streamVars, TransportTypeOK, Places
  <2>3. CASE WriteDone
    BY <2>3, <1>t DEF WriteDone, threadVars, TransportTypeOK, Places
  <2>4. CASE WriteFailed
    BY <2>4, <1>t DEF WriteFailed, threadVars, TransportTypeOK, Places
  <2> QED
    BY <1>6, <2>1, <2>2, <2>3, <2>4 DEF Io
<1>7. ASSUME NEW res, ReadCompletes(res) PROVE TransportTypeOK'
  BY <1>7, <1>t DEF ReadCompletes, threadVars, streamVars, TransportTypeOK,
      Places
<1>8. ASSUME NEW res, WriteCompletes(res) PROVE TransportTypeOK'
  BY <1>8, <1>t DEF WriteCompletes, threadVars, TransportTypeOK, Places
<1>9. CASE LinkBreaks
  BY <1>9, <1>t DEF LinkBreaks, threadVars, streamVars, TransportTypeOK, Places
<1> QED
  BY <1>1, <1>2, <1>3, <1>4, <1>5, <1>6, <1>7, <1>8, <1>9 DEF TransportNext

\* Every step keeps the end of the connection reported by the I/O thread alone.
LEMMA NetReportedStep == NetIInv /\ [TransportNext]_transportVars => NetReported'
<1> SUFFICES ASSUME NetIInv, [TransportNext]_transportVars PROVE NetReported'
  OBVIOUS
<1>t. pc \in [Threads -> Places] /\ "user" \in Threads
  BY Zenon DEF NetIInv, TransportTypeOK, Threads
<1>r. NetReported
  BY Zenon DEF NetIInv
<1>1. CASE UNCHANGED transportVars
  BY <1>1, <1>r DEF transportVars, threadVars, NetReported
<1>2. CASE Connect
  BY <1>2, <1>r, <1>t DEF Connect, Rest, NetReported
<1>3. CASE UserSends \/ Disconnect \/ JoinHeartbeat \/ HeartbeatEnds
  BY <1>3, <1>r, <1>t DEF UserSends, Disconnect, JoinHeartbeat,
      HeartbeatEnds, Goes, NetReported
<1>4. CASE Heartbeat
  BY <1>4, <1>r, <1>t DEF Heartbeat, Goes, NetReported
<1>5. ASSUME NEW a \in Threads, Thread(a) PROVE NetReported'
  <2>1. CASE SendPost(a) \/ CloseExchange(a) \/ ClosePost(a)
    BY <1>5, <2>1, <1>r, <1>t DEF SendPost, CloseExchange, ClosePost, Goes,
        Rest, NetReported
  <2>2. CASE CloseJoin(a)
    BY <1>5, <2>2, <1>r, <1>t DEF CloseJoin, NotifyClose, Goes, NetReported
  <2> QED
    BY <1>5, <2>1, <2>2 DEF Thread
<1>6. CASE Io
  <2>1. CASE RunSend \/ RunClose \/ ReadPacket \/ WriteDone
    BY <2>1, <1>r DEF RunSend, RunClose, ReadPacket, WriteDone,
        threadVars, NetReported
  <2>2. CASE ReadFailed \/ WriteFailed
    BY <2>2, <1>r DEF ReadFailed, WriteFailed, NotifyClose, threadVars,
        NetReported
  <2>3. CASE IoEnds
    BY <2>3, <1>r DEF IoEnds, threadVars, NetReported
  <2> QED
    BY <1>6, <2>1, <2>2, <2>3 DEF Io
<1>7. ASSUME NEW res \in {"packet", "bad", "error"}, ReadCompletes(res) PROVE NetReported'
  BY <1>7, <1>r DEF ReadCompletes, threadVars, NetReported
<1>8. ASSUME NEW res, WriteCompletes(res) PROVE NetReported'
  BY <1>8, <1>r DEF WriteCompletes, threadVars, NetReported
<1>9. CASE LinkBreaks
  BY <1>9, <1>r DEF LinkBreaks, threadVars, NetReported
<1> QED
  BY <1>1, <1>2, <1>3, <1>4, <1>5, <1>6, <1>7, <1>8, <1>9 DEF TransportNext

\* Every step keeps the packets accounted for until a close is posted, and only one
\* thread gets to post it.
LEMMA NetAccountedStep == NetIInv /\ [TransportNext]_transportVars => NetAccounted'
<1> SUFFICES ASSUME NetIInv, [TransportNext]_transportVars PROVE NetAccounted'
  OBVIOUS
<1>t. /\ pc \in [Threads -> Places] /\ posted \in Seq(HandlerKinds)
      /\ queue \in Nat /\ wire \in Nat /\ sent \in Nat
      /\ write # "none" => queue > 0
  BY Zenon DEF NetIInv, TransportTypeOK
<1>r. NetAccounted
  BY Zenon DEF NetIInv
<1>h. Threads = {"user", "hb"}
  BY DEF Threads
<1>l. Len(posted) \in Nat
  BY <1>t, LenProperties
<1>1. CASE UNCHANGED transportVars
  BY <1>1, <1>r DEF transportVars, threadVars, streamVars, NetAccounted, NetNotYet
<1>2. CASE Connect
  BY <1>2, <1>r, <1>t, <1>h DEF Connect, Rest, NetAccounted, NetNotYet
<1>3. CASE UserSends \/ Disconnect \/ JoinHeartbeat \/ HeartbeatEnds
  BY <1>3, <1>r, <1>t, <1>h
     DEF UserSends, Disconnect, JoinHeartbeat, HeartbeatEnds, Goes,
         streamVars, NetAccounted, NetNotYet
<1>4. CASE Heartbeat
  BY <1>4, <1>r, <1>t, <1>h DEF Heartbeat, Goes, streamVars, NetAccounted,
      NetNotYet
<1>5. ASSUME NEW a \in Threads, Thread(a) PROVE NetAccounted'
  <2>1. CASE SendPost(a)
    <3>1. /\ Len(posted') = Len(posted) + 1
          /\ \A k \in 1..Len(posted) : posted'[k] = posted[k]
          /\ posted'[Len(posted) + 1] = "send"
      BY <2>1, <1>t, NetAppendFacts DEF SendPost, HandlerKinds
    <3>2. NetNotYet' => NetNotYet
      BY <1>5, <2>1, <1>t, <1>h DEF SendPost, Goes, Rest, NetNotYet
    <3>3. (\A k \in 1..Len(posted) : posted[k] = "send") =>
            \A k \in 1..Len(posted') : posted'[k] = "send"
      BY <3>1, <1>l
    <3>4. /\ UNCHANGED <<open, closing, socket, wire, queue>> /\ sent' = sent + 1
          /\ pc["user"] # "new" \/ pc'["user"] = pc["user"]
          /\ pc'["user"] = "new" => pc["user"] = "new"
          /\ \A b \in Threads : pc'[b] = "closePost" => pc[b] = "closePost"
      BY <1>5, <2>1, <1>t DEF SendPost, Goes, Rest, streamVars, Threads
    <3>5. wire + queue + Len(posted) = sent => wire + queue + Len(posted') = sent + 1
      BY <3>1, <1>t, <1>l
    <3>6. NetNotYet' => /\ closing = "no" /\ socket # "closed"
                        /\ \A k \in 1..Len(posted') : posted'[k] = "send"
                        /\ wire + queue + Len(posted') = sent + 1
      BY <3>2, <3>3, <3>5, <1>r DEF NetAccounted
    <3> QED
      BY <3>4, <3>6, <1>r, <1>h DEF NetAccounted, Threads
  <2>2. CASE CloseExchange(a)
    BY <1>5, <2>2, <1>r, <1>t, <1>h DEF CloseExchange, Goes, streamVars,
        NetAccounted, NetNotYet
  <2>3. CASE ClosePost(a)
    BY <1>5, <2>3, <1>r, <1>t, <1>h DEF ClosePost, Goes, streamVars,
        NetAccounted, NetNotYet
  <2>4. CASE CloseJoin(a)
    BY <1>5, <2>4, <1>r, <1>t, <1>h DEF CloseJoin, NotifyClose, Goes,
        streamVars, NetAccounted, NetNotYet
  <2> QED
    BY <1>5, <2>1, <2>2, <2>3, <2>4 DEF Thread
<1>6. CASE Io
  <2>1. CASE RunSend
    <3>1. /\ Len(posted) > 0 /\ Len(posted') = Len(posted) - 1
          /\ \A k \in 1..Len(posted') : posted'[k] = posted[k + 1]
      BY <2>1, <1>t, NetTailFacts DEF RunSend
    <3>2. (\A k \in 1..Len(posted) : posted[k] = "send") =>
            \A k \in 1..Len(posted') : posted'[k] = "send"
      BY <3>1, <1>l
    <3> QED
      BY <2>1, <3>1, <3>2, <1>r, <1>t, <1>l DEF RunSend, threadVars, NetAccounted,
          NetNotYet
  <2>2. CASE RunClose
    <3>1. Len(posted) > 0 /\ posted[1] = "close"
      BY <2>2, <1>t, NetTailFacts DEF RunClose
    <3>2. ~NetNotYet
      BY <3>1, <1>r, <1>l DEF NetAccounted
    <3> QED
      BY <2>2, <3>2, <1>r DEF RunClose, threadVars, NetAccounted, NetNotYet
  <2>3. CASE ReadPacket \/ IoEnds
    BY <2>3, <1>r DEF ReadPacket, IoEnds, threadVars, streamVars,
        NetAccounted, NetNotYet
  <2>4. CASE ReadFailed
    BY <2>4, <1>r DEF ReadFailed, NotifyClose, threadVars, streamVars,
        NetAccounted, NetNotYet
  <2>5. CASE WriteDone
    BY <2>5, <1>r, <1>t, <1>l DEF WriteDone, threadVars, NetAccounted, NetNotYet
  <2>6. CASE WriteFailed
    BY <2>6, <1>r DEF WriteFailed, NotifyClose, threadVars, NetAccounted,
        NetNotYet
  <2> QED
    BY <1>6, <2>1, <2>2, <2>3, <2>4, <2>5, <2>6 DEF Io
<1>7. ASSUME NEW res, ReadCompletes(res) PROVE NetAccounted'
  BY <1>7, <1>r DEF ReadCompletes, threadVars, streamVars, NetAccounted,
      NetNotYet
<1>8. ASSUME NEW res, WriteCompletes(res) PROVE NetAccounted'
  BY <1>8, <1>r DEF WriteCompletes, threadVars, NetAccounted, NetNotYet
<1>9. CASE LinkBreaks
  BY <1>9, <1>r DEF LinkBreaks, threadVars, streamVars, NetAccounted, NetNotYet
<1> QED
  BY <1>1, <1>2, <1>3, <1>4, <1>5, <1>6, <1>7, <1>8, <1>9 DEF TransportNext

\* Every step keeps the close behind the packets posted before it.
LEMMA NetBehindStep == NetIInv /\ [TransportNext]_transportVars => NetBehind'
<1> SUFFICES ASSUME NetIInv, [TransportNext]_transportVars PROVE NetBehind'
  OBVIOUS
<1>t. /\ posted \in Seq(HandlerKinds)
      /\ queue \in Nat /\ wire \in Nat /\ sent \in Nat /\ before \in Nat
      /\ write # "none" => queue > 0
  BY Zenon DEF NetIInv, TransportTypeOK
<1>r. NetBehind
  BY Zenon DEF NetIInv
<1>l. Len(posted) \in Nat
  BY <1>t, LenProperties
<1>1. CASE UNCHANGED transportVars
  BY <1>1, <1>r DEF transportVars, streamVars, NetBehind
<1>2. CASE Connect
  BY <1>2, <1>r DEF Connect, NetBehind
<1>3. CASE \/ UserSends \/ Disconnect \/ JoinHeartbeat
           \/ HeartbeatEnds \/ Heartbeat
  BY <1>3, <1>r
     DEF UserSends, Disconnect, JoinHeartbeat, HeartbeatEnds,
         Heartbeat, streamVars, NetBehind
<1>5. ASSUME NEW a \in Threads, Thread(a) PROVE NetBehind'
  <2>1. CASE SendPost(a)
    <3>1. /\ Len(posted') = Len(posted) + 1
          /\ \A k \in 1..Len(posted) : posted'[k] = posted[k]
          /\ posted'[Len(posted) + 1] = "send"
      BY <2>1, <1>t, NetAppendFacts DEF SendPost, HandlerKinds
    <3>2. UNCHANGED <<closing, socket, wire, queue, before>>
      BY <2>1 DEF SendPost, streamVars
    <3>3. \A k \in 1..Len(posted') : posted'[k] = "close" =>
            k \in 1..Len(posted) /\ posted[k] = "close"
      BY <3>1, <1>l
    <3> QED
      BY <3>2, <3>3, <1>r DEF NetBehind
  <2>2. CASE CloseExchange(a) \/ CloseJoin(a)
    BY <2>2, <1>r DEF CloseExchange, CloseJoin, streamVars, NetBehind
  <2>3. CASE ClosePost(a)
    <3>1. /\ Len(posted') = Len(posted) + 1
          /\ \A k \in 1..Len(posted) : posted'[k] = posted[k]
      BY <2>3, <1>t, NetAppendFacts DEF ClosePost, HandlerKinds
    <3>2. NetNotYet
      BY <1>5, <2>3 DEF ClosePost, NetNotYet
    <3>3. /\ closing = "no" /\ socket # "closed"
          /\ \A k \in 1..Len(posted) : posted[k] = "send"
          /\ wire + queue + Len(posted) = sent
      BY <3>2, Zenon DEF NetIInv, NetAccounted
    <3>4. UNCHANGED <<closing, socket, wire, queue>> /\ before' = sent
      BY <2>3 DEF ClosePost, streamVars
    <3>5. ASSUME NEW k \in 1..Len(posted'), posted'[k] = "close"
          PROVE  wire + queue + k > sent
      <4>1. k = Len(posted) + 1
        BY <3>1, <3>3, <3>5, <1>l
      <4> QED
        BY <3>3, <4>1, <1>t, <1>l
    <3> QED
      BY <3>3, <3>4, <3>5 DEF NetBehind
  <2> QED
    BY <1>5, <2>1, <2>2, <2>3 DEF Thread
<1>6. CASE Io
  <2>1. ASSUME RunSend \/ RunClose
        PROVE  /\ Len(posted) > 0 /\ Len(posted') = Len(posted) - 1
               /\ \A k \in 1..Len(posted') : posted'[k] = posted[k + 1]
               /\ posted[1] = Head(posted)
    BY <2>1, <1>t, NetTailFacts DEF RunSend, RunClose
  <2>2. CASE RunSend
    BY <2>1, <2>2, <1>r, <1>t, <1>l DEF RunSend, threadVars, NetBehind
  <2>3. CASE RunClose
    <3>1. wire + queue >= before
      BY <2>1, <2>3, <1>r, <1>t, <1>l DEF RunClose, NetBehind
    <3> QED
      BY <2>1, <2>3, <3>1, <1>r, <1>t, <1>l DEF RunClose, NetBehind
  <2>4. CASE ReadPacket \/ ReadFailed \/ IoEnds
    BY <2>4, <1>r DEF ReadPacket, ReadFailed, IoEnds, streamVars, NetBehind
  <2>5. CASE WriteDone
    BY <2>5, <1>r, <1>t, <1>l DEF WriteDone, NetBehind
  <2>6. CASE WriteFailed
    BY <2>6, <1>r DEF WriteFailed, NetBehind
  <2> QED
    BY <1>6, <2>2, <2>3, <2>4, <2>5, <2>6 DEF Io
<1>7. ASSUME NEW res, ReadCompletes(res) PROVE NetBehind'
  BY <1>7, <1>r DEF ReadCompletes, streamVars, NetBehind
<1>8. ASSUME NEW res, WriteCompletes(res) PROVE NetBehind'
  BY <1>8, <1>r DEF WriteCompletes, NetBehind
<1>9. CASE LinkBreaks
  BY <1>9, <1>r DEF LinkBreaks, streamVars, NetBehind
<1> QED
  BY <1>1, <1>2, <1>3, <1>5, <1>6, <1>7, <1>8, <1>9 DEF TransportNext

-----------------------------------------------------------------------------

\* The inductive invariant holds in every reachable state.
LEMMA NetIInvInvariant == TransportSpec => []NetIInv
<1>1. NetIInv /\ [TransportNext]_transportVars => NetIInv'
  BY NetTypeOKStep, NetReportedStep, NetAccountedStep, NetBehindStep DEF NetIInv
<1> QED
  BY NetInitIInv, <1>1, PTL DEF TransportSpec

\* onConnectionClosed is called at most once and by the I/O thread alone, and before
\* disconnect() returns, whichever of the three threads notices the end first.
THEOREM TransportClosedOnIoThreadOnce == TransportSpec => []ClosedOnIoThreadOnce
<1>1. NetIInv => ClosedOnIoThreadOnce
  BY DEF NetIInv, NetReported, ClosedOnIoThreadOnce
<1> QED
  BY <1>1, NetIInvInvariant, PTL

\* close() closes the socket only when every packet posted before it has been written.
THEOREM TransportQueuedIsSent == TransportSpec => []QueuedIsSent
<1>1. NetIInv => QueuedIsSent
  BY DEF NetIInv, NetBehind, QueuedIsSent
<1> QED
  BY <1>1, NetIInvInvariant, PTL
=============================================================================
