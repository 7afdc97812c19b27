---------------------------- MODULE FileTransfer ----------------------------
(***************************************************************************)
(* Media of im_server: HttpFileServer.cpp (handleUpload, handleDownload,   *)
(* the upload records and gcLoop) and the media part of                    *)
(* MessageHandler::onChat.                                                 *)
(*                                                                         *)
(* Uploads run on the threads of the HTTP server, onChat on the business   *)
(* strands, gcLoop on its own thread; only the map of upload records has a *)
(* lock.  An image is stored under the hash of its content, so that two    *)
(* uploads of the same picture share one file on disk; any other file is   *)
(* stored under its file id.  The records are in memory: a restart loses   *)
(* them, the files and the stored messages stay.                           *)
(*                                                                         *)
(* Abstractions: an upload is its file id (the server makes ids that never *)
(* repeat), its uploader and receiver are fixed by the constants From and  *)
(* To, its content by Content (hash and name).  Authentication, the header *)
(* checks and the transfer of the bytes decide between an upload that is   *)
(* received and one that is refused.  The clock counts units of which Ttl  *)
(* is the lifetime of a record (24 h).                                     *)
(***************************************************************************)
EXTENDS Naturals, FiniteSets, Sequences

CONSTANTS
  Uploads,          \* file ids
  Images,           \* the uploads whose Content-Type is image/...
  Content,          \* [Uploads -> contents]
  From, To,         \* [Uploads -> users]: bearer of the token, X-Receiver-Id
  Chats,            \* onChat calls that name a media file
  Sender, Target,   \* [Chats -> users]: the session's user, friid
  FileOf,           \* [Chats -> Uploads]: file_id
  Ttl,              \* kTtlSeconds
  MaxTime,          \* bound: the clock
  MaxRestarts       \* bound: restarts of the server

ASSUME FileAssumption ==
  /\ Images \subseteq Uploads
  /\ DOMAIN Content = Uploads /\ DOMAIN From = Uploads /\ DOMAIN To = Uploads
  /\ DOMAIN Sender = Chats /\ DOMAIN Target = Chats
  /\ FileOf \in [Chats -> Uploads]
  /\ {Ttl, MaxTime, MaxRestarts} \subseteq Nat

VARIABLES
  now,       \* the clock
  upload,    \* upload[f]: where handleUpload is
  parts,     \* temporary files <file_id>.part
  disk,      \* paths of stored files
  records,   \* m_uploads: records [file, at], the other fields follow from the file
  chat,      \* chat[c]: where onChat is, then its answer
  messages,  \* the calls whose message is stored
  expired,   \* what gcLoop has taken out of the map and not yet removed
  orphans,   \* history: uploads that gcLoop expired before a chat answered for them
  lost,      \* history: uploads whose file never got to its path
  restarts

vars == <<now, upload, parts, disk, records, chat, messages, expired, orphans, lost, restarts>>

(* finalPath: content-addressed for an image, by file id otherwise.        *)
Path(f) == IF f \in Images THEN <<"img", Content[f]>> ELSE <<"file", f>>

Paths == {Path(f) : f \in Uploads}

Recorded(f) == \E r \in records : r.file = f

Init ==
  /\ now = 0
  /\ upload = [f \in Uploads |-> "none"]
  /\ parts = {} /\ disk = {} /\ records = {}
  /\ chat = [c \in Chats |-> "none"]
  /\ messages = {} /\ expired = {} /\ orphans = {} /\ lost = {}
  /\ restarts = 0

-----------------------------------------------------------------------------
(* handleUpload.                                                           *)

UploadMoves(f, pc) == upload' = [upload EXCEPT ![f] = pc]

(* The checks pass and the body goes to the .part file.                    *)
UploadBegin(f) ==
  /\ upload[f] = "none"
  /\ parts' = parts \cup {f}
  /\ UploadMoves(f, "receiving")
  /\ UNCHANGED <<now, disk, records, chat, messages, expired, orphans, lost, restarts>>

(* The connection fails, the size is not the declared one or too large.    *)
UploadBroken(f) ==
  /\ upload[f] = "receiving"
  /\ parts' = parts \ {f}
  /\ UploadMoves(f, "refused")
  /\ UNCHANGED <<now, disk, records, chat, messages, expired, orphans, lost, restarts>>

(* All received.  exists(finalPath) is asked only of an image.             *)
UploadReceived(f) ==
  /\ upload[f] = "receiving"
  /\ UploadMoves(f, IF f \in Images /\ Path(f) \in disk THEN "have" ELSE "place")
  /\ UNCHANGED <<now, parts, disk, records, chat, messages, expired, orphans, lost, restarts>>

(* The same content is there: the .part file is dropped.                   *)
UploadShared(f) ==
  /\ upload[f] = "have"
  /\ parts' = parts \ {f}
  /\ UploadMoves(f, "placed")
  /\ UNCHANGED <<now, disk, records, chat, messages, expired, orphans, lost, restarts>>

(* rename, or copy_file over what is there.                                *)
UploadPlaced(f) ==
  /\ upload[f] = "place"
  /\ parts' = parts \ {f}
  /\ disk' = disk \cup {Path(f)}
  /\ UploadMoves(f, "placed")
  /\ UNCHANGED <<now, records, chat, messages, expired, orphans, lost, restarts>>

(* rename and copy_file both fail (a full disk): rmEc is overwritten and   *)
(* never looked at, the upload goes on without a file.                     *)
UploadNotPlaced(f) ==
  /\ upload[f] = "place"
  /\ parts' = parts \ {f}
  /\ lost' = lost \cup {f}
  /\ UploadMoves(f, "placed")
  /\ UNCHANGED <<now, disk, records, chat, messages, expired, orphans, restarts>>

(* The record under m_uploadMtx, then the answer 200 with the file id.     *)
UploadRecorded(f) ==
  /\ upload[f] = "placed"
  /\ records' = records \cup {[file |-> f, at |-> now]}
  /\ UploadMoves(f, "answered")
  /\ UNCHANGED <<now, parts, disk, chat, messages, expired, orphans, lost, restarts>>

-----------------------------------------------------------------------------
(* onChat with a media message.                                            *)

ChatMoves(c, pc) == chat' = [chat EXCEPT ![c] = pc]

(* The record's uploader and receiver are the message's.                   *)
Owned(c) ==
  LET f == FileOf[c] IN Recorded(f) /\ From[f] = Sender[c] /\ To[f] = Target[c]

(* Mutant of the next: the record is taken when it is found.               *)
ChatConsumes(c) ==
  /\ chat[c] \in {"none", "SERVER_ERROR"}
  /\ upload[FileOf[c]] = "answered"
  /\ ChatMoves(c, IF Owned(c) THEN "found" ELSE "FILE_NOT_OWNED")
  /\ records' = {r \in records : r.file # FileOf[c]}
  /\ UNCHANGED <<now, upload, parts, disk, messages, expired, orphans, lost, restarts>>

(* A client sends the message once it has the file id.                     *)
ChatFinds(c) ==
  /\ chat[c] \in {"none", "SERVER_ERROR"}
  /\ upload[FileOf[c]] = "answered"
  /\ ChatMoves(c, IF Owned(c) THEN "found" ELSE "FILE_NOT_OWNED")
  /\ UNCHANGED <<now, upload, parts, disk, records, messages, expired, orphans, lost, restarts>>

ChatSaves(c) ==
  /\ chat[c] = "found"
  /\ messages' = messages \cup {c}
  /\ ChatMoves(c, "saved")
  /\ UNCHANGED <<now, upload, parts, disk, records, expired, orphans, lost, restarts>>

(* saveMessage fails: the record stays for a retry.                        *)
ChatSaveFails(c) ==
  /\ chat[c] = "found"
  /\ ChatMoves(c, "SERVER_ERROR")
  /\ UNCHANGED <<now, upload, parts, disk, records, messages, expired, orphans, lost, restarts>>

(* Mutant of the next: the record stays.                                   *)
ChatKeepsRecord(c) ==
  /\ chat[c] = "saved"
  /\ ChatMoves(c, "SUCC")
  /\ UNCHANGED <<now, upload, parts, disk, records, messages, expired, orphans, lost, restarts>>

(* eraseUploadRecord, then the answer.                                     *)
ChatErases(c) ==
  /\ chat[c] = "saved"
  /\ records' = {r \in records : r.file # FileOf[c]}
  /\ ChatMoves(c, "SUCC")
  /\ UNCHANGED <<now, upload, parts, disk, messages, expired, orphans, lost, restarts>>

(* handleDownload by user u: the status of the answer.                     *)
Download(u, f) ==
  LET of == {c \in messages : FileOf[c] = f} IN
  IF of = {} THEN 404
  ELSE IF \A c \in of : u \notin {Sender[c], Target[c]} THEN 403
  ELSE IF Path(f) \notin disk THEN 404 ELSE 200

-----------------------------------------------------------------------------
(* gcLoop: one pass over the map under the lock, then the files one by one.*)

Old(r) == now > r.at + Ttl

Unclaimed(old) ==
  {r.file : r \in {x \in old : \A c \in Chats : FileOf[c] = x.file => chat[c] # "SUCC"}}

GcSweep ==
  LET old == {r \in records : Old(r)} IN
  /\ expired = {} /\ old # {}
  /\ records' = records \ old
  /\ expired' = {Path(r.file) : r \in old}
  /\ orphans' = orphans \cup Unclaimed(old)
  /\ UNCHANGED <<now, upload, parts, disk, chat, messages, lost, restarts>>

GcRemove(p) ==
  /\ p \in expired
  /\ disk' = disk \ {p}
  /\ expired' = expired \ {p}
  /\ UNCHANGED <<now, upload, parts, records, chat, messages, orphans, lost, restarts>>

-----------------------------------------------------------------------------
Tick ==
  /\ now < MaxTime
  /\ now' = now + 1
  /\ UNCHANGED <<upload, parts, disk, records, chat, messages, expired, orphans, lost, restarts>>

(* The server dies and comes back: memory and what was under way are lost, *)
(* disk and database stay.  A client may send again what got no answer.    *)
Restart ==
  /\ restarts < MaxRestarts
  /\ restarts' = restarts + 1
  /\ records' = {} /\ expired' = {}
  /\ upload' = [f \in Uploads |->
       IF upload[f] \in {"receiving", "have", "place", "placed"} THEN "refused" ELSE upload[f]]
  /\ chat' = [c \in Chats |-> IF chat[c] \in {"found", "saved"} THEN "none" ELSE chat[c]]
  /\ UNCHANGED <<now, parts, disk, messages, orphans, lost>>

UploadStep(f) ==
  \/ UploadBegin(f) \/ UploadBroken(f) \/ UploadReceived(f)
  \/ UploadShared(f) \/ UploadPlaced(f) \/ UploadNotPlaced(f) \/ UploadRecorded(f)

ChatStep(c) == ChatFinds(c) \/ ChatSaves(c) \/ ChatSaveFails(c) \/ ChatErases(c)

Next ==
  \/ \E f \in Uploads : UploadStep(f)
  \/ \E c \in Chats : ChatStep(c)
  \/ GcSweep
  \/ \E p \in Paths : GcRemove(p)
  \/ Tick
  \/ Restart

Spec == Init /\ [][Next]_vars

-----------------------------------------------------------------------------
(* Properties.                                                             *)

(* The state has its type; a file id has at most one upload record.        *)
TypeOK ==
  /\ now \in 0..MaxTime
  /\ upload \in [Uploads -> {"none", "receiving", "refused", "have", "place", "placed", "answered"}]
  /\ parts \subseteq Uploads
  /\ disk \subseteq Paths /\ expired \subseteq Paths
  /\ records \subseteq [file : Uploads, at : 0..MaxTime]
  /\ \A q, r \in records : q.file = r.file => q = r
  /\ chat \in [Chats -> {"none", "found", "saved", "SUCC", "FILE_NOT_OWNED", "SERVER_ERROR"}]
  /\ messages \subseteq Chats /\ orphans \subseteq Uploads /\ lost \subseteq Uploads
  /\ restarts \in 0..MaxRestarts

(* onChat, eraseUploadRecord and gcLoop: a stored media message can be     *)
(* downloaded by its two users and by nobody else, unless gcLoop expired   *)
(* an upload of the same content that no answered chat had claimed, or the *)
(* disk refused the file.  (With the types.)                               *)
StoredIsDownloadable ==
  /\ TypeOK
  /\ \A c \in messages, u \in {Sender[d] : d \in Chats} \cup {Target[d] : d \in Chats} :
       \/ Download(u, FileOf[c]) = (IF u \in {Sender[c], Target[c]} THEN 200 ELSE 403)
       \/ \E f \in orphans \cup lost : Path(f) = Path(FileOf[c])

(* HttpFileServer.h promises that a failed save does not use up the        *)
(* upload: after SERVER_ERROR the record is there for the retry, unless it *)
(* expired, another chat claimed it or the server has been restarted.      *)
FailedSaveCanRetry ==
  \A c \in Chats :
    chat[c] = "SERVER_ERROR" =>
      \/ Owned(c)
      \/ FileOf[c] \in orphans \/ restarts > 0
      \/ \E d \in Chats : FileOf[d] = FileOf[c] /\ chat[d] = "SUCC"

=============================================================================
