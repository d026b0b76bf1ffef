----------------------------- MODULE PdfSessions -----------------------------
(***************************************************************************)
(* The document assistant of the lms (services/lms/src/lms-ai/pdf-summary) *)
(* for one user and one file: uploading, chatting about, asking by voice   *)
(* about and deleting its sessions.                                        *)
(*                                                                         *)
(* A session lives in four places that no transaction joins: the Python AI *)
(* service, the object store, the summary collection and the chat history. *)
(* Uploads of one file are to be serialized by a lock in memory, voice     *)
(* questions to be answered once by a key in the database that expires.    *)
(* Requests run concurrently in one instance; each call of another system  *)
(* is atomic and may fail.                                                 *)
(***************************************************************************)
EXTENDS Integers, FiniteSets

CONSTANTS
  Session,    \* bound: session ids the AI service gives out, in this order
  Request,    \* bound: requests served at a time
  NoRequest,
  MaxCalls,   \* bound: requests served altogether
  MaxFaults   \* bound: calls of other systems that fail

ASSUME PdfAssumption ==
  /\ Session \subseteq Nat \ {0} /\ IsFiniteSet(Session)
  /\ IsFiniteSet(Request) /\ NoRequest \notin Request
  /\ MaxCalls \in Nat /\ MaxFaults \in Nat /\ Cardinality(Session) >= MaxCalls + MaxFaults

VARIABLES
  used,      \* session ids given out
  ai, files, rows, chats,  \* sessions known to the AI service, stored, listed, with history
  lock,      \* request whose promise uploadLocks holds, or NoRequest
  key,       \* the voice key: "none", "processing" or "completed"
  records,   \* voice exchanges stored under the key
  pc, sess,  \* of a request: its next operation and its session
  behind,    \* of an upload that waits: the request whose promise it awaits
  found,     \* of an upload: what the search for an earlier session found
  calls, faults,
  raced,     \* history: two uploads were past looking at the lock and had not set it
  uncertain, \* history: sessions left half-way by a failure
  chatting,  \* history: sessions whose chats were deleted with another to be saved
  wiped,     \* history: sessions a delete has gone through with
  slipped    \* history: how often a voice call stopped waiting, or the key expired

places == <<ai, files, rows, chats>>
voice == <<key, records>>
work == <<pc, sess, behind, found>>
bounds == <<calls, faults>>
history == <<raced, uncertain, chatting, wiped, slipped>>
vars == <<used, places, lock, voice, work, bounds, history>>

NoSession == 0

Busy(r) == pc[r] # "idle"
Past == {"search", "setLock"}
Uploading == {r \in Request : pc[r] \in {"aiUpload", "storeFile", "storeRow"}}
Newest(s) == IF rows = {} THEN s = NoSession ELSE s \in rows /\ \A t \in rows : t <= s

\* Definitions whose name ends in Bug are what the definition after them
\* would be with a plausible mistake in the code; no specification uses them.

Init ==
  /\ used = {} /\ ai = {} /\ files = {} /\ rows = {} /\ chats = {}
  /\ lock = NoRequest
  /\ key = "none" /\ records = 0
  /\ pc = [r \in Request |-> "idle"]
  /\ sess = [r \in Request |-> NoSession]
  /\ behind = [r \in Request |-> NoRequest]
  /\ found = [r \in Request |-> NoSession]
  /\ calls = 0 /\ faults = 0
  /\ raced = FALSE /\ uncertain = {} /\ chatting = {} /\ wiped = {} /\ slipped = 0

-----------------------------------------------------------------------------
(* Requests *)

Goto(r, l) == pc' = [pc EXCEPT ![r] = l] /\ UNCHANGED <<sess, behind, found>>

Forget(r) ==
  /\ sess' = [sess EXCEPT ![r] = NoSession]
  /\ behind' = [behind EXCEPT ![r] = NoRequest]
  /\ found' = [found EXCEPT ![r] = NoSession]

Return(r) == pc' = [pc EXCEPT ![r] = "idle"] /\ Forget(r)

Fault == faults < MaxFaults /\ faults' = faults + 1

\* Requests are alike: the first free one is taken.
Next1 == CHOOSE r \in Request : ~ Busy(r)

Call == (\E r \in Request : ~ Busy(r)) /\ calls < MaxCalls /\ calls' = calls + 1

\* uploadPDF looks at the lock first.
Upload ==
  /\ Call
  /\ LET r == Next1 IN
     /\ pc' = [pc EXCEPT ![r] = IF lock = NoRequest THEN "search" ELSE "wait"]
     /\ behind' = [behind EXCEPT ![r] = lock]
     /\ raced' = (raced \/ (lock = NoRequest /\ \E q \in Request : pc[q] \in Past))
  /\ UNCHANGED <<used, places, lock, voice, sess, found, faults, uncertain, chatting, wiped, slipped>>

\* chatWithPDF, deleteSession, voiceAsk about a session the user has seen
Open(l, s) ==
  /\ Call
  /\ pc' = [pc EXCEPT ![Next1] = l]
  /\ sess' = [sess EXCEPT ![Next1] = s]
  /\ UNCHANGED <<used, places, lock, voice, behind, found, faults, history>>

-----------------------------------------------------------------------------
(* uploadPDF, doUploadAndSave *)

\* findByFileHashAndUser
Search(r) ==
  /\ pc[r] = "search"
  /\ \E s \in Session \cup {NoSession} : Newest(s) /\ found' = [found EXCEPT ![r] = s]
  /\ pc' = [pc EXCEPT ![r] = "setLock"]
  /\ UNCHANGED <<used, places, lock, voice, sess, behind, bounds, history>>

\* A session that was found is answered, else the lock is set, over one that
\* another request may have set in between.
SetLock(r) ==
  /\ pc[r] = "setLock"
  /\ IF found[r] # NoSession THEN Return(r) /\ UNCHANGED lock
     ELSE lock' = r /\ Goto(r, "aiUpload")
  /\ UNCHANGED <<used, places, voice, bounds, history>>

\* finally: the own promise is resolved, the key deleted whoever set it last.
Release(r, l) ==
  /\ pc' = [q \in Request |-> IF q = r THEN l
              ELSE IF pc[q] = "wait" /\ behind[q] = r THEN "recheck" ELSE pc[q]]
  /\ lock' = NoRequest
  /\ Forget(r)

\* The AI service makes a new session.
Make(s) ==
  /\ s \notin used /\ \A t \in Session \ used : s <= t
  /\ used' = used \cup {s} /\ ai' = ai \cup {s}

AiUpload_NoIdBug(r) ==
  /\ pc[r] = "aiUpload" /\ Goto(r, "storeFile")
  /\ \E s \in Session : Make(s)
  /\ UNCHANGED <<files, rows, chats, lock, voice, bounds, history>>

AiUpload(r) ==
  /\ pc[r] = "aiUpload"
  /\ \E s \in Session : Make(s) /\ sess' = [sess EXCEPT ![r] = s]
  /\ pc' = [pc EXCEPT ![r] = "storeFile"]
  /\ UNCHANGED <<files, rows, chats, lock, voice, behind, found, bounds, history>>

\* Its answer is lost, comes too late or complains of a quota; callPythonService
\* may then try once more elsewhere.
LoseAnswer(r) ==
  /\ pc[r] = "aiUpload" /\ Fault
  /\ \E s \in Session : Make(s) /\ uncertain' = uncertain \cup {s}
  /\ Release(r, "idle") \/ (Goto(r, "aiUpload") /\ UNCHANGED lock)
  /\ UNCHANGED <<files, rows, chats, voice, calls, raced, chatting, wiped, slipped>>

StoreFile(r) ==
  /\ pc[r] = "storeFile"
  /\ files' = files \cup {sess[r]} /\ Goto(r, "storeRow")
  /\ UNCHANGED <<used, ai, rows, chats, lock, voice, bounds, history>>

StoreRow(r) ==
  /\ pc[r] = "storeRow"
  /\ rows' = rows \cup {sess[r]} /\ Release(r, "idle")
  /\ UNCHANGED <<used, ai, files, chats, voice, bounds, history>>

\* Nothing that was stored before the failure is taken back.
UploadFails(r) ==
  /\ r \in Uploading /\ Fault /\ Release(r, "idle")
  /\ uncertain' = uncertain \cup ({sess[r]} \ {NoSession})
  /\ UNCHANGED <<used, places, voice, calls, raced, chatting, wiped, slipped>>

\* The two minutes are over.
StopWaiting(r) ==
  /\ pc[r] = "wait" /\ Goto(r, "recheck")
  /\ UNCHANGED <<used, places, lock, voice, bounds, history>>

Recheck_UploadsBug(r) ==
  /\ pc[r] = "recheck"
  /\ IF rows # {} THEN Return(r) /\ UNCHANGED lock ELSE lock' = r /\ Goto(r, "aiUpload")
  /\ UNCHANGED <<used, places, voice, bounds, history>>

\* The session of the other upload, or "Please retry".
Recheck(r) ==
  /\ pc[r] = "recheck" /\ Return(r)
  /\ UNCHANGED <<used, places, lock, voice, bounds, history>>

-----------------------------------------------------------------------------
(* deleteSession *)

Chats(s) == \E q \in Request : pc[q] = "saveChat" /\ sess[q] = s

\* A session that is not listed is answered as deleted.
FindRow(r) ==
  /\ pc[r] = "findRow"
  /\ IF sess[r] \in rows THEN Goto(r, "deleteAi") ELSE Return(r)
  /\ UNCHANGED <<used, places, lock, voice, bounds, history>>

\* A failure of the AI service does not stop the delete.
DeleteAi(r) ==
  /\ pc[r] = "deleteAi"
  /\ \/ ai' = ai \ {sess[r]} /\ UNCHANGED <<faults, uncertain>>
     \/ Fault /\ uncertain' = uncertain \cup {sess[r]} /\ UNCHANGED ai
  /\ Goto(r, "deleteRow")
  /\ UNCHANGED <<used, files, rows, chats, lock, voice, calls, raced, chatting, wiped, slipped>>

DeleteRow(r) ==
  /\ pc[r] = "deleteRow"
  /\ rows' = rows \ {sess[r]} /\ Goto(r, "deleteChats")
  /\ UNCHANGED <<used, ai, files, chats, lock, voice, bounds, history>>

DeleteChats_EndsBug(r) ==
  /\ pc[r] = "deleteChats"
  /\ chats' = chats \ {sess[r]}
  /\ wiped' = wiped \cup {sess[r]} /\ Return(r)
  /\ UNCHANGED <<used, ai, files, rows, lock, voice, bounds, raced, uncertain, chatting, slipped>>

\* A chat that the AI service has answered may still be saved.
DeleteChats(r) ==
  /\ pc[r] = "deleteChats"
  /\ chats' = chats \ {sess[r]} /\ Goto(r, "deleteFile")
  /\ chatting' = IF Chats(sess[r]) THEN chatting \cup {sess[r]} ELSE chatting
  /\ UNCHANGED <<used, ai, files, rows, lock, voice, bounds, raced, uncertain, wiped, slipped>>

\* A failure of the object store is only logged.
DeleteFile(r) ==
  /\ pc[r] = "deleteFile"
  /\ \/ files' = files \ {sess[r]} /\ UNCHANGED <<faults, uncertain>>
     \/ Fault /\ uncertain' = uncertain \cup {sess[r]} /\ UNCHANGED files
  /\ wiped' = wiped \cup {sess[r]} /\ Return(r)
  /\ UNCHANGED <<used, ai, rows, chats, lock, voice, calls, raced, chatting, slipped>>

\* The database fails: what is left stays, for the next delete finds no row.
DeleteFails(r) ==
  /\ pc[r] \in {"deleteRow", "deleteChats"} /\ Fault /\ Return(r)
  /\ uncertain' = uncertain \cup {sess[r]}
  /\ UNCHANGED <<used, places, lock, voice, calls, raced, chatting, wiped, slipped>>

-----------------------------------------------------------------------------
(* chatWithPDF; the history is saved if it can be *)

Ask(r) ==
  /\ pc[r] = "ask"
  /\ IF sess[r] \in ai THEN Goto(r, "saveChat") ELSE Return(r)
  /\ UNCHANGED <<used, places, lock, voice, bounds, history>>

SaveChat(r) ==
  /\ pc[r] = "saveChat"
  /\ \/ chats' = chats \cup {sess[r]} /\ UNCHANGED faults
     \/ Fault /\ UNCHANGED chats
  /\ Return(r)
  /\ UNCHANGED <<used, ai, files, rows, lock, voice, calls, history>>

-----------------------------------------------------------------------------
(* voiceAsk *)

Claim_AlwaysBug(r) ==
  /\ pc[r] = "claim"
  /\ key' = "processing" /\ Goto(r, "voice")
  /\ UNCHANGED <<used, places, lock, records, bounds, history>>

Claim(r) ==
  /\ pc[r] = "claim"
  /\ IF key = "none" THEN key' = "processing" /\ Goto(r, "voice")
     ELSE UNCHANGED key /\ Goto(r, "poll")
  /\ UNCHANGED <<used, places, lock, records, bounds, history>>

PollVoice_NoDeadlineBug(r) ==
  /\ pc[r] = "poll" /\ key = "completed" /\ Return(r)
  /\ UNCHANGED <<used, places, lock, voice, bounds, history>>

\* waitForVoiceAskCompleted: the stored answer, or a minute is over and the
\* call goes on without a claim.
PollVoice(r) ==
  /\ pc[r] = "poll"
  /\ \/ key = "completed" /\ Return(r) /\ UNCHANGED slipped
     \/ Goto(r, "voice") /\ slipped' = slipped + 1
  /\ UNCHANGED <<used, places, lock, voice, bounds, raced, uncertain, chatting, wiped>>

\* The AI service answers, or refuses, or fails; then the key stays processing.
Voice(r) ==
  /\ pc[r] = "voice"
  /\ \/ sess[r] \in ai /\ Goto(r, "saveVoice") /\ UNCHANGED faults
     \/ sess[r] \notin ai /\ Return(r) /\ UNCHANGED faults
     \/ Fault /\ Return(r)
  /\ UNCHANGED <<used, places, lock, voice, calls, history>>

SaveVoice(r) ==
  /\ pc[r] = "saveVoice"
  /\ \/ records' = records + 1 /\ UNCHANGED faults
     \/ Fault /\ UNCHANGED records
  /\ Goto(r, "complete")
  /\ UNCHANGED <<used, places, lock, key, calls, history>>

Complete(r) ==
  /\ pc[r] = "complete"
  /\ \/ key' = (IF key = "none" THEN "none" ELSE "completed") /\ UNCHANGED faults
     \/ Fault /\ UNCHANGED key
  /\ Return(r)
  /\ UNCHANGED <<used, places, lock, records, calls, history>>

\* The TTL index: five minutes after the claim, whoever works on it.
Expire ==
  /\ key # "none" /\ key' = "none" /\ slipped' = slipped + 1
  /\ UNCHANGED <<used, places, lock, records, work, bounds, raced, uncertain, chatting, wiped>>

-----------------------------------------------------------------------------
\* A query, a claim or a question is rejected before it changes anything.
ReadFails(r) ==
  /\ pc[r] \in {"search", "recheck", "findRow", "ask", "claim", "poll"}
  /\ Fault /\ Return(r)
  /\ UNCHANGED <<used, places, lock, voice, calls, history>>

\* The AI service drops sessions after seven days, or when it restarts.
AiForgets(s) ==
  /\ ai' = ai \ {s}
  /\ UNCHANGED <<used, files, rows, chats, lock, voice, work, bounds, history>>

Serve(r) ==
  \/ Search(r) \/ SetLock(r) \/ AiUpload(r) \/ LoseAnswer(r) \/ StoreFile(r) \/ StoreRow(r)
  \/ UploadFails(r) \/ StopWaiting(r) \/ Recheck(r)
  \/ FindRow(r) \/ DeleteAi(r) \/ DeleteRow(r) \/ DeleteChats(r) \/ DeleteFile(r) \/ DeleteFails(r)
  \/ Ask(r) \/ SaveChat(r)
  \/ Claim(r) \/ PollVoice(r) \/ Voice(r) \/ SaveVoice(r) \/ Complete(r)
  \/ ReadFails(r)

Next ==
  \/ Upload
  \/ \E s \in used : Open("findRow", s) \/ Open("ask", s) \/ Open("claim", s)
  \/ \E r \in Request : Serve(r)
  \/ \E s \in ai : AiForgets(s)
  \/ Expire

Spec == Init /\ [][Next]_vars

\* Calls of other systems return or time out, timers fire, and the event loop
\* goes on with a request that has begun.
FairSpec == Spec /\ \A r \in Request : WF_vars(Serve(r))

-----------------------------------------------------------------------------
(* Properties *)

\* Every variable holds values of its kind; only sessions that the AI service
\* gave out are stored anywhere.
TypeOK ==
  /\ used \subseteq Session /\ ai \subseteq used
  /\ files \subseteq used /\ rows \subseteq used /\ chats \subseteq used
  /\ lock \in Request \cup {NoRequest}
  /\ key \in {"none", "processing", "completed"} /\ records \in Nat
  /\ pc \in [Request -> {"idle", "search", "setLock", "wait", "recheck", "aiUpload", "storeFile", "storeRow",
                         "findRow", "deleteAi", "deleteRow", "deleteChats", "deleteFile",
                         "ask", "saveChat", "claim", "poll", "voice", "saveVoice", "complete"}]
  /\ sess \in [Request -> used \cup {NoSession}]
  /\ behind \in [Request -> Request \cup {NoRequest}]
  /\ found \in [Request -> used \cup {NoSession}]
  /\ calls \in Nat /\ faults \in Nat
  /\ raced \in BOOLEAN /\ slipped \in Nat
  /\ uncertain \subseteq used /\ chatting \subseteq used /\ wiped \subseteq used

\* Uploads of the file exclude each other: a lock never outlives its upload,
\* though every upload deletes the key whoever set it (otherwise the file could
\* not be uploaded until a restart); and the user has one session of the file,
\* however uploads, deletes and failures overlap, unless two uploads both
\* looked at the lock before either set it.
UploadsExclude ==
  /\ lock # NoRequest => lock \in Uploading
  /\ ~ raced => Cardinality(rows) <= 1

\* The places agree, whatever fails in between: the file of a listed session is
\* there; and a delete that has gone through leaves nothing, no row, no chats,
\* no file, unless the AI service or the object store failed for this session
\* or a chat about it, answered before the delete, was yet to be saved.
PlacesAgree ==
  /\ rows \subseteq files
  /\ \A s \in wiped \ (uncertain \cup chatting) : s \notin ai \cup rows \cup chats \cup files

\* Calls with one voice key store one exchange, whatever fails, and at most one
\* more for each call that stopped waiting and went on without a claim, and for
\* each time the key expired, whoever was at work on it then.
VoiceAnsweredOnce == records <= 1 + slipped

\* Every request returns; an upload that waits for another is not forgotten.
EveryRequestReturns ==
  \A r \in Request : Busy(r) ~> ~ Busy(r)

\* A user whose session the AI service has dropped is told to upload the file
\* again: "The system will recognize it and restore the session"
\* (pdf-summary.service.ts:262). The upload should leave him a listed session
\* that the AI service knows.
ReuploadRestores ==
  (rows # {} /\ rows \cap ai = {} /\ \E r \in Request : pc[r] = "search")
    ~> (rows = {} \/ rows \cap ai # {})
=============================================================================
