-------------------------- MODULE PdfSessionsProofs --------------------------
(***************************************************************************)
(* Theorems about PdfSessions, for any number of sessions, requests, calls *)
(* and failures.                                                           *)
(***************************************************************************)
EXTENDS PdfSessions, FiniteSetTheorems, TLAPS

USE DEF places, voice, work, bounds, history

-----------------------------------------------------------------------------
(* Types *)

Location == {"idle", "search", "setLock", "wait", "recheck", "aiUpload", "storeFile", "storeRow",
             "findRow", "deleteAi", "deleteRow", "deleteChats", "deleteFile",
             "ask", "saveChat", "claim", "poll", "voice", "saveVoice", "complete"}

\* The operations that are about a session
About == {"storeFile", "storeRow", "findRow", "deleteAi", "deleteRow", "deleteChats", "deleteFile",
          "ask", "saveChat"}

Typed == TypeOK /\ \A r \in Request : pc[r] \in About => sess[r] \in used

\* Request r is now at l, and others at most stop waiting for it.
Steps(r, l) ==
  /\ pc'[r] = l
  /\ l # "idle" => sess'[r] = sess[r] /\ found'[r] = found[r]
  /\ \A q \in Request \ {r} :
       /\ pc'[q] = pc[q] \/ (pc[q] = "wait" /\ pc'[q] = "recheck")
       /\ sess'[q] = sess[q] /\ found'[q] = found[q]

\* The part of Typed that is about requests
Working ==
  /\ pc \in [Request -> Location]
  /\ sess \in [Request -> used \cup {NoSession}]
  /\ behind \in [Request -> Request \cup {NoRequest}]
  /\ found \in [Request -> used \cup {NoSession}]
  /\ \A r \in Request : pc[r] \in About => sess[r] \in used

\* The rest of it
Stored ==
  /\ used \subseteq Session /\ ai \subseteq used
  /\ files \subseteq used /\ rows \subseteq used /\ chats \subseteq used
  /\ lock \in Request \cup {NoRequest}
  /\ key \in {"none", "processing", "completed"} /\ records \in Nat
  /\ calls \in Nat /\ faults \in Nat
  /\ raced \in BOOLEAN /\ slipped \in Nat
  /\ uncertain \subseteq used /\ chatting \subseteq used /\ wiped \subseteq used

LEMMA TypeParts == (Typed <=> Stored /\ Working) /\ (Typed' <=> Stored' /\ Working')
BY DEF Typed, TypeOK, Stored, Working, Location

LEMMA NoneIsNoSession == NoSession \notin Session /\ NoSession \notin used \cap Session
BY PdfAssumption DEF NoSession

LEMMA TypedInitially == Init => Typed
<1>. SUFFICES ASSUME Init PROVE Typed
  OBVIOUS
<1>1. Working
  BY DEF Init, Working, Location, About
<1>2. raced \in BOOLEAN /\ slipped \in Nat
  BY DEF Init
<1>3. Stored
  BY <1>2 DEF Init, Stored
<1>. QED  BY <1>1, <1>3, TypeParts

LEMMA GotoSteps ==
  ASSUME Working, NEW r \in Request, NEW l \in Location, Goto(r, l), used \subseteq used',
         l \in About => sess[r] \in used
  PROVE  Steps(r, l) /\ Working'
<1>1. Steps(r, l)
  BY DEF Working, Goto, Steps
<1>2. pc' \in [Request -> Location] /\ UNCHANGED <<sess, behind, found>>
  BY DEF Working, Goto
<1>3. \A q \in Request : pc'[q] \in About => sess'[q] \in used'
  BY <1>2 DEF Working, Goto, About
<1>. QED  BY <1>1, <1>2, <1>3 DEF Working

LEMMA ForgetTyped ==
  ASSUME Working, NEW r \in Request, Forget(r), used \subseteq used'
  PROVE  /\ sess' \in [Request -> used' \cup {NoSession}]
         /\ behind' \in [Request -> Request \cup {NoRequest}]
         /\ found' \in [Request -> used' \cup {NoSession}]
         /\ \A q \in Request \ {r} : sess'[q] = sess[q] /\ found'[q] = found[q]
BY DEF Working, Forget

LEMMA ReturnSteps ==
  ASSUME Working, NEW r \in Request, Return(r), used \subseteq used'
  PROVE  Steps(r, "idle") /\ Working'
<1>1. Forget(r) /\ pc' = [pc EXCEPT ![r] = "idle"]
  BY DEF Return
<1>2. pc' \in [Request -> Location] /\ pc'[r] = "idle" /\ \A q \in Request \ {r} : pc'[q] = pc[q]
  BY <1>1 DEF Working, Location
<1>. QED  BY <1>1, <1>2, ForgetTyped DEF Working, Steps, About

LEMMA ReleaseSteps ==
  ASSUME Working, NEW r \in Request, Release(r, "idle"), used \subseteq used'
  PROVE  Steps(r, "idle") /\ Working' /\ lock' = NoRequest
<1>1. Forget(r) /\ lock' = NoRequest
  BY DEF Release
<1>2. /\ pc' \in [Request -> Location] /\ pc'[r] = "idle"
      /\ \A q \in Request \ {r} : pc'[q] = pc[q] \/ (pc[q] = "wait" /\ pc'[q] = "recheck")
  BY DEF Working, Location, Release
<1>. QED  BY <1>1, <1>2, ForgetTyped DEF Working, Steps, About

\* A new session goes to nobody else.
Given(r, s) ==
  /\ s \in Session \ used /\ used' = used \cup {s} /\ ai' = ai \cup {s}
  /\ pc'[r] = "storeFile" /\ sess'[r] = s
  /\ \A q \in Request \ {r} : pc'[q] = pc[q] /\ sess'[q] = sess[q] /\ found'[q] = found[q]
  /\ UNCHANGED <<files, rows, chats, lock, voice, bounds, history>>

LEMMA AiUploadGives ==
  ASSUME Typed, NEW r \in Request, AiUpload(r)
  PROVE  Typed' /\ pc[r] = "aiUpload" /\ \E s \in Session : Given(r, s)
<1>1. PICK s \in Session : Make(s) /\ sess' = [sess EXCEPT ![r] = s]
  BY DEF AiUpload
<1>2. /\ s \in Session \ used /\ used' = used \cup {s} /\ ai' = ai \cup {s}
      /\ sess' = [sess EXCEPT ![r] = s] /\ pc' = [pc EXCEPT ![r] = "storeFile"] /\ pc[r] = "aiUpload"
      /\ UNCHANGED <<files, rows, chats, lock, voice, behind, found, bounds, history>>
  BY <1>1 DEF AiUpload, Make
<1>3. Working /\ Stored
  BY TypeParts
<1>4. Given(r, s)
  BY <1>2, <1>3 DEF Working, Given
<1>5. Working'
  BY <1>2, <1>3 DEF Working, Location, About
<1>6. Stored'
  BY <1>2, <1>3 DEF Stored
<1>. QED  BY <1>2, <1>4, <1>5, <1>6, TypeParts

\* Request r has been taken for a new call.
Taken(r, l, s) ==
  /\ pc[r] = "idle" /\ pc'[r] = l /\ sess'[r] = s
  /\ \A q \in Request \ {r} : pc'[q] = pc[q] /\ sess'[q] = sess[q]
  /\ \A q \in Request : found'[q] = found[q]

LEMMA UploadTakes ==
  ASSUME Typed, Upload
  PROVE  /\ Typed'
         /\ \E r \in Request : Taken(r, IF lock = NoRequest THEN "search" ELSE "wait", sess[r])
         /\ raced' = (raced \/ (lock = NoRequest /\ \E q \in Request : pc[q] \in Past))
         /\ UNCHANGED <<used, places, lock, voice, uncertain, chatting, wiped, slipped>>
<1>. DEFINE r == Next1
            l == IF lock = NoRequest THEN "search" ELSE "wait"
<1>1. r \in Request /\ pc[r] = "idle"
  BY DEF Upload, Call, Next1, Busy
<1>2. /\ pc' = [pc EXCEPT ![r] = l] /\ behind' = [behind EXCEPT ![r] = lock]
      /\ raced' = (raced \/ (lock = NoRequest /\ \E q \in Request : pc[q] \in Past))
      /\ UNCHANGED <<used, places, lock, voice, sess, found, faults, uncertain, chatting, wiped, slipped>>
      /\ calls' = calls + 1
  BY Zenon DEF Upload, Call
<1>3. l \in {"search", "wait"}
  OBVIOUS
<1>. HIDE DEF r
<1>4. Working /\ Stored
  BY TypeParts
<1>5. Taken(r, l, sess[r])
  BY <1>1, <1>2, <1>4 DEF Taken, Working
<1>. HIDE DEF l
<1>6. Working'
  BY <1>1, <1>2, <1>3, <1>4 DEF Working, Stored, Location, About
<1>7. raced' \in BOOLEAN
  BY <1>2, <1>4, Zenon DEF Stored
<1>8. Stored'
  BY <1>2, <1>4, <1>7 DEF Stored
<1>. USE DEF l
<1>. QED  BY <1>1, <1>2, <1>5, <1>6, <1>8, TypeParts

LEMMA OpenTakes ==
  ASSUME Typed, NEW l \in {"findRow", "ask", "claim"}, NEW s \in used, Open(l, s)
  PROVE  /\ Typed'
         /\ \E r \in Request : Taken(r, l, s)
         /\ UNCHANGED <<used, places, lock, voice, history>>
<1>. DEFINE r == Next1
<1>1. r \in Request /\ pc[r] = "idle"
  BY DEF Open, Call, Next1, Busy
<1>2. /\ pc' = [pc EXCEPT ![r] = l] /\ sess' = [sess EXCEPT ![r] = s]
      /\ UNCHANGED <<used, places, lock, voice, behind, found, faults, history>>
      /\ calls' = calls + 1
  BY DEF Open, Call
<1>. HIDE DEF r
<1>3. Working /\ Stored
  BY TypeParts
<1>4. Taken(r, l, s)
  BY <1>1, <1>2, <1>3 DEF Taken, Working
<1>5. Working'
  BY <1>1, <1>2, <1>3 DEF Working, Location, About
<1>6. Stored'
  BY <1>2, <1>3 DEF Stored
<1>. QED  BY <1>1, <1>2, <1>4, <1>5, <1>6, TypeParts

LEMMA TypedStep == Typed /\ [Next]_vars => Typed'
<1>. SUFFICES ASSUME Typed, [Next]_vars PROVE Typed'
  OBVIOUS
<1>1. Stored /\ Working
  BY TypeParts
<1>2. ASSUME NEW r \in Request, Return(r), UNCHANGED used PROVE Working'
  BY <1>1, <1>2, ReturnSteps
<1>3. ASSUME NEW r \in Request, NEW l \in Location, Goto(r, l), l \in About => sess[r] \in used, UNCHANGED used
      PROVE  Working'
  BY <1>1, <1>3, GotoSteps
<1>4. CASE Upload
  BY <1>4, UploadTakes
<1>5. ASSUME NEW l \in {"findRow", "ask", "claim"}, NEW s \in used, Open(l, s) PROVE Typed'
  BY <1>5, OpenTakes
<1>6. ASSUME NEW r \in Request, Search(r) PROVE Typed'
  <2>1. PICK s \in Session \cup {NoSession} : Newest(s) /\ found' = [found EXCEPT ![r] = s]
    BY <1>6 DEF Search
  <2>2. s \in used \cup {NoSession}
    BY <1>1, <2>1 DEF Newest, Stored
  <2>3. pc' = [pc EXCEPT ![r] = "setLock"] /\ UNCHANGED <<used, places, lock, voice, sess, behind, bounds, history>>
    BY <1>6 DEF Search
  <2>4. Working'
    BY <1>1, <2>1, <2>2, <2>3 DEF Working, Location, About
  <2>5. Stored'
    BY <1>1, <2>3 DEF Stored
  <2>. QED  BY <2>4, <2>5, TypeParts
<1>7. ASSUME NEW r \in Request, SetLock(r) PROVE Typed'
  <2>1. Working'
    BY <1>2, <1>3, <1>7 DEF SetLock, Location, About
  <2>2. Stored'
    BY <1>1, <1>7 DEF SetLock, Stored
  <2>. QED  BY <2>1, <2>2, TypeParts
<1>8. ASSUME NEW r \in Request, AiUpload(r) PROVE Typed'
  BY <1>8, AiUploadGives
<1>9. ASSUME NEW r \in Request, LoseAnswer(r) PROVE Typed'
  <2>1. PICK s \in Session : Make(s) /\ uncertain' = uncertain \cup {s}
    BY <1>9 DEF LoseAnswer
  <2>2. used \subseteq used' /\ used' = used \cup {s} /\ ai' = ai \cup {s}
    BY <2>1 DEF Make
  <2>3. Working' /\ lock' \in Request \cup {NoRequest}
    <3>1. CASE Release(r, "idle")
      BY <1>1, <2>2, <3>1, ReleaseSteps
    <3>2. CASE Goto(r, "aiUpload") /\ UNCHANGED lock
      BY <1>1, <2>2, <3>2, GotoSteps DEF Location, About, Stored
    <3>. QED  BY <1>9, <3>1, <3>2 DEF LoseAnswer
  <2>4. UNCHANGED <<files, rows, chats, voice, calls, raced, chatting, wiped, slipped>> /\ faults' = faults + 1
    BY <1>9 DEF LoseAnswer, Fault
  <2>5. Stored'
    BY <1>1, <2>1, <2>2, <2>3, <2>4 DEF Stored
  <2>. QED  BY <2>3, <2>5, TypeParts
<1>10. ASSUME NEW r \in Request, StoreFile(r) PROVE Typed'
  <2>1. sess[r] \in used /\ Goto(r, "storeRow") /\ files' = files \cup {sess[r]}
    BY <1>1, <1>10 DEF StoreFile, Working, About
  <2>2. Working'
    BY <1>3, <1>10, <2>1 DEF StoreFile, Location
  <2>3. Stored'
    BY <1>1, <1>10, <2>1 DEF StoreFile, Stored
  <2>. QED  BY <2>2, <2>3, TypeParts
<1>11. ASSUME NEW r \in Request, StoreRow(r) PROVE Typed'
  <2>1. sess[r] \in used /\ Release(r, "idle") /\ rows' = rows \cup {sess[r]}
    BY <1>1, <1>11 DEF StoreRow, Working, About
  <2>2. Working' /\ lock' = NoRequest
    BY <1>1, <1>11, <2>1, ReleaseSteps DEF StoreRow
  <2>3. Stored'
    BY <1>1, <1>11, <2>1, <2>2 DEF StoreRow, Stored
  <2>. QED  BY <2>2, <2>3, TypeParts
<1>12. ASSUME NEW r \in Request, UploadFails(r) PROVE Typed'
  <2>1. Working' /\ lock' = NoRequest
    BY <1>1, <1>12, ReleaseSteps DEF UploadFails
  <2>2. sess[r] \in used \cup {NoSession}
    BY <1>1 DEF Working
  <2>3. Stored'
    BY <1>1, <1>12, <2>1, <2>2 DEF UploadFails, Stored, Fault
  <2>. QED  BY <2>1, <2>3, TypeParts
<1>13. ASSUME NEW r \in Request, StopWaiting(r) \/ Recheck(r) \/ FindRow(r) \/ Ask(r) PROVE Typed'
  <2>1. pc[r] \in {"findRow", "ask"} => sess[r] \in used
    BY <1>1 DEF Working, About
  <2>2. Working'
    BY <1>2, <1>3, <1>13, <2>1 DEF StopWaiting, Recheck, FindRow, Ask, Location, About
  <2>3. Stored'
    BY <1>1, <1>13 DEF StopWaiting, Recheck, FindRow, Ask, Stored
  <2>. QED  BY <2>2, <2>3, TypeParts
<1>14. ASSUME NEW r \in Request, DeleteAi(r) PROVE Typed'
  <2>1. sess[r] \in used /\ Goto(r, "deleteRow") /\ UNCHANGED used
    BY <1>1, <1>14 DEF DeleteAi, Working, About
  <2>2. Working'
    BY <1>3, <2>1 DEF Location
  <2>3. ai' \subseteq ai /\ faults' \in Nat /\ uncertain' \subseteq uncertain \cup {sess[r]}
    BY <1>1, <1>14 DEF DeleteAi, Fault, Stored
  <2>4. Stored'
    BY <1>1, <1>14, <2>1, <2>3 DEF DeleteAi, Stored
  <2>. QED  BY <2>2, <2>4, TypeParts
<1>15. ASSUME NEW r \in Request, DeleteRow(r) PROVE Typed'
  <2>1. sess[r] \in used /\ Goto(r, "deleteChats") /\ UNCHANGED used
    BY <1>1, <1>15 DEF DeleteRow, Working, About
  <2>2. Working'
    BY <1>3, <2>1 DEF Location
  <2>3. Stored'
    BY <1>1, <1>15, <2>1 DEF DeleteRow, Stored
  <2>. QED  BY <2>2, <2>3, TypeParts
<1>16. ASSUME NEW r \in Request, DeleteChats(r) PROVE Typed'
  <2>1. sess[r] \in used /\ Goto(r, "deleteFile") /\ UNCHANGED used
    BY <1>1, <1>16 DEF DeleteChats, Working, About
  <2>2. Working'
    BY <1>3, <2>1 DEF Location
  <2>3. chatting' \subseteq chatting \cup {sess[r]} /\ chats' \subseteq chats
    BY <1>16 DEF DeleteChats
  <2>4. Stored'
    BY <1>1, <1>16, <2>1, <2>3 DEF DeleteChats, Stored
  <2>. QED  BY <2>2, <2>4, TypeParts
<1>17. ASSUME NEW r \in Request, DeleteFile(r) PROVE Typed'
  <2>1. sess[r] \in used /\ Return(r) /\ UNCHANGED used
    BY <1>1, <1>17 DEF DeleteFile, Working, About
  <2>2. Working'
    BY <1>2, <2>1
  <2>3. files' \subseteq files /\ faults' \in Nat /\ uncertain' \subseteq uncertain \cup {sess[r]}
    BY <1>1, <1>17 DEF DeleteFile, Fault, Stored
  <2>4. Stored'
    BY <1>1, <1>17, <2>1, <2>3 DEF DeleteFile, Stored
  <2>. QED  BY <2>2, <2>4, TypeParts
<1>18. ASSUME NEW r \in Request, DeleteFails(r) PROVE Typed'
  <2>1. sess[r] \in used /\ Return(r) /\ UNCHANGED used
    BY <1>1, <1>18 DEF DeleteFails, Working, About
  <2>2. Working'
    BY <1>2, <2>1
  <2>3. Stored'
    BY <1>1, <1>18, <2>1 DEF DeleteFails, Stored, Fault
  <2>. QED  BY <2>2, <2>3, TypeParts
<1>19. ASSUME NEW r \in Request, SaveChat(r) PROVE Typed'
  <2>1. sess[r] \in used /\ Return(r) /\ UNCHANGED used
    BY <1>1, <1>19 DEF SaveChat, Working, About
  <2>2. Working'
    BY <1>2, <2>1
  <2>3. chats' \subseteq chats \cup {sess[r]} /\ faults' \in Nat
    BY <1>1, <1>19 DEF SaveChat, Fault, Stored
  <2>4. Stored'
    BY <1>1, <1>19, <2>1, <2>3 DEF SaveChat, Stored
  <2>. QED  BY <2>2, <2>4, TypeParts
<1>20. ASSUME NEW r \in Request, Claim(r) \/ PollVoice(r) \/ Voice(r) \/ SaveVoice(r) \/ Complete(r) PROVE Typed'
  <2>1. UNCHANGED <<used, places, lock, calls, raced, uncertain, chatting, wiped>>
    BY <1>20 DEF Claim, PollVoice, Voice, SaveVoice, Complete
  <2>2. Return(r) \/ \E l \in {"voice", "poll", "saveVoice", "complete"} : Goto(r, l)
    BY <1>20 DEF Claim, PollVoice, Voice, SaveVoice, Complete
  <2>3. Working'
    BY <1>2, <1>3, <2>1, <2>2 DEF Location, About
  <2>4. faults' \in Nat /\ records' \in Nat /\ key' \in {"none", "processing", "completed"}
    BY <1>1, <1>20 DEF Claim, PollVoice, Voice, SaveVoice, Complete, Fault, Stored
  <2>5. slipped' \in Nat
    BY <1>1, <1>20 DEF Claim, PollVoice, Voice, SaveVoice, Complete, Stored
  <2>6. Stored'
    BY <1>1, <2>1, <2>4, <2>5 DEF Stored
  <2>. QED  BY <2>3, <2>6, TypeParts
<1>21. ASSUME NEW r \in Request, ReadFails(r) PROVE Typed'
  <2>1. Working'
    BY <1>2, <1>21 DEF ReadFails
  <2>2. Stored'
    BY <1>1, <1>21 DEF ReadFails, Stored, Fault
  <2>. QED  BY <2>1, <2>2, TypeParts
<1>22. ASSUME NEW s \in ai, AiForgets(s) PROVE Typed'
  <2>1. Stored' /\ Working'
    BY <1>1, <1>22 DEF AiForgets, Stored, Working
  <2>. QED  BY <2>1, TypeParts
<1>23. CASE Expire
  <2>1. Stored' /\ Working'
    BY <1>1, <1>23 DEF Expire, Stored, Working
  <2>. QED  BY <2>1, TypeParts
<1>24. CASE UNCHANGED vars
  <2>1. Stored' /\ Working'
    BY <1>1, <1>24 DEF vars, Stored, Working
  <2>. QED  BY <2>1, TypeParts
<1>. QED
  BY <1>4, <1>5, <1>6, <1>7, <1>8, <1>9, <1>10, <1>11, <1>12, <1>13, <1>14, <1>15, <1>16, <1>17,
     <1>18, <1>19, <1>20, <1>21, <1>22, <1>23, <1>24 DEF Next, Serve

\* Types, for any number of requests: whatever is stored, deleted or said to
\* be uncertain is a session that the AI service gave out.
THEOREM DocumentsTypeCorrect == Spec => []TypeOK
<1>1. Typed => TypeOK
  BY DEF Typed
<1>. QED  BY <1>1, TypedInitially, TypedStep, PTL DEF Spec

-----------------------------------------------------------------------------
(* The lock of a file *)

\* A lock that is set is the lock of an upload under way; unless uploads have
\* raced, one request at most is between looking at the lock and deleting it,
\* and the file has no listed session once the search has found none.
Locked ==
  /\ lock # NoRequest => lock \in Uploading
  /\ ~ raced =>
       /\ \A q, r \in Request : pc[q] \in Past /\ pc[r] \in Past => q = r
       /\ (\E r \in Request : pc[r] \in Past) => lock = NoRequest
       /\ \A r \in Uploading : r = lock
       /\ \A s, t \in rows : s = t
       /\ \A r \in Request : pc[r] = "setLock" /\ found[r] = NoSession => rows = {}
       /\ Uploading # {} => rows = {}

LEMMA LockedInitially == Init => Locked
BY DEF Init, Locked, Uploading, Past

LEMMA LockSteps ==
  ASSUME Locked, NEW r \in Request, NEW l, Steps(r, l), UNCHANGED <<lock, raced>>, rows' \subseteq rows,
         l \notin Past, r \in Uploading <=> l \in {"aiUpload", "storeFile", "storeRow"}
  PROVE  Locked'
<1>1. Uploading' = Uploading
  BY DEF Uploading, Steps
<1>2. \A q \in Request : pc'[q] \in Past => q # r /\ pc[q] = pc'[q] /\ found'[q] = found[q]
  BY DEF Steps, Past
<1>. QED  BY <1>1, <1>2 DEF Locked, Past

LEMMA LockReleased ==
  ASSUME Locked, NEW r \in Uploading, Steps(r, "idle"), lock' = NoRequest, UNCHANGED raced,
         rows' \subseteq rows \cup {sess[r]}
  PROVE  Locked'
<1>1. Uploading' = Uploading \ {r} /\ r # NoRequest /\ r \in Request
  BY PdfAssumption DEF Uploading, Steps
<1>2. \A q \in Request : pc'[q] \in Past => pc[q] \in Past
  BY DEF Steps, Past
<1>3. ASSUME ~ raced
      PROVE  /\ \A q \in Request : pc'[q] \notin Past
             /\ Uploading' = {} /\ \A s, t \in rows' : s = t
    BY <1>1, <1>2, <1>3 DEF Locked
<1>. QED  BY <1>1, <1>3 DEF Locked, Past

LEMMA LockStep == Typed /\ Locked /\ [Next]_vars => Locked'
<1>. SUFFICES ASSUME Typed, Locked, [Next]_vars PROVE Locked'
  OBVIOUS
<1>1. Working
  BY TypeParts
<1>2. ASSUME NEW r \in Request, NEW l \in Location, Goto(r, l) \/ (l = "idle" /\ Return(r)),
             UNCHANGED <<used, lock, raced>>, rows' \subseteq rows,
             l \in About => sess[r] \in used, l \notin Past,
             r \in Uploading <=> l \in {"aiUpload", "storeFile", "storeRow"}
      PROVE  Locked'
  BY <1>1, <1>2, GotoSteps, ReturnSteps, LockSteps
<1>3. CASE Upload
  <2>1. PICK r \in Request : Taken(r, IF lock = NoRequest THEN "search" ELSE "wait", sess[r])
    BY <1>3, UploadTakes
  <2>2. raced' = (raced \/ (lock = NoRequest /\ \E q \in Request : pc[q] \in Past)) /\ UNCHANGED <<rows, lock>>
    BY <1>3, UploadTakes
  <2>3. Uploading' = Uploading
    BY <2>1 DEF Uploading, Taken
  <2>4. \A q \in Request : pc'[q] = "setLock" => pc[q] = "setLock" /\ found'[q] = found[q]
    BY <2>1 DEF Taken
  <2>5. ~ raced' => ~ raced /\ (lock = NoRequest => \A q \in Request : pc[q] \notin Past)
    BY <2>2, Zenon
  <2>6. \A q \in Request : pc'[q] \in Past => pc[q] \in Past \/ (q = r /\ lock = NoRequest)
    BY <2>1 DEF Taken, Past
  <2>. HIDE DEF Locked
  <2>. QED  BY <2>2, <2>3, <2>4, <2>5, <2>6 DEF Locked
<1>4. ASSUME NEW l \in {"findRow", "ask", "claim"}, NEW s \in used, Open(l, s) PROVE Locked'
  <2>1. PICK r \in Request : Taken(r, l, s)
    BY <1>4, OpenTakes
  <2>2. UNCHANGED <<rows, lock, raced>>
    BY <1>4, OpenTakes
  <2>3. Uploading' = Uploading
    BY <2>1 DEF Uploading, Taken
  <2>4. \A q \in Request : pc'[q] \in Past => pc[q] = pc'[q] /\ found'[q] = found[q]
    BY <2>1 DEF Taken, Past
  <2>. QED  BY <2>2, <2>3, <2>4 DEF Locked, Past
<1>5. ASSUME NEW r \in Request, Search(r) PROVE Locked'
  <2>1. PICK s \in Session \cup {NoSession} : Newest(s) /\ found' = [found EXCEPT ![r] = s]
    BY <1>5 DEF Search
  <2>2. pc[r] = "search" /\ pc' = [pc EXCEPT ![r] = "setLock"] /\ UNCHANGED <<rows, lock, raced>>
    BY <1>5 DEF Search
  <2>3. Uploading' = Uploading
    BY <1>1, <2>2 DEF Uploading, Working
  <2>4. \A q \in Request : pc'[q] \in Past <=> pc[q] \in Past
    BY <1>1, <2>2 DEF Past, Working
  <2>5. found'[r] = NoSession => rows = {}
    BY <1>1, <2>1, NoneIsNoSession DEF Newest, Working, Typed, TypeOK
  <2>6. \A q \in Request \ {r} : pc'[q] = pc[q] /\ found'[q] = found[q]
    BY <1>1, <2>1, <2>2 DEF Working
  <2>. QED  BY <2>2, <2>3, <2>4, <2>5, <2>6 DEF Locked
<1>6. ASSUME NEW r \in Request, SetLock(r) PROVE Locked'
  <2>1. pc[r] = "setLock" /\ UNCHANGED <<used, rows, raced>>
    BY <1>6 DEF SetLock
  <2>2. CASE Return(r) /\ UNCHANGED lock
    BY <1>2, <2>1, <2>2 DEF Location, About, Past, Uploading
  <2>3. CASE found[r] = NoSession /\ lock' = r /\ Goto(r, "aiUpload")
    <3>1. Steps(r, "aiUpload")
      BY <1>1, <2>1, <2>3, GotoSteps DEF Location, About
    <3>2. Uploading' = Uploading \cup {r}
      BY <3>1 DEF Uploading, Steps
    <3>3. \A q \in Request : pc'[q] \in Past => q # r /\ pc[q] \in Past
      BY <3>1 DEF Steps, Past
    <3>4. ASSUME ~ raced
          PROVE  Uploading = {} /\ rows = {} /\ \A q \in Request : pc'[q] \notin Past
      <4>1. pc[r] \in Past /\ lock = NoRequest
        BY <2>1, <3>4 DEF Locked, Past
      <4>2. Uploading = {}
        BY <3>4, <4>1, PdfAssumption DEF Locked, Uploading
      <4>. QED  BY <2>1, <2>3, <3>3, <3>4, <4>1, <4>2 DEF Locked
    <3>. QED  BY <2>1, <2>3, <3>2, <3>4 DEF Locked, Past
  <2>. QED  BY <1>6, <2>2, <2>3 DEF SetLock
<1>7. ASSUME NEW r \in Request, AiUpload(r) PROVE Locked'
  <2>1. PICK s \in Session : Given(r, s)
    BY <1>7, AiUploadGives
  <2>2. pc[r] = "aiUpload"
    BY <1>7, AiUploadGives
  <2>3. Uploading' = Uploading /\ UNCHANGED <<lock, rows, raced>>
    BY <2>1, <2>2 DEF Uploading, Given
  <2>4. \A q \in Request : pc'[q] \in Past => pc[q] = pc'[q] /\ found'[q] = found[q]
    BY <2>1 DEF Given, Past
  <2>. QED  BY <2>3, <2>4 DEF Locked, Past
<1>8. ASSUME NEW r \in Request, LoseAnswer(r) PROVE Locked'
  <2>1. r \in Uploading /\ UNCHANGED <<rows, raced>> /\ used \subseteq used'
    BY <1>8 DEF LoseAnswer, Uploading, Make
  <2>2. CASE Release(r, "idle")
    BY <1>1, <2>1, <2>2, ReleaseSteps, LockReleased
  <2>3. CASE Goto(r, "aiUpload") /\ UNCHANGED lock
    <3>1. Steps(r, "aiUpload")
      BY <1>1, <2>1, <2>3, GotoSteps DEF Location, About
    <3>. QED  BY <2>1, <2>3, <3>1, LockSteps DEF Past
  <2>. QED  BY <1>8, <2>2, <2>3 DEF LoseAnswer
<1>9. ASSUME NEW r \in Request, StoreFile(r) PROVE Locked'
  BY <1>1, <1>2, <1>9 DEF StoreFile, Location, Past, Uploading, Working, About
<1>10. ASSUME NEW r \in Request, StoreRow(r) PROVE Locked'
  BY <1>1, <1>10, ReleaseSteps, LockReleased DEF StoreRow, Uploading
<1>11. ASSUME NEW r \in Request, UploadFails(r) PROVE Locked'
  BY <1>1, <1>11, ReleaseSteps, LockReleased DEF UploadFails
<1>12. ASSUME NEW r \in Request,
              \/ StopWaiting(r) \/ Recheck(r)
              \/ FindRow(r) \/ DeleteAi(r) \/ DeleteRow(r) \/ DeleteChats(r) \/ DeleteFile(r) \/ DeleteFails(r)
              \/ Ask(r) \/ SaveChat(r) \/ ReadFails(r)
              \/ Claim(r) \/ PollVoice(r) \/ Voice(r) \/ SaveVoice(r) \/ Complete(r)
       PROVE  Locked'
  <2>. DEFINE L == {"recheck", "deleteAi", "deleteRow", "deleteChats", "deleteFile", "saveChat",
                    "voice", "poll", "saveVoice", "complete"}
  <2>1. UNCHANGED <<used, lock, raced>> /\ rows' \subseteq rows /\ r \notin Uploading
    BY <1>12 DEF StopWaiting, Recheck, FindRow, DeleteAi, DeleteRow, DeleteChats, DeleteFile, DeleteFails,
         Ask, SaveChat, ReadFails, Claim, PollVoice, Voice, SaveVoice, Complete, Uploading
  <2>2. Return(r) \/ \E l \in L : Goto(r, l)
    BY <1>12 DEF StopWaiting, Recheck, FindRow, DeleteAi, DeleteRow, DeleteChats, DeleteFile, DeleteFails,
         Ask, SaveChat, ReadFails, Claim, PollVoice, Voice, SaveVoice, Complete
  <2>3. \E l \in L \cup {"idle"} : Steps(r, l)
    <3>1. CASE Return(r)
      BY <1>1, <2>1, <3>1, ReturnSteps
    <3>2. ASSUME NEW l \in L, Goto(r, l) PROVE Steps(r, l)
      BY <1>1, <3>2 DEF Goto, Steps, Working
    <3>. QED  BY <2>2, <3>1, <3>2
  <2>. QED  BY <2>1, <2>3, LockSteps DEF Past
<1>13. ASSUME NEW s \in ai, AiForgets(s) PROVE Locked'
  BY <1>13 DEF AiForgets, Locked, Uploading
<1>14. CASE Expire
  BY <1>14 DEF Expire, Locked, Uploading
<1>15. CASE UNCHANGED vars
  BY <1>15 DEF vars, Locked, Uploading
<1>. QED
  BY <1>3, <1>4, <1>5, <1>6, <1>7, <1>8, <1>9, <1>10, <1>11, <1>12, <1>13, <1>14, <1>15 DEF Next, Serve

\* The lock is never left behind, and a user has one session of a file unless
\* two uploads pass the look at the lock together.
THEOREM UploadsExcludeEachOther == Spec => []UploadsExclude
<1>1. Locked => UploadsExclude
  <2>. SUFFICES ASSUME Locked, ~ raced PROVE Cardinality(rows) <= 1
    BY DEF Locked, UploadsExclude
  <2>1. \A s, t \in rows : s = t
    BY DEF Locked
  <2>2. CASE rows = {}
    BY <2>2, FS_EmptySet
  <2>3. CASE rows # {}
    <3>1. PICK s : rows = {s}
      BY <2>1, <2>3
    <3>. QED  BY <3>1, FS_Singleton
  <2>. QED  BY <2>2, <2>3
<1>. QED  BY <1>1, TypedInitially, TypedStep, LockedInitially, LockStep, PTL DEF Spec

-----------------------------------------------------------------------------
(* The places of a session *)

Deleting == {"deleteAi", "deleteRow", "deleteChats", "deleteFile"}

\* A session that is being stored is listed and deleted by nobody.
Unborn ==
  \A r \in Request : pc[r] \in {"storeFile", "storeRow"} =>
    /\ sess[r] \notin rows \cup wiped
    /\ \A q \in Request \ {r} : pc[q] \in {"storeFile", "storeRow"} \cup Deleting => sess[q] # sess[r]

\* The file comes before the row, and leaves after it.
FileFirst ==
  /\ rows \subseteq files
  /\ \A r \in Request :
       /\ pc[r] = "storeRow" => sess[r] \in files
       /\ pc[r] \in {"deleteChats", "deleteFile"} => sess[r] \notin rows
  /\ \A s \in wiped : s \notin rows

\* What a delete has left behind it stays empty.
Emptied ==
  /\ \A r \in Request :
       /\ pc[r] \in {"deleteRow", "deleteChats", "deleteFile"} /\ sess[r] \notin uncertain => sess[r] \notin ai
       /\ pc[r] = "deleteFile" /\ sess[r] \notin uncertain \cup chatting => sess[r] \notin chats /\ ~ Chats(sess[r])
  /\ \A s \in wiped \ (uncertain \cup chatting) : s \notin ai \cup chats \cup files /\ ~ Chats(s)

Storing == {"storeFile", "storeRow"}

LEMMA PlacesInitially == Init => Unborn /\ FileFirst /\ Emptied
BY DEF Init, Unborn, FileFirst, Emptied

LEMMA UnbornSteps ==
  ASSUME Unborn, NEW r \in Request, NEW l, Steps(r, l),
         rows' \subseteq rows, wiped' \subseteq wiped,
         l \in Storing => pc[r] \in Storing, l \in Deleting => pc[r] \in Deleting
  PROVE  Unborn'
<1>1. \A q \in Request : pc'[q] \in Storing => pc[q] \in Storing /\ sess'[q] = sess[q]
  BY DEF Steps, Storing
<1>2. \A q \in Request : pc'[q] \in Storing \cup Deleting => pc[q] \in Storing \cup Deleting /\ sess'[q] = sess[q]
  BY DEF Steps, Storing, Deleting
<1>. QED  BY <1>1, <1>2 DEF Unborn, Storing

LEMMA FilesSteps ==
  ASSUME FileFirst, NEW r \in Request, NEW l, Steps(r, l),
         rows' \subseteq rows, files \subseteq files', wiped' \subseteq wiped,
         l = "storeRow" => sess[r] \in files',
         l \in {"deleteChats", "deleteFile"} => sess[r] \notin rows'
  PROVE  FileFirst'
<1>1. \A q \in Request \ {r} : pc'[q] \in {"storeRow", "deleteChats", "deleteFile"} => pc'[q] = pc[q] /\ sess'[q] = sess[q]
  BY DEF Steps
<1>2. pc'[r] = l /\ (l # "idle" => sess'[r] = sess[r])
  BY DEF Steps
<1>. QED  BY <1>1, <1>2 DEF FileFirst

LEMMA EmptiedKept ==
  ASSUME Typed, Emptied, ai' \cap used \subseteq ai, chatting \subseteq chatting', uncertain \subseteq uncertain',
         UNCHANGED wiped, files' \cap wiped \subseteq files,
         \A s \in used : s \in chats' => s \in chats \/ Chats(s),
         \A s \in used : Chats(s)' => Chats(s) \/ s \in ai,
         \A q \in Request : pc'[q] \in {"deleteRow", "deleteChats", "deleteFile"} =>
           /\ sess'[q] = sess[q] /\ sess[q] \in used
           /\ pc[q] \in {"deleteRow", "deleteChats", "deleteFile"} \/ sess[q] \notin ai' \ uncertain'
           /\ pc'[q] = "deleteFile" => pc[q] = "deleteFile"
  PROVE  Emptied'
<1>1. ASSUME NEW q \in Request, pc'[q] \in {"deleteRow", "deleteChats", "deleteFile"}, sess'[q] \notin uncertain'
      PROVE  sess'[q] \notin ai'
  BY <1>1 DEF Emptied
<1>2. ASSUME NEW q \in Request, pc'[q] = "deleteFile", sess'[q] \notin uncertain' \cup chatting'
      PROVE  sess'[q] \notin chats' /\ ~ Chats(sess[q])'
  <2>1. pc[q] = "deleteFile" /\ sess'[q] = sess[q] /\ sess[q] \in used /\ sess[q] \notin uncertain \cup chatting
    BY <1>2
  <2>2. sess[q] \notin ai /\ sess[q] \notin chats /\ ~ Chats(sess[q])
    BY <2>1 DEF Emptied
  <2>3. ASSUME NEW s \in used, s = sess[q] PROVE sess'[q] \notin chats' /\ ~ Chats(s)'
    BY <2>1, <2>2, <2>3
  <2>4. sess'[q] \notin chats' /\ ~ \E p \in Request : pc'[p] = "saveChat" /\ sess'[p] = sess[q]
    BY <2>1, <2>3 DEF Chats
  <2>. QED  BY <2>1, <2>4 DEF Chats
<1>3. ASSUME NEW s \in wiped \ (uncertain' \cup chatting')
      PROVE  s \notin ai' \cup chats' \cup files' /\ ~ Chats(s)'
  <2>1. s \in used
    BY DEF Typed, TypeOK
  <2>2. s \notin ai \cup chats \cup files /\ ~ Chats(s)
    BY <1>3 DEF Emptied
  <2>. QED  BY <2>1, <2>2
<1>. QED  BY <1>1, <1>2, <1>3 DEF Emptied, Chats

LEMMA EmptiedSteps ==
  ASSUME Typed, Emptied, NEW r \in Request, NEW l, Steps(r, l),
         ai' \cap used \subseteq ai, chatting \subseteq chatting', uncertain \subseteq uncertain',
         UNCHANGED wiped, files' \cap wiped \subseteq files,
         \A s \in used : s \in chats' => s \in chats \/ Chats(s),
         l = "saveChat" => sess[r] \in ai,
         l \in {"deleteRow", "deleteChats"} =>
           pc[r] \in {"deleteAi", "deleteRow", "deleteChats"} /\ (pc[r] = "deleteAi" => sess[r] \notin ai' \ uncertain'),
         l # "deleteFile"
  PROVE  Emptied'
<1>1. \A s \in used : Chats(s)' => Chats(s) \/ s \in ai
  BY DEF Chats, Steps
<1>2. \A q \in Request \ {r} : pc'[q] \in {"deleteRow", "deleteChats", "deleteFile"} =>
        pc[q] = pc'[q] /\ sess'[q] = sess[q]
  BY DEF Steps
<1>3. \A q \in Request : pc[q] \in Deleting => sess[q] \in used
  BY DEF Typed, About, Deleting
<1>4. pc'[r] = l /\ (l # "idle" => sess'[r] = sess[r])
  BY DEF Steps
<1>5. ASSUME NEW q \in Request, pc'[q] \in {"deleteRow", "deleteChats", "deleteFile"}
      PROVE  /\ sess'[q] = sess[q] /\ sess[q] \in used
             /\ pc[q] \in {"deleteRow", "deleteChats", "deleteFile"} \/ sess[q] \notin ai' \ uncertain'
             /\ pc'[q] = "deleteFile" => pc[q] = "deleteFile"
  <2>1. CASE q = r
    BY <1>3, <1>4, <1>5, <2>1 DEF Deleting
  <2>2. CASE q # r
    BY <1>2, <1>3, <1>5, <2>2 DEF Deleting
  <2>. QED  BY <2>1, <2>2
<1>. QED  BY <1>1, <1>5, EmptiedKept

LEMMA PlacesStep ==
  Typed /\ Unborn /\ FileFirst /\ Emptied /\ [Next]_vars => Unborn' /\ FileFirst' /\ Emptied'
<1>. SUFFICES ASSUME Typed, Unborn, FileFirst, Emptied, [Next]_vars PROVE Unborn' /\ FileFirst' /\ Emptied'
  OBVIOUS
<1>1. Working /\ Stored
  BY TypeParts
<1>2. ASSUME NEW r \in Request, NEW l, Goto(r, l) PROVE Steps(r, l)
  BY <1>1, <1>2 DEF Goto, Steps, Working
<1>3. ASSUME NEW r \in Request, Return(r) PROVE Steps(r, "idle")
  BY <1>1, <1>3 DEF Return, Forget, Steps, Working
<1>4. ASSUME NEW r \in Request, Release(r, "idle") PROVE Steps(r, "idle")
  BY <1>1, <1>4 DEF Release, Forget, Steps, Working
<1>5. ASSUME NEW r \in Request, NEW l, Taken(r, l, sess'[r]), l \in {"search", "wait", "findRow", "ask", "claim"},
             UNCHANGED <<used, places, uncertain, chatting, wiped>>
      PROVE  Unborn' /\ FileFirst' /\ Emptied'
  <2>1. \A q \in Request : pc'[q] \in Storing \cup Deleting \cup {"saveChat"} =>
          pc'[q] = pc[q] /\ sess'[q] = sess[q] /\ sess[q] \in used
    BY <1>1, <1>5 DEF Taken, Storing, Deleting, Working, About
  <2>2. \A s \in used : Chats(s)' => Chats(s)
    BY <2>1 DEF Chats
  <2>3. Unborn'
    BY <1>5, <2>1 DEF Unborn, Storing
  <2>4. FileFirst'
    BY <1>5, <2>1 DEF FileFirst, Storing, Deleting
  <2>5. Emptied'
    BY <1>5, <2>1, <2>2, EmptiedKept DEF Deleting
  <2>. QED  BY <2>3, <2>4, <2>5
<1>6. CASE Upload
  BY <1>5, <1>6, UploadTakes DEF Taken
<1>7. ASSUME NEW l \in {"findRow", "ask", "claim"}, NEW s \in used, Open(l, s)
      PROVE  Unborn' /\ FileFirst' /\ Emptied'
  BY <1>5, <1>7, OpenTakes DEF Taken
<1>8. ASSUME NEW r \in Request, Search(r) PROVE Unborn' /\ FileFirst' /\ Emptied'
  <2>1. /\ pc[r] = "search" /\ pc' = [pc EXCEPT ![r] = "setLock"]
        /\ UNCHANGED <<used, places, lock, voice, sess, behind, bounds, history>>
    BY <1>8 DEF Search
  <2>2. \A q \in Request : pc'[q] \in Storing \cup Deleting \cup {"saveChat"} =>
          pc'[q] = pc[q] /\ sess'[q] = sess[q] /\ sess[q] \in used
    BY <1>1, <2>1 DEF Storing, Deleting, Working, About
  <2>3. \A s \in used : Chats(s)' => Chats(s)
    BY <2>2 DEF Chats
  <2>4. Unborn'
    BY <2>1, <2>2 DEF Unborn, Storing
  <2>5. FileFirst'
    BY <2>1, <2>2 DEF FileFirst, Storing, Deleting
  <2>6. Emptied'
    BY <2>1, <2>2, <2>3, EmptiedKept DEF Deleting
  <2>. QED  BY <2>4, <2>5, <2>6
<1>9. ASSUME NEW r \in Request, AiUpload(r) PROVE Unborn' /\ FileFirst' /\ Emptied'
  <2>1. PICK s \in Session : Given(r, s)
    BY <1>9, AiUploadGives
  <2>2. pc[r] = "aiUpload"
    BY <1>9, AiUploadGives
  <2>3. s \notin used /\ ai' = ai \cup {s} /\ UNCHANGED <<files, rows, chats, voice, bounds, history>>
    BY <2>1 DEF Given
  <2>4. pc'[r] = "storeFile" /\ sess'[r] = s /\ \A q \in Request \ {r} : pc'[q] = pc[q] /\ sess'[q] = sess[q]
    BY <2>1 DEF Given
  <2>5. \A q \in Request : pc[q] \in Storing \cup Deleting \cup {"saveChat"} => sess[q] \in used /\ q # r
    BY <1>1, <2>2 DEF Storing, Deleting, Working, About
  <2>6. Unborn'
    BY <1>1, <2>3, <2>4, <2>5 DEF Unborn, Storing, Deleting, Stored
  <2>7. FileFirst'
    BY <2>3, <2>4 DEF FileFirst
  <2>8. \A t \in used : Chats(t)' => Chats(t)
    BY <2>4 DEF Chats
  <2>9. \A q \in Request : pc'[q] \in Deleting => pc'[q] = pc[q] /\ sess'[q] = sess[q] /\ sess[q] \in used
    BY <2>4, <2>5 DEF Deleting
  <2>10. Emptied'
    BY <2>3, <2>8, <2>9, EmptiedKept DEF Deleting
  <2>. QED  BY <2>6, <2>7, <2>10
<1>10. ASSUME NEW r \in Request, LoseAnswer(r) PROVE Unborn' /\ FileFirst' /\ Emptied'
  <2>1. PICK s \in Session : Make(s) /\ uncertain' = uncertain \cup {s}
    BY <1>10 DEF LoseAnswer
  <2>2. s \notin used /\ ai' = ai \cup {s} /\ UNCHANGED <<files, rows, chats, chatting, wiped>>
    BY <1>10, <2>1 DEF LoseAnswer, Make
  <2>3. Steps(r, "idle") \/ Steps(r, "aiUpload")
    BY <1>2, <1>4, <1>10 DEF LoseAnswer
  <2>4. Unborn'
    BY <2>2, <2>3, UnbornSteps DEF Storing, Deleting
  <2>5. FileFirst'
    BY <2>2, <2>3, FilesSteps
  <2>6. Emptied'
    BY <2>1, <2>2, <2>3, EmptiedSteps
  <2>. QED  BY <2>4, <2>5, <2>6
<1>11. ASSUME NEW r \in Request, StoreFile(r) PROVE Unborn' /\ FileFirst' /\ Emptied'
  <2>1. /\ Steps(r, "storeRow") /\ files' = files \cup {sess[r]} /\ sess[r] \notin wiped
        /\ UNCHANGED <<ai, rows, chats, history>> /\ pc[r] \in Storing
    BY <1>2, <1>11 DEF StoreFile, Unborn, Storing
  <2>2. Unborn'
    BY <2>1, UnbornSteps DEF Storing, Deleting
  <2>3. FileFirst'
    BY <2>1, FilesSteps
  <2>4. Emptied'
    BY <2>1, EmptiedSteps
  <2>. QED  BY <2>2, <2>3, <2>4
<1>12. ASSUME NEW r \in Request, StoreRow(r) PROVE Unborn' /\ FileFirst' /\ Emptied'
  <2>1. /\ Steps(r, "idle") /\ rows' = rows \cup {sess[r]} /\ pc[r] = "storeRow"
        /\ UNCHANGED <<ai, files, chats, history>>
    BY <1>4, <1>12 DEF StoreRow
  <2>2. sess[r] \notin wiped /\ sess[r] \in files
    BY <2>1 DEF Unborn, FileFirst
  <2>3. \A q \in Request : pc'[q] \in Storing \cup Deleting => q # r /\ pc[q] = pc'[q] /\ sess'[q] = sess[q] /\ sess[q] # sess[r]
    BY <2>1 DEF Unborn, Steps, Storing, Deleting
  <2>4. Unborn'
    BY <2>1, <2>3 DEF Unborn, Storing
  <2>5. FileFirst'
    BY <2>1, <2>2, <2>3 DEF FileFirst, Storing, Deleting
  <2>6. Emptied'
    BY <2>1, EmptiedSteps
  <2>. QED  BY <2>4, <2>5, <2>6
<1>13. ASSUME NEW r \in Request, UploadFails(r) PROVE Unborn' /\ FileFirst' /\ Emptied'
  <2>1. Steps(r, "idle") /\ uncertain \subseteq uncertain' /\ UNCHANGED <<places, chatting, wiped>>
    BY <1>4, <1>13 DEF UploadFails
  <2>. QED  BY <2>1, UnbornSteps, FilesSteps, EmptiedSteps DEF Storing, Deleting
<1>14. ASSUME NEW r \in Request,
              \/ SetLock(r) \/ StopWaiting(r) \/ Recheck(r) \/ ReadFails(r)
              \/ Claim(r) \/ PollVoice(r) \/ Voice(r) \/ SaveVoice(r) \/ Complete(r)
       PROVE  Unborn' /\ FileFirst' /\ Emptied'
  <2>. DEFINE L == {"aiUpload", "recheck", "voice", "poll", "saveVoice", "complete"}
  <2>1. UNCHANGED <<places, uncertain, chatting, wiped>>
    BY <1>14 DEF SetLock, StopWaiting, Recheck, ReadFails, Claim, PollVoice, Voice, SaveVoice, Complete
  <2>2. Return(r) \/ \E l \in L : Goto(r, l)
    BY <1>14 DEF SetLock, StopWaiting, Recheck, ReadFails, Claim, PollVoice, Voice, SaveVoice, Complete
  <2>3. PICK l \in L \cup {"idle"} : Steps(r, l)
    BY <1>2, <1>3, <2>2
  <2>4. l \notin Storing \cup Deleting \cup {"saveChat"}
    BY DEF Storing, Deleting
  <2>. QED  BY <2>1, <2>3, <2>4, UnbornSteps, FilesSteps, EmptiedSteps DEF Storing, Deleting
<1>15. ASSUME NEW r \in Request, FindRow(r) PROVE Unborn' /\ FileFirst' /\ Emptied'
  <2>1. UNCHANGED <<places, history>>
    BY <1>15 DEF FindRow
  <2>2. CASE Return(r)
    BY <1>3, <2>1, <2>2, UnbornSteps, FilesSteps, EmptiedSteps DEF Storing, Deleting
  <2>3. CASE sess[r] \in rows /\ Goto(r, "deleteAi")
    <3>1. Steps(r, "deleteAi") /\ pc[r] = "findRow"
      BY <1>2, <1>15, <2>3 DEF FindRow
    <3>2. \A q \in Request : pc'[q] \in Storing => q # r /\ pc[q] = pc'[q] /\ sess'[q] = sess[q]
      BY <3>1 DEF Steps, Storing
    <3>3. \A q \in Request : pc'[q] \in Storing \cup Deleting =>
            sess'[q] = sess[q] /\ (q = r \/ pc[q] \in Storing \cup Deleting)
      BY <3>1 DEF Steps, Storing, Deleting
    <3>4. Unborn'
      BY <2>1, <2>3, <3>2, <3>3 DEF Unborn, Storing
    <3>. QED  BY <2>1, <3>1, <3>4, FilesSteps, EmptiedSteps
  <2>. QED  BY <1>15, <2>2, <2>3 DEF FindRow
<1>16. ASSUME NEW r \in Request, DeleteAi(r) PROVE Unborn' /\ FileFirst' /\ Emptied'
  <2>1. /\ Steps(r, "deleteRow") /\ pc[r] = "deleteAi" /\ UNCHANGED <<files, rows, chats, chatting, wiped>>
        /\ ai' \subseteq ai /\ uncertain \subseteq uncertain' /\ sess[r] \notin ai' \ uncertain'
    BY <1>2, <1>16 DEF DeleteAi
  <2>. QED  BY <2>1, UnbornSteps, FilesSteps, EmptiedSteps DEF Storing, Deleting
<1>17. ASSUME NEW r \in Request, DeleteRow(r) PROVE Unborn' /\ FileFirst' /\ Emptied'
  <2>1. /\ Steps(r, "deleteChats") /\ pc[r] = "deleteRow" /\ UNCHANGED <<ai, files, chats, history>>
        /\ rows' = rows \ {sess[r]}
    BY <1>2, <1>17 DEF DeleteRow
  <2>. QED  BY <2>1, UnbornSteps, FilesSteps, EmptiedSteps DEF Storing, Deleting
<1>18. ASSUME NEW r \in Request, DeleteChats(r) PROVE Unborn' /\ FileFirst' /\ Emptied'
  <2>1. /\ Steps(r, "deleteFile") /\ pc[r] = "deleteChats" /\ UNCHANGED <<ai, files, rows, wiped, uncertain>>
        /\ chats' = chats \ {sess[r]}
        /\ chatting' = IF Chats(sess[r]) THEN chatting \cup {sess[r]} ELSE chatting
    BY <1>2, <1>18 DEF DeleteChats
  <2>2. Unborn' /\ FileFirst'
    BY <2>1, UnbornSteps, FilesSteps DEF Storing, Deleting, FileFirst
  <2>3. \A s \in Session : Chats(s)' => Chats(s)
    BY <2>1 DEF Chats, Steps
  <2>4. \A q \in Request : pc'[q] \in {"deleteRow", "deleteChats", "deleteFile"} =>
          /\ sess'[q] = sess[q] /\ sess[q] \in used
          /\ pc[q] \in {"deleteRow", "deleteChats", "deleteFile"} /\ (q = r \/ pc[q] = pc'[q])
    BY <1>1, <2>1 DEF Steps, Working, About
  <2>5. used \subseteq Session
    BY <1>1 DEF Stored
  <2>6. ASSUME NEW q \in Request, pc'[q] = "deleteFile", sess'[q] \notin uncertain' \cup chatting'
        PROVE  sess'[q] \notin chats' /\ ~ \E p \in Request : pc'[p] = "saveChat" /\ sess'[p] = sess'[q]
    <3>. DEFINE s == sess[q]
    <3>1. sess'[q] = s /\ s \in Session /\ s \notin uncertain \cup chatting'
      BY <2>1, <2>4, <2>5, <2>6
    <3>2. s \notin chats' /\ ~ Chats(s)
      <4>1. CASE s = sess[r]
        BY <2>1, <3>1, <4>1
      <4>2. CASE s # sess[r]
        <5>1. pc[q] = "deleteFile" /\ s \notin chatting
          BY <2>1, <2>4, <2>6, <3>1, <4>2
        <5>. QED  BY <2>1, <3>1, <5>1 DEF Emptied
      <4>. QED  BY <4>1, <4>2
    <3>. HIDE DEF s
    <3>3. ~ \E p \in Request : pc'[p] = "saveChat" /\ sess'[p] = s
      BY <2>3, <3>1, <3>2 DEF Chats
    <3>. QED  BY <3>1, <3>2, <3>3
  <2>7. ASSUME NEW s \in wiped', s \notin uncertain' \cup chatting'
        PROVE  s \notin ai' \cup chats' \cup files' /\ ~ Chats(s)'
    BY <1>1, <2>1, <2>3, <2>7 DEF Emptied, Stored
  <2>8. ASSUME NEW q \in Request, pc'[q] \in {"deleteRow", "deleteChats", "deleteFile"}, sess'[q] \notin uncertain'
        PROVE  sess'[q] \notin ai'
    BY <2>1, <2>4, <2>8 DEF Emptied
  <2>. QED  BY <2>2, <2>6, <2>7, <2>8 DEF Emptied, Chats
<1>19. ASSUME NEW r \in Request, DeleteFile(r) PROVE Unborn' /\ FileFirst' /\ Emptied'
  <2>1. /\ Steps(r, "idle") /\ pc[r] = "deleteFile" /\ UNCHANGED <<ai, rows, chats, chatting>>
        /\ files \ {sess[r]} \subseteq files' /\ files' \subseteq files /\ uncertain \subseteq uncertain'
        /\ sess[r] \notin files' \/ sess[r] \in uncertain'
        /\ wiped' = wiped \cup {sess[r]}
    BY <1>3, <1>19 DEF DeleteFile
  <2>2. sess[r] \notin rows /\ sess[r] \in used
    BY <1>1, <2>1 DEF FileFirst, Working, About
  <2>3. \A q \in Request : pc'[q] \in Storing \cup Deleting => q # r /\ pc[q] = pc'[q] /\ sess'[q] = sess[q] /\ sess[q] \in used
    BY <1>1, <2>1 DEF Steps, Storing, Deleting, Working, About
  <2>4. \A q \in Request : pc[q] \in Storing => sess[q] # sess[r]
    BY <2>1 DEF Unborn, Storing, Deleting
  <2>5. Unborn'
    BY <2>1, <2>3, <2>4 DEF Unborn, Storing
  <2>6. FileFirst'
    BY <2>1, <2>2, <2>3, <2>4 DEF FileFirst, Storing, Deleting
  <2>7. \A s \in used : Chats(s)' => Chats(s)
    BY <2>1 DEF Chats, Steps
  <2>8. ASSUME NEW s \in wiped', s \notin uncertain' \cup chatting'
        PROVE  s \notin ai' \cup chats' \cup files' /\ ~ Chats(s)'
    <3>1. CASE s \in wiped
      BY <1>1, <2>1, <2>7, <2>8, <3>1 DEF Emptied, Stored
    <3>2. CASE s = sess[r]
      <4>1. s \notin ai /\ s \notin chats /\ ~ Chats(s)
        BY <2>1, <2>8, <3>2 DEF Emptied
      <4>. QED  BY <2>1, <2>2, <2>7, <2>8, <3>2, <4>1
    <3>. QED  BY <2>1, <2>8, <3>1, <3>2
  <2>9. ASSUME NEW q \in Request, pc'[q] \in {"deleteRow", "deleteChats", "deleteFile"}, sess'[q] \notin uncertain'
        PROVE  sess'[q] \notin ai'
    BY <2>1, <2>3, <2>9 DEF Emptied, Deleting
  <2>10. ASSUME NEW q \in Request, pc'[q] = "deleteFile", sess'[q] \notin uncertain' \cup chatting'
         PROVE  sess'[q] \notin chats' /\ ~ \E p \in Request : pc'[p] = "saveChat" /\ sess'[p] = sess'[q]
    <3>1. sess'[q] = sess[q] /\ sess[q] \in used /\ sess[q] \notin chats /\ ~ Chats(sess[q])
      BY <2>1, <2>3, <2>10 DEF Emptied, Deleting
    <3>. QED  BY <2>1, <2>7, <3>1 DEF Chats
  <2>. QED  BY <2>5, <2>6, <2>8, <2>9, <2>10 DEF Emptied, Chats
<1>20. ASSUME NEW r \in Request, DeleteFails(r) PROVE Unborn' /\ FileFirst' /\ Emptied'
  <2>1. Steps(r, "idle") /\ uncertain \subseteq uncertain' /\ UNCHANGED <<places, chatting, wiped>>
    BY <1>3, <1>20 DEF DeleteFails
  <2>. QED  BY <2>1, UnbornSteps, FilesSteps, EmptiedSteps DEF Storing, Deleting
<1>21. ASSUME NEW r \in Request, Ask(r) PROVE Unborn' /\ FileFirst' /\ Emptied'
  <2>1. UNCHANGED <<places, history>> /\ (Steps(r, "idle") \/ (Steps(r, "saveChat") /\ sess[r] \in ai))
    BY <1>2, <1>3, <1>21 DEF Ask
  <2>. QED  BY <2>1, UnbornSteps, FilesSteps, EmptiedSteps DEF Storing, Deleting
<1>22. ASSUME NEW r \in Request, SaveChat(r) PROVE Unborn' /\ FileFirst' /\ Emptied'
  <2>1. Steps(r, "idle") /\ UNCHANGED <<ai, files, rows, history>> /\ chats' \subseteq chats \cup {sess[r]} /\ Chats(sess[r])
    BY <1>3, <1>22 DEF SaveChat, Chats
  <2>. QED  BY <2>1, UnbornSteps, FilesSteps, EmptiedSteps DEF Storing, Deleting
<1>23. ASSUME ai' \subseteq ai, UNCHANGED <<used, files, rows, chats, pc, sess, uncertain, chatting, wiped>>
       PROVE  Unborn' /\ FileFirst' /\ Emptied'
  BY <1>23 DEF Unborn, FileFirst, Emptied, Chats
<1>24. ASSUME NEW s \in ai, AiForgets(s) PROVE Unborn' /\ FileFirst' /\ Emptied'
  BY <1>23, <1>24 DEF AiForgets
<1>25. CASE Expire \/ UNCHANGED vars
  BY <1>23, <1>25 DEF Expire, vars
<1>. QED
  BY <1>6, <1>7, <1>8, <1>9, <1>10, <1>11, <1>12, <1>13, <1>14, <1>15, <1>16, <1>17, <1>18, <1>19,
     <1>20, <1>21, <1>22, <1>24, <1>25 DEF Next, Serve

\* The four places of a session agree: a listed session has its file, and a
\* delete that went through has emptied all of them for good, unless a call
\* failed for it or a chat that was already answered came to be saved later.
THEOREM FourPlacesAgree == Spec => []PlacesAgree
<1>1. FileFirst /\ Emptied => PlacesAgree
  BY DEF FileFirst, Emptied, PlacesAgree
<1>2. Init => Unborn /\ FileFirst /\ Emptied
  BY PlacesInitially
<1>. QED  BY <1>1, <1>2, TypedInitially, TypedStep, PlacesStep, PTL DEF Spec

-----------------------------------------------------------------------------
(* Voice questions *)

Answering == {r \in Request : pc[r] \in {"voice", "saveVoice"}}

Unclaimed == IF key = "none" THEN 1 ELSE 0

\* Every exchange that is stored or may come to be stored goes back to a claim,
\* the first or one after an expiry, or to a call that stopped waiting.
Voiced == records + Cardinality(Answering) + Unclaimed <= 1 + slipped

LEMMA AnsweringCount ==
  IsFiniteSet(Answering) /\ Cardinality(Answering) \in Nat /\ IsFiniteSet(Answering')
BY PdfAssumption, FS_Subset, FS_CardinalityType DEF Answering

LEMMA VoicedInitially == Init => Voiced
<1>. SUFFICES ASSUME Init PROVE Voiced
  OBVIOUS
<1>1. Answering = {}
  BY DEF Init, Answering
<1>. QED  BY <1>1, FS_EmptySet DEF Init, Voiced, Unclaimed

LEMMA VoiceKept ==
  ASSUME Typed, Voiced, UNCHANGED <<key, records, slipped>>,
         \A q \in Request : pc'[q] \in {"voice", "saveVoice"} => pc[q] \in {"voice", "saveVoice"}
  PROVE  Voiced'
<1>1. Answering' \subseteq Answering
  BY DEF Answering
<1>2. Cardinality(Answering') <= Cardinality(Answering) /\ Cardinality(Answering') \in Nat
  BY <1>1, AnsweringCount, FS_Subset, FS_CardinalityType
<1>. QED  BY <1>2, AnsweringCount DEF Voiced, Unclaimed, Typed, TypeOK

LEMMA VoiceSteps ==
  ASSUME Typed, Voiced, NEW r \in Request, NEW l, Steps(r, l), UNCHANGED <<key, records, slipped>>,
         l \notin {"voice", "saveVoice"}
  PROVE  Voiced'
<1>1. \A q \in Request : pc'[q] \in {"voice", "saveVoice"} => pc[q] \in {"voice", "saveVoice"}
  BY DEF Steps
<1>. QED  BY <1>1, VoiceKept

\* One call comes to answer, or leaves off.
LEMMA AnsweringJoins ==
  ASSUME NEW r \in Request, Steps(r, "voice")
  PROVE  Cardinality(Answering') \in Nat /\ Cardinality(Answering') <= Cardinality(Answering) + 1
<1>1. Answering' \subseteq Answering \cup {r}
  BY DEF Answering, Steps
<1>2. /\ IsFiniteSet(Answering \cup {r})
      /\ Cardinality(Answering \cup {r}) = IF r \in Answering THEN Cardinality(Answering) ELSE Cardinality(Answering) + 1
  BY AnsweringCount, FS_AddElement
<1>3. Cardinality(Answering') <= Cardinality(Answering \cup {r})
  BY <1>1, <1>2, FS_Subset
<1>. QED  BY <1>2, <1>3, AnsweringCount, FS_CardinalityType

LEMMA AnsweringLeaves ==
  ASSUME NEW r \in Answering, NEW l, Steps(r, l), l \notin {"voice", "saveVoice"}
  PROVE  Cardinality(Answering') \in Nat /\ Cardinality(Answering') = Cardinality(Answering) - 1
<1>1. Answering' = Answering \ {r}
  BY DEF Answering, Steps
<1>. QED  BY <1>1, AnsweringCount, FS_RemoveElement, FS_CardinalityType

LEMMA VoiceStep == Typed /\ Voiced /\ [Next]_vars => Voiced'
<1>. SUFFICES ASSUME Typed, Voiced, [Next]_vars PROVE Voiced'
  OBVIOUS
<1>1. Working
  BY TypeParts
<1>2. CASE Upload
  <2>1. PICK r \in Request : Taken(r, IF lock = NoRequest THEN "search" ELSE "wait", sess[r])
    BY <1>2, UploadTakes
  <2>2. UNCHANGED <<key, records, slipped>>
    BY <1>2, UploadTakes
  <2>3. \A q \in Request : pc'[q] \in {"voice", "saveVoice"} => pc[q] \in {"voice", "saveVoice"}
    BY <2>1 DEF Taken
  <2>. QED  BY <2>2, <2>3, VoiceKept
<1>3. ASSUME NEW l \in {"findRow", "ask", "claim"}, NEW s \in used, Open(l, s) PROVE Voiced'
  <2>1. PICK r \in Request : Taken(r, l, s)
    BY <1>3, OpenTakes
  <2>2. UNCHANGED <<key, records, slipped>>
    BY <1>3, OpenTakes
  <2>3. \A q \in Request : pc'[q] \in {"voice", "saveVoice"} => pc[q] \in {"voice", "saveVoice"}
    BY <2>1 DEF Taken
  <2>. QED  BY <2>2, <2>3, VoiceKept
<1>4. ASSUME NEW r \in Request, Search(r) \/ AiUpload(r) PROVE Voiced'
  <2>1. UNCHANGED <<key, records, slipped>>
    BY <1>4 DEF Search, AiUpload
  <2>2. \A q \in Request : pc'[q] \in {"voice", "saveVoice"} => pc[q] \in {"voice", "saveVoice"}
    BY <1>1, <1>4 DEF Search, AiUpload, Working
  <2>. QED  BY <2>1, <2>2, VoiceKept
<1>5. ASSUME NEW r \in Request,
             \/ SetLock(r) \/ LoseAnswer(r) \/ StoreFile(r) \/ StoreRow(r)
             \/ UploadFails(r) \/ StopWaiting(r) \/ Recheck(r)
             \/ FindRow(r) \/ DeleteAi(r) \/ DeleteRow(r) \/ DeleteChats(r) \/ DeleteFile(r) \/ DeleteFails(r)
             \/ Ask(r) \/ SaveChat(r) \/ ReadFails(r)
      PROVE  Voiced'
  <2>. DEFINE L == {"aiUpload", "storeRow", "recheck", "deleteAi", "deleteRow", "deleteChats", "deleteFile", "saveChat"}
  <2>1. UNCHANGED <<key, records, slipped>>
    BY <1>5 DEF SetLock, LoseAnswer, StoreFile, StoreRow, UploadFails, StopWaiting, Recheck,
         FindRow, DeleteAi, DeleteRow, DeleteChats, DeleteFile, DeleteFails, Ask, SaveChat, ReadFails
  <2>2. Return(r) \/ Release(r, "idle") \/ \E l \in L : Goto(r, l)
    BY <1>5 DEF SetLock, LoseAnswer, StoreFile, StoreRow, UploadFails, StopWaiting, Recheck,
         FindRow, DeleteAi, DeleteRow, DeleteChats, DeleteFile, DeleteFails, Ask, SaveChat, ReadFails
  <2>3. \A q \in Request : pc'[q] \in {"voice", "saveVoice"} => pc[q] \in {"voice", "saveVoice"}
    BY <1>1, <2>2 DEF Return, Release, Goto, Working
  <2>. QED  BY <2>1, <2>3, VoiceKept
<1>. USE AnsweringCount
<1>6. ASSUME NEW r \in Request, Claim(r) PROVE Voiced'
  <2>1. UNCHANGED <<used, records, slipped>>
    BY <1>6 DEF Claim
  <2>2. CASE key = "none" /\ key' = "processing" /\ Goto(r, "voice")
    <3>1. Steps(r, "voice")
      BY <1>1, <2>1, <2>2, GotoSteps DEF Location, About
    <3>2. Cardinality(Answering') \in Nat /\ Cardinality(Answering') <= Cardinality(Answering) + 1
      BY <3>1, AnsweringJoins
    <3>. QED  BY <2>1, <2>2, <3>2 DEF Voiced, Unclaimed, Typed, TypeOK
  <2>3. CASE UNCHANGED key /\ Goto(r, "poll")
    BY <1>1, <2>1, <2>3, GotoSteps, VoiceSteps DEF Location, About
  <2>. QED  BY <1>6, <2>2, <2>3 DEF Claim
<1>7. ASSUME NEW r \in Request, PollVoice(r) PROVE Voiced'
  <2>1. CASE Return(r) /\ UNCHANGED slipped
    BY <1>1, <1>7, <2>1, ReturnSteps, VoiceSteps DEF PollVoice
  <2>2. CASE Goto(r, "voice") /\ slipped' = slipped + 1
    <3>1. UNCHANGED <<used, key, records>>
      BY <1>7 DEF PollVoice
    <3>2. Steps(r, "voice")
      BY <1>1, <2>2, <3>1, GotoSteps DEF Location, About
    <3>3. Cardinality(Answering') \in Nat /\ Cardinality(Answering') <= Cardinality(Answering) + 1
      BY <3>2, AnsweringJoins
    <3>. QED  BY <2>2, <3>1, <3>3 DEF Voiced, Unclaimed, Typed, TypeOK
  <2>. QED  BY <1>7, <2>1, <2>2 DEF PollVoice
<1>8. ASSUME NEW r \in Request, Voice(r) PROVE Voiced'
  <2>1. UNCHANGED <<key, records, slipped>> /\ pc[r] = "voice" /\ UNCHANGED used
    BY <1>8 DEF Voice
  <2>2. CASE Return(r)
    BY <1>1, <2>1, <2>2, ReturnSteps, VoiceSteps
  <2>3. CASE Goto(r, "saveVoice")
    <3>1. Steps(r, "saveVoice")
      BY <1>1, <2>1, <2>3, GotoSteps DEF Location, About
    <3>2. \A q \in Request : pc'[q] \in {"voice", "saveVoice"} => pc[q] \in {"voice", "saveVoice"}
      BY <2>1, <3>1 DEF Steps
    <3>. QED  BY <2>1, <3>2, VoiceKept
  <2>. QED  BY <1>8, <2>2, <2>3 DEF Voice
<1>9. ASSUME NEW r \in Request, SaveVoice(r) PROVE Voiced'
  <2>1. UNCHANGED <<used, key, slipped>> /\ r \in Answering /\ Goto(r, "complete")
    BY <1>9 DEF SaveVoice, Answering
  <2>2. Steps(r, "complete")
    BY <1>1, <2>1, GotoSteps DEF Location, About
  <2>3. Cardinality(Answering') \in Nat /\ Cardinality(Answering') = Cardinality(Answering) - 1
    BY <2>1, <2>2, AnsweringLeaves
  <2>4. records' = records \/ records' = records + 1
    BY <1>9 DEF SaveVoice
  <2>. QED  BY <2>1, <2>3, <2>4 DEF Voiced, Unclaimed, Typed, TypeOK
<1>10. ASSUME NEW r \in Request, Complete(r) PROVE Voiced'
  <2>1. UNCHANGED <<used, records, slipped>> /\ Return(r) /\ (key' = "none" => key = "none")
    BY <1>10 DEF Complete
  <2>2. Steps(r, "idle")
    BY <1>1, <2>1, ReturnSteps
  <2>3. Answering' \subseteq Answering
    BY <2>2 DEF Answering, Steps
  <2>4. Cardinality(Answering') \in Nat /\ Cardinality(Answering') <= Cardinality(Answering)
    BY <2>3, FS_Subset, FS_CardinalityType
  <2>. QED  BY <2>1, <2>4 DEF Voiced, Unclaimed, Typed, TypeOK
<1>11. ASSUME NEW s \in ai, AiForgets(s) PROVE Voiced'
  BY <1>11, VoiceKept DEF AiForgets
<1>12. CASE Expire
  <2>1. Answering' = Answering
    BY <1>12 DEF Expire, Answering
  <2>. QED  BY <1>12, <2>1 DEF Expire, Voiced, Unclaimed, Typed, TypeOK
<1>13. CASE UNCHANGED vars
  BY <1>13, VoiceKept DEF vars
<1>. QED
  BY <1>2, <1>3, <1>4, <1>5, <1>6, <1>7, <1>8, <1>9, <1>10, <1>11, <1>12, <1>13 DEF Next, Serve

\* A voice question is answered and stored once, however many calls carry its
\* key and whichever of them fails, and once more for each call that gave up
\* waiting and each expiry of the key.
THEOREM VoiceQuestionStoredOnce == Spec => []VoiceAnsweredOnce
<1>1. Typed /\ Voiced => VoiceAnsweredOnce
  BY AnsweringCount DEF Voiced, VoiceAnsweredOnce, Unclaimed, Typed, TypeOK
<1>. QED  BY <1>1, TypedInitially, TypedStep, VoicedInitially, VoiceStep, PTL DEF Spec
=============================================================================
