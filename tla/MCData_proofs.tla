---------------------------- MODULE MCData_proofs ----------------------------
(***************************************************************************)
(* Four parts of a conversation's data, for all values of the constants.   *)
(* The session store: whatever calls fail, messages stay in the session    *)
(* they were written in and a newer build's files stay as they are; and,   *)
(* as long as the calls that leave the wrong session current succeed,      *)
(* turns run where their session belongs.  The tally of costs: each token  *)
(* is priced once.  Oversized tool output: its excerpt and its pages are   *)
(* the whole text, and a closed store keeps no file.                       *)
(* And the request to a provider: every tool result it sends is read as    *)
(* that of its own call.                                                   *)
(***************************************************************************)
EXTENDS MCData, FiniteSetTheorems, SequenceTheorems, WellFoundedInduction, TLAPS

-----------------------------------------------------------------------------
(* The inductive invariant, in parts. *)

Places == {"local"} \cup Computers
Saved  == [version : -1..2, bound : Places, messages : Seq(Sessions)]

(* All of these are the messages of session s, and no more than it may hold. *)
Own(s, ms) == ms \in Seq({s}) /\ Len(ms) <= MaxMessages

(* There is always a current session, and a turn never loses it.             *)
TypeInv ==
    /\ disk \in [Sessions -> Saved] /\ mem \in Saved
    /\ computer \in Places /\ current \in Sessions /\ root \in Sessions
    /\ turn \in {NoSession, current}
    /\ newer \subseteq Sessions

(* The record in memory is one of the current session, and so are the files  *)
(* it is saved over and read from.                                           *)
HomeInv ==
    /\ \A s \in Sessions : Own(s, disk[s].messages)
    /\ Own(current, mem.messages)

(* What this process works on is never of a newer build.                     *)
NewerInv ==
    /\ \A s \in newer : s # current /\ disk[s].version = 2
    /\ mem.version = 1 /\ disk[current].version \in {-1, 1}

(* If a replacement is created and bound and the previous session is loaded  *)
(* again whenever that is tried, the current session has a file of this      *)
(* workspace to return to.                                                   *)
Returns == Faults \cap {"new", "bind", "restore"} = {}

PlaceInv ==
    Returns => /\ mem.bound = computer
               /\ disk[current].bound = computer /\ disk[current].version = 1

StoreInv == TypeInv /\ HomeInv /\ NewerInv /\ PlaceInv

-----------------------------------------------------------------------------
(* What the record operators give. *)
LEMMA EmptyIsOwn == ASSUME ConstantsOK, NEW s PROVE Own(s, << >>)
  BY DEF Own, ConstantsOK

LEMMA RecordIsSaved ==
    ASSUME NEW v \in -1..2, NEW b \in Places
    PROVE  /\ Record(v, b, << >>) \in Saved
           /\ Record(v, b, << >>).version = v
           /\ Record(v, b, << >>).bound = b
           /\ Record(v, b, << >>).messages = << >>
<1>1. << >> \in Seq(Sessions)
  OBVIOUS
<1> QED BY <1>1 DEF Record, Saved

LEMMA AbsentIsSaved ==
    /\ Absent \in Saved /\ Absent.version = -1 /\ Absent.messages = << >>
  BY RecordIsSaved, -1 \in -1..2, "local" \in Places DEF Absent, Places

LEMMA MigratedIsSaved ==
    ASSUME NEW r \in Saved
    PROVE  /\ migrateSession(r) \in Saved
           /\ migrateSession(r).version = 1
           /\ migrateSession(r).bound = r.bound
           /\ migrateSession(r).messages = r.messages
  BY DEF migrateSession, currentFormatVersion, Saved

(* A message of the session, more or fewer of them, are its own.             *)
LEMMA AppendIsOwn ==
    ASSUME NEW s, NEW ms \in Seq({s}), Len(ms) < MaxMessages, ConstantsOK
    PROVE  Own(s, Append(ms, s))
<1>1. Append(ms, s) \in Seq({s}) /\ Len(Append(ms, s)) = Len(ms) + 1
  OBVIOUS
<1>2. Len(ms) \in Nat /\ MaxMessages \in Nat
  BY DEF ConstantsOK
<1> QED BY <1>1, <1>2 DEF Own

LEMMA SuffixIsOwn ==
    ASSUME NEW s, NEW ms, Own(s, ms), NEW k \in 1..Len(ms), ConstantsOK
    PROVE  Own(s, SubSeq(ms, k, Len(ms)))
<1>1. ms \in Seq({s}) /\ Len(ms) \in Nat /\ MaxMessages \in Nat
  BY DEF Own, ConstantsOK
<1>2. \A i \in k..Len(ms) : ms[i] \in {s}
  BY <1>1
<1>3. /\ SubSeq(ms, k, Len(ms)) \in Seq({s})
      /\ Len(SubSeq(ms, k, Len(ms))) = IF k <= Len(ms) THEN Len(ms) - k + 1 ELSE 0
  BY <1>1, <1>2, SubSeqProperties
<1> QED BY <1>1, <1>3 DEF Own

LEMMA OwnIsOfSessions ==
    ASSUME NEW s \in Sessions, NEW ms, Own(s, ms)
    PROVE  ms \in Seq(Sessions) /\ Len(ms) <= MaxMessages /\ \A i \in 1..Len(ms) : ms[i] = s
<1>1. ms \in Seq({s})
  BY DEF Own
<1> QED BY <1>1 DEF Own

(* Writing a record of its own to the file of a session.                     *)
LEMMA FileIsOwn ==
    ASSUME TypeInv, HomeInv, NEW s \in Sessions, NEW r \in Saved, Own(s, r.messages)
    PROVE  /\ File(s, r) \in [Sessions -> Saved]
           /\ \A x \in Sessions : Own(x, File(s, r)[x].messages)
           /\ File(s, r)[s] = r
           /\ \A x \in Sessions : x # s => File(s, r)[x] = disk[x]
<1>1. /\ File(s, r) \in [Sessions -> Saved] /\ File(s, r)[s] = r
      /\ \A x \in Sessions : x # s => File(s, r)[x] = disk[x]
  BY DEF File, TypeInv
<1> QED BY <1>1 DEF HomeInv

(* A session that is loaded brings its own messages.                         *)
LEMMA LoadedIsOwn ==
    ASSUME TypeInv, HomeInv, NEW s \in Sessions
    PROVE  /\ migrateSession(disk[s]) \in Saved /\ migrateSession(disk[s]).version = 1
           /\ migrateSession(disk[s]).bound = disk[s].bound
           /\ Own(s, migrateSession(disk[s]).messages)
<1>1. disk[s] \in Saved
  BY DEF TypeInv
<1> QED BY <1>1, MigratedIsSaved DEF HomeInv

(* What an older or present build can load, it may overwrite.                *)
LEMMA LoadableIsOld ==
    ASSUME TypeInv, NewerInv, NEW s \in Sessions, ~TooNew(disk[s])
    PROVE  s \notin newer /\ disk[s].version \in {-1, 0, 1}
<1>1. disk[s].version \in -1..2
  BY DEF TypeInv, Saved
<1> QED BY <1>1 DEF NewerInv, TooNew, currentFormatVersion

-----------------------------------------------------------------------------
(* The process starts with a fresh session. *)
LEMMA StoreInit == ASSUME ConstantsOK, Init PROVE StoreInv
<1>1. PICK s \in Sessions, olds \in [Sessions -> {0, 1, 2}], bounds \in [Sessions -> Places] :
         /\ disk = [x \in Sessions |-> Record(IF x = s THEN 1 ELSE olds[x], IF x = s THEN computer ELSE bounds[x], << >>)]
         /\ current = s /\ root = s
         /\ mem = Record(1, computer, << >>)
         /\ newer = {x \in Sessions : disk[x].version = 2}
  BY DEF Init, Places
<1>2. computer \in Places /\ turn = NoSession
  BY DEF Init, Places
<1>3. mem \in Saved /\ mem.version = 1 /\ mem.bound = computer /\ mem.messages = << >>
  BY <1>1, <1>2, RecordIsSaved
<1>4. ASSUME NEW x \in Sessions
      PROVE  /\ disk[x] \in Saved /\ disk[x].messages = << >>
             /\ x = s => disk[x].version = 1 /\ disk[x].bound = computer
  <2> DEFINE v == IF x = s THEN 1 ELSE olds[x]
             b == IF x = s THEN computer ELSE bounds[x]
  <2>1. v \in -1..2 /\ b \in Places
    BY <1>2
  <2>2. disk[x] = Record(v, b, << >>)
    BY <1>1
  <2> HIDE DEF v, b
  <2>3. disk[x] \in Saved /\ disk[x].messages = << >> /\ disk[x].version = v /\ disk[x].bound = b
    BY <2>1, <2>2, RecordIsSaved
  <2> QED BY <2>3 DEF v, b
<1>5. disk \in [Sessions -> Saved]
  BY <1>1, <1>4
<1>6. TypeInv
  BY <1>1, <1>2, <1>3, <1>5 DEF TypeInv
<1>7. HomeInv
  BY <1>1, <1>3, <1>4, EmptyIsOwn DEF HomeInv
<1>8. NewerInv /\ PlaceInv
  BY <1>1, <1>3, <1>4 DEF NewerInv, PlaceInv
<1> QED BY <1>6, <1>7, <1>8 DEF StoreInv

(* A turn's message goes to the current session, which is the turn's.        *)
LEMMA AddMessageKeeps == ASSUME ConstantsOK, StoreInv, AddMessage PROVE StoreInv'
<1> USE DEF StoreInv
<1>1. turn = current /\ current \in Sessions /\ mem \in Saved /\ mem' = [mem EXCEPT !.messages = Append(@, turn)]
  BY DEF AddMessage, TypeInv
<1>2. Own(current, Append(mem.messages, current))
  <2>1. mem.messages \in Seq({current}) /\ Len(mem.messages) < MaxMessages
    BY DEF HomeInv, Own, AddMessage
  <2> QED BY <2>1, AppendIsOwn
<1>3. /\ mem' \in Saved /\ mem'.version = mem.version /\ mem'.bound = mem.bound
      /\ mem'.messages = Append(mem.messages, current)
  BY <1>1, <1>2, OwnIsOfSessions DEF Saved
<1>4. Own(current, mem'.messages)
  BY <1>2, <1>3
<1>5. disk' = disk \/ disk' = File(current, mem')
  BY DEF AddMessage
<1>6. /\ disk' \in [Sessions -> Saved] /\ \A x \in Sessions : Own(x, disk'[x].messages)
      /\ \A x \in Sessions : x # current => disk'[x] = disk[x]
      /\ disk'[current] \in {disk[current], mem'}
  <2>1. PICK r \in Saved : r = mem'
    BY <1>3
  <2>2. CASE disk' = disk
    BY <2>2 DEF TypeInv, HomeInv
  <2>3. CASE disk' = File(current, r)
    <3>1. Own(current, r.messages)
      BY <1>4, <2>1
    <3> QED BY <1>1, <2>1, <2>3, <3>1, FileIsOwn
  <2> QED BY <1>5, <2>1, <2>2, <2>3
<1>7. UNCHANGED <<computer, current, root, turn, newer>>
  BY DEF AddMessage
<1>8. TypeInv'
  BY <1>3, <1>6, <1>7 DEF TypeInv
<1>9. HomeInv'
  BY <1>4, <1>6, <1>7 DEF HomeInv
<1>10. NewerInv'
  BY <1>3, <1>6, <1>7 DEF NewerInv, TypeInv
<1>11. PlaceInv'
  BY <1>3, <1>6, <1>7 DEF PlaceInv, NewerInv
<1> QED BY <1>8, <1>9, <1>10, <1>11

LEMMA SaveKeeps == ASSUME ConstantsOK, StoreInv, Save PROVE StoreInv'
<1> USE DEF StoreInv
<1>1. /\ File(current, mem) \in [Sessions -> Saved]
      /\ \A x \in Sessions : Own(x, File(current, mem)[x].messages)
      /\ File(current, mem)[current] = mem
      /\ \A x \in Sessions : x # current => File(current, mem)[x] = disk[x]
  BY FileIsOwn DEF TypeInv, HomeInv
<1>2. disk' \in {disk, File(current, mem)} /\ UNCHANGED <<computer, current, mem, root, turn, newer>>
  BY DEF Save
<1>3. TypeInv'
  BY <1>1, <1>2 DEF TypeInv
<1>4. HomeInv'
  BY <1>1, <1>2 DEF HomeInv, TypeInv
<1>5. NewerInv' /\ PlaceInv'
  BY <1>1, <1>2 DEF NewerInv, PlaceInv, TypeInv
<1> QED BY <1>3, <1>4, <1>5

(* Compaction keeps the last messages, or gives up.                          *)
LEMMA ReplaceKeeps == ASSUME ConstantsOK, StoreInv, ReplaceMessages PROVE StoreInv'
<1> USE DEF StoreInv
<1>1. CASE UNCHANGED <<mem, disk>>
  BY <1>1 DEF ReplaceMessages, TypeInv, HomeInv, NewerInv, PlaceInv
<1>2. ASSUME NEW k \in 1..MaxMessages, k <= Len(mem.messages),
             mem' = [mem EXCEPT !.messages = SubSeq(@, k, Len(@))], disk' = File(current, mem')
      PROVE  StoreInv'
  <2>1. mem.messages \in Seq({current}) /\ current \in Sessions /\ MaxMessages \in Nat
    BY DEF HomeInv, Own, TypeInv, ConstantsOK
  <2>2. Own(current, SubSeq(mem.messages, k, Len(mem.messages)))
    <3>1. k \in 1..Len(mem.messages)
      BY <1>2, <2>1
    <3> QED BY <3>1, SuffixIsOwn DEF HomeInv
  <2>3. PICK r \in Saved : /\ r = mem' /\ r.version = mem.version /\ r.bound = mem.bound
                           /\ Own(current, r.messages)
    <3>1. SubSeq(mem.messages, k, Len(mem.messages)) \in Seq(Sessions)
      BY <2>1, <2>2, OwnIsOfSessions
    <3>2. mem \in Saved
      BY DEF TypeInv
    <3>3. /\ mem' \in Saved /\ mem'.version = mem.version /\ mem'.bound = mem.bound
          /\ mem'.messages = SubSeq(mem.messages, k, Len(mem.messages))
      BY <1>2, <3>1, <3>2 DEF Saved
    <3> QED BY <2>2, <3>3
  <2>4. /\ disk' \in [Sessions -> Saved]
        /\ \A x \in Sessions : Own(x, disk'[x].messages)
        /\ disk'[current] = r
        /\ \A x \in Sessions : x # current => disk'[x] = disk[x]
    BY <1>2, <2>1, <2>3, FileIsOwn
  <2>5. turn' = NoSession /\ UNCHANGED <<computer, current, root, newer>>
    BY DEF ReplaceMessages
  <2>6. TypeInv' /\ HomeInv'
    BY <2>3, <2>4, <2>5 DEF TypeInv, HomeInv
  <2>7. NewerInv' /\ PlaceInv'
    BY <2>1, <2>3, <2>4, <2>5 DEF NewerInv, PlaceInv, TypeInv
  <2> QED BY <2>6, <2>7
<1> QED BY <1>1, <1>2 DEF ReplaceMessages

LEMMA TurnKeeps == ASSUME ConstantsOK, StoreInv, StartTurn \/ TurnEnds PROVE StoreInv'
  BY DEF StoreInv, StartTurn, TurnEnds, TypeInv, HomeInv, NewerInv, PlaceInv

(* What becomes current with a file just written keeps all but the place.    *)
LEMMA SwitchKeeps ==
    ASSUME ConstantsOK, StoreInv, NEW s \in Sessions, NEW r \in Saved, Own(s, r.messages),
           r.version = 1, s \notin newer, disk' = File(s, r), current' = s, mem' = r,
           root' \in Sessions, turn' = NoSession, computer' \in Places, newer' = newer
    PROVE  /\ TypeInv' /\ HomeInv' /\ NewerInv'
           /\ r.bound = computer' => PlaceInv'
<1>1. /\ disk' \in [Sessions -> Saved] /\ \A x \in Sessions : Own(x, disk'[x].messages)
      /\ disk'[s] = r /\ \A x \in Sessions : x # s => disk'[x] = disk[x]
  BY FileIsOwn DEF StoreInv
<1>2. TypeInv' /\ HomeInv'
  BY <1>1 DEF StoreInv, TypeInv, HomeInv
<1>3. NewerInv' /\ (r.bound = computer' => PlaceInv')
  BY <1>1 DEF StoreInv, NewerInv, PlaceInv, TypeInv
<1> QED BY <1>2, <1>3

(* A session of this workspace becomes the current one; another is loaded    *)
(* and left again, if the previous one can be loaded.                        *)
LEMMA ResumeKeeps ==
    ASSUME ConstantsOK, StoreInv, NEW s \in Sessions, resumeSessionByID(s) PROVE StoreInv'
<1>1. /\ turn = NoSession /\ turn' = turn /\ UNCHANGED <<computer, newer>> /\ s \notin newer
      /\ disk[s].version \in {-1, 0, 1} /\ computer \in Places /\ root \in Sessions /\ current \in Sessions
  BY LoadableIsOld DEF resumeSessionByID, StoreInv, TypeInv
<1>2. PICK r \in Saved : /\ r = migrateSession(disk[s]) /\ r.version = 1 /\ r.bound = disk[s].bound
                         /\ Own(s, r.messages)
  BY LoadedIsOwn DEF StoreInv
<1>3. CASE UNCHANGED <<disk, current, mem, root>>
  BY <1>1, <1>3 DEF StoreInv, TypeInv, HomeInv, NewerInv, PlaceInv
<1>4. CASE /\ disk' = File(s, r) /\ ValidateWorkspace(disk[s])
           /\ current' = s /\ mem' = disk'[s] /\ root' = s
  <2>1. mem' = r
    BY <1>2, <1>4, FileIsOwn DEF StoreInv
  <2> QED BY <1>1, <1>2, <1>4, <2>1, SwitchKeeps DEF StoreInv, ValidateWorkspace
<1>5. CASE disk' = File(s, r) /\ restorePreviousSession(s) /\ UNCHANGED root
  <2>1. /\ disk' \in [Sessions -> Saved] /\ \A x \in Sessions : Own(x, disk'[x].messages)
        /\ disk'[s] = r /\ \A x \in Sessions : x # s => disk'[x] = disk[x]
    BY <1>2, <1>5, FileIsOwn DEF StoreInv
  <2>2. CASE mem' = migrateSession(disk[current]) /\ UNCHANGED current
    <3>1. PICK q \in Saved : /\ q = mem' /\ q.version = 1 /\ q.bound = disk[current].bound
                             /\ Own(current, q.messages)
      BY <1>1, <2>2, LoadedIsOwn DEF StoreInv
    <3>2. TypeInv' /\ HomeInv'
      BY <1>1, <1>5, <2>1, <2>2, <3>1 DEF StoreInv, TypeInv, HomeInv
    <3>3. NewerInv' /\ PlaceInv'
      <4>1. \/ current = s /\ disk'[current] = r
            \/ current # s /\ disk'[current] = disk[current]
        BY <1>1, <2>1
      <4>2. disk'[current].version \in {1, disk[current].version} /\ disk'[current].bound = disk[current].bound
        BY <1>2, <4>1
      <4>3. \A x \in newer : x # s /\ x # current /\ disk'[x] = disk[x]
        BY <1>1, <2>1 DEF StoreInv, NewerInv, TypeInv
      <4>4. NewerInv'
        BY <1>1, <2>2, <3>1, <4>2, <4>3 DEF StoreInv, NewerInv
      <4>5. PlaceInv'
        BY <1>1, <2>2, <3>1, <4>2 DEF StoreInv, PlaceInv
      <4> QED BY <4>4, <4>5
    <3> QED BY <3>2, <3>3 DEF StoreInv
  <2>3. CASE current' = s /\ mem' = migrateSession(disk[s]) /\ ~Returns
    <3>1. TypeInv' /\ HomeInv' /\ NewerInv'
      BY <1>1, <1>2, <1>5, <2>3, SwitchKeeps
    <3> QED BY <2>3, <3>1 DEF StoreInv, PlaceInv
  <2>4. CASE current' = s /\ mem' = migrateSession(disk[s]) /\ Returns
    <3>1. Loadable(current)
      BY <1>1, <2>4, AbsentIsSaved
         DEF StoreInv, PlaceInv, Loadable, TooNew, currentFormatVersion
    <3>2. mem' = migrateSession(disk[current]) /\ UNCHANGED current
      BY <1>5, <2>4, <3>1 DEF restorePreviousSession, Outcome, Returns
    <3> QED BY <2>2, <3>2
  <2> QED BY <1>5, <2>2, <2>3, <2>4 DEF restorePreviousSession
<1> QED BY <1>2, <1>3, <1>4, <1>5 DEF resumeSessionByID

LEMMA DeleteOtherKeeps ==
    ASSUME ConstantsOK, StoreInv, NEW s \in Sessions, DeleteOther(s) PROVE StoreInv'
<1>1. /\ s # current /\ s \notin newer /\ disk' = File(s, Absent)
      /\ UNCHANGED <<computer, current, mem, root, turn, newer>>
  BY LoadableIsOld DEF DeleteOther, StoreInv
<1>2. /\ disk' \in [Sessions -> Saved] /\ \A x \in Sessions : Own(x, disk'[x].messages)
      /\ \A x \in Sessions : x # s => disk'[x] = disk[x]
  BY <1>1, AbsentIsSaved, EmptyIsOwn, FileIsOwn DEF StoreInv
<1>3. TypeInv' /\ HomeInv'
  BY <1>1, <1>2 DEF StoreInv, TypeInv, HomeInv
<1>4. NewerInv' /\ PlaceInv'
  BY <1>1, <1>2 DEF StoreInv, NewerInv, PlaceInv, TypeInv
<1> QED BY <1>3, <1>4 DEF StoreInv

(* Each way a delete of the active session ends, or stops.                   *)
LEMMA DeleteActiveKeeps ==
    ASSUME ConstantsOK, StoreInv, NEW s \in Sessions, DeleteActive(s) PROVE StoreInv'
<1>1. PICK b \in Saved : b = Record(currentFormatVersion, computer, << >>)
  BY RecordIsSaved, 1 \in -1..2 DEF StoreInv, TypeInv, currentFormatVersion
<1>2. b.version = 1 /\ b.bound = computer /\ b.messages = << >> /\ Own(s, b.messages)
  BY <1>1, RecordIsSaved, EmptyIsOwn, 1 \in -1..2 DEF StoreInv, TypeInv, currentFormatVersion
<1>3. PICK n \in Saved : n = New
  BY RecordIsSaved, 1 \in -1..2, "local" \in Places DEF New, currentFormatVersion, Places
<1>4. n.version = 1 /\ n.messages = << >> /\ Own(s, n.messages)
  BY <1>3, RecordIsSaved, EmptyIsOwn, 1 \in -1..2, "local" \in Places DEF New, currentFormatVersion, Places
<1>5. /\ turn = NoSession /\ UNCHANGED <<computer, turn, newer>> /\ computer \in Places
      /\ current \in Sessions /\ root \in Sessions /\ newer \subseteq Sessions
  BY DEF DeleteActive, StoreInv, TypeInv
<1>6. disk[s].version = -1 /\ s # current /\ s \notin newer /\ current \notin newer
  BY AbsentIsSaved DEF DeleteActive, There, StoreInv, NewerInv
<1>7. PICK new \in Outcome("new"), bind \in Outcome("bind"), del \in Outcome("delete"), cleanup \in Outcome("cleanup") :
         \/ ~new /\ disk' = disk /\ current' = s /\ mem' = n /\ root' = root
         \/ new /\ ~bind /\ disk' = File(s, n) /\ current' = s /\ mem' = b /\ root' = root
         \/ /\ mem' = migrateSession(disk[current]) /\ root' = current
            /\ UNCHANGED <<disk, current>>
         \/ /\ disk' = [File(s, b) EXCEPT ![current] = Absent]
            /\ current' = s /\ mem' = b /\ root' \in {s, root}
  BY <1>1, <1>3 DEF DeleteActive
<1>8. CASE ~new /\ disk' = disk /\ current' = s /\ mem' = n /\ root' = root
  <2>1. ~Returns
    BY <1>8 DEF Outcome, Returns
  <2>2. TypeInv' /\ HomeInv'
    BY <1>4, <1>5, <1>8 DEF StoreInv, TypeInv, HomeInv
  <2>3. NewerInv' /\ PlaceInv'
    BY <1>4, <1>5, <1>6, <1>8, <2>1 DEF StoreInv, NewerInv, PlaceInv
  <2> QED BY <2>2, <2>3 DEF StoreInv
<1>9. CASE new /\ ~bind /\ disk' = File(s, n) /\ current' = s /\ mem' = b /\ root' = root
  <2>1. ~Returns
    BY <1>9 DEF Outcome, Returns
  <2>2. /\ disk' \in [Sessions -> Saved] /\ \A x \in Sessions : Own(x, disk'[x].messages)
        /\ disk'[s] = n /\ \A x \in Sessions : x # s => disk'[x] = disk[x]
    BY <1>4, <1>9, FileIsOwn DEF StoreInv
  <2>3. TypeInv' /\ HomeInv'
    BY <1>2, <1>5, <1>9, <2>2 DEF TypeInv, HomeInv
  <2>4. NewerInv' /\ PlaceInv'
    BY <1>2, <1>4, <1>5, <1>6, <1>9, <2>1, <2>2 DEF StoreInv, NewerInv, PlaceInv
  <2> QED BY <2>3, <2>4 DEF StoreInv
<1>10. CASE /\ mem' = migrateSession(disk[current]) /\ root' = current
            /\ UNCHANGED <<disk, current>>
  <2>1. PICK q \in Saved : /\ q = mem' /\ q.version = 1 /\ q.bound = disk[current].bound
                           /\ Own(current, q.messages)
    BY <1>5, <1>10, LoadedIsOwn DEF StoreInv
  <2>2. TypeInv' /\ HomeInv'
    BY <1>5, <1>10, <2>1 DEF StoreInv, TypeInv, HomeInv
  <2>3. NewerInv' /\ PlaceInv'
    BY <1>5, <1>10, <2>1 DEF StoreInv, NewerInv, PlaceInv
  <2> QED BY <2>2, <2>3 DEF StoreInv
<1>11. CASE /\ disk' = [File(s, b) EXCEPT ![current] = Absent]
            /\ current' = s /\ mem' = b /\ root' \in {s, root}
  <2>1. /\ File(s, b) \in [Sessions -> Saved] /\ \A x \in Sessions : Own(x, File(s, b)[x].messages)
        /\ File(s, b)[s] = b /\ \A x \in Sessions : x # s => File(s, b)[x] = disk[x]
    BY <1>2, FileIsOwn DEF StoreInv
  <2>2. /\ disk' \in [Sessions -> Saved] /\ disk'[s] = b /\ disk'[current] = Absent
        /\ \A x \in Sessions : x # s /\ x # current => disk'[x] = disk[x]
    BY <1>5, <1>6, <1>11, <2>1, AbsentIsSaved
  <2>3. \A x \in Sessions : Own(x, disk'[x].messages)
    BY <1>2, <2>2, AbsentIsSaved, EmptyIsOwn DEF StoreInv, HomeInv
  <2>4. TypeInv' /\ HomeInv'
    BY <1>2, <1>5, <1>11, <2>2, <2>3 DEF TypeInv, HomeInv
  <2>5. NewerInv' /\ PlaceInv'
    BY <1>2, <1>5, <1>6, <1>11, <2>2 DEF StoreInv, NewerInv, PlaceInv
  <2> QED BY <2>4, <2>5 DEF StoreInv
<1> QED BY <1>7, <1>8, <1>9, <1>10, <1>11

(* The next process starts in a session of its workspace, or a new one.      *)
LEMMA RestartKeeps == ASSUME ConstantsOK, StoreInv, Restart PROVE StoreInv'
<1>1. turn' = NoSession /\ computer' \in Places /\ newer' = newer
  BY DEF Restart, Places
<1>2. PICK s \in Sessions :
         \/ /\ Loadable(s) /\ disk[s].bound = computer'
            /\ disk' = File(s, migrateSession(disk[s]))
            /\ current' = s /\ mem' = disk'[s] /\ root' = s
         \/ /\ s \notin There
            /\ disk' = File(s, Record(currentFormatVersion, computer', << >>))
            /\ current' = s /\ mem' = disk'[s] /\ root' = s
  BY DEF Restart
<1>3. PICK r \in Saved : /\ r.version = 1 /\ r.bound = computer' /\ Own(s, r.messages)
                         /\ disk' = File(s, r) /\ s \notin newer
  <2>1. CASE Loadable(s) /\ disk[s].bound = computer' /\ disk' = File(s, migrateSession(disk[s]))
    BY <2>1, LoadedIsOwn, LoadableIsOld DEF StoreInv, Loadable
  <2>2. CASE s \notin There /\ disk' = File(s, Record(currentFormatVersion, computer', << >>))
    <3>1. PICK c \in Places : c = computer'
      BY <1>1
    <3>2. s \notin newer
      BY <2>2, AbsentIsSaved DEF There, StoreInv, NewerInv
    <3>3. /\ Record(currentFormatVersion, c, << >>) \in Saved
          /\ Record(currentFormatVersion, c, << >>).version = 1
          /\ Record(currentFormatVersion, c, << >>).bound = c
          /\ Own(s, Record(currentFormatVersion, c, << >>).messages)
      BY RecordIsSaved, EmptyIsOwn, 1 \in -1..2 DEF currentFormatVersion
    <3> QED BY <2>2, <3>1, <3>2, <3>3
  <2> QED BY <1>2, <2>1, <2>2
<1>4. mem' = r
  BY <1>2, <1>3, FileIsOwn DEF StoreInv
<1> QED BY <1>1, <1>2, <1>3, <1>4, SwitchKeeps DEF StoreInv

LEMMA NewerBuildKeeps ==
    ASSUME ConstantsOK, StoreInv, NEW s \in Sessions, NewerBuild(s) PROVE StoreInv'
<1>1. /\ s # current /\ newer' = newer \cup {s} /\ disk' = File(s, [disk[s] EXCEPT !.version = 2])
      /\ UNCHANGED <<computer, current, mem, root, turn>>
  BY DEF NewerBuild
<1>2. PICK r \in Saved : /\ r = [disk[s] EXCEPT !.version = 2] /\ r.version = 2
                         /\ Own(s, r.messages)
  <2>1. disk[s] \in Saved /\ Own(s, disk[s].messages)
    BY DEF StoreInv, TypeInv, HomeInv
  <2> DEFINE q == [disk[s] EXCEPT !.version = 2]
  <2>2. q \in Saved /\ q.version = 2 /\ q.messages = disk[s].messages
    BY <2>1 DEF Saved
  <2> HIDE DEF q
  <2>3. Own(s, q.messages)
    BY <2>1, <2>2
  <2> QED BY <2>2, <2>3 DEF q
<1>3. /\ disk' \in [Sessions -> Saved] /\ \A x \in Sessions : Own(x, disk'[x].messages)
      /\ disk'[s] = r /\ \A x \in Sessions : x # s => disk'[x] = disk[x]
  <2>1. disk' = File(s, r)
    BY <1>1, <1>2
  <2>2. TypeInv /\ HomeInv /\ r \in Saved /\ Own(s, r.messages)
    BY <1>2 DEF StoreInv
  <2>3. /\ File(s, r) \in [Sessions -> Saved]
        /\ \A x \in Sessions : Own(x, File(s, r)[x].messages)
        /\ File(s, r)[s] = r
        /\ \A x \in Sessions : x # s => File(s, r)[x] = disk[x]
    BY <2>2, FileIsOwn
  <2> QED BY <2>1, <2>3
<1>4. TypeInv' /\ HomeInv'
  BY <1>1, <1>3 DEF StoreInv, TypeInv, HomeInv
<1>5. NewerInv' /\ PlaceInv'
  BY <1>1, <1>2, <1>3 DEF StoreInv, NewerInv, PlaceInv, TypeInv
<1> QED BY <1>4, <1>5 DEF StoreInv

-----------------------------------------------------------------------------
(* The invariant holds, whatever calls may fail. *)
THEOREM StoreStaysCorrect == ASSUME ConstantsOK PROVE Spec => []StoreInv
<1>1. Init => StoreInv
  BY StoreInit
<1>2. StoreInv /\ [Next]_vars => StoreInv'
  <2>1. StoreInv /\ UNCHANGED vars => StoreInv'
    BY DEF vars, StoreInv, TypeInv, HomeInv, NewerInv, PlaceInv
  <2> QED BY <2>1, AddMessageKeeps, SaveKeeps, ReplaceKeeps, TurnKeeps, RestartKeeps, ResumeKeeps,
             DeleteOtherKeeps, DeleteActiveKeeps, NewerBuildKeeps DEF Next
<1> QED BY <1>1, <1>2, PTL DEF Spec

(* Whatever is resumed, deleted or restarted and whatever write fails, every *)
(* message in the file of a session was written in a turn of that session,   *)
(* and what a newer build wrote is not written over.                         *)
THEOREM MessagesAreHome ==
    ASSUME ConstantsOK PROVE Spec => [](TypeOK /\ MessagesAreTheirs /\ NewerIsKept)
<1>1. StoreInv => TypeOK
  BY DEF StoreInv, TypeInv, HomeInv, Own, TypeOK
<1>2. StoreInv => MessagesAreTheirs
  BY OwnIsOfSessions DEF StoreInv, HomeInv, MessagesAreTheirs
<1>3. StoreInv => NewerIsKept
  BY DEF StoreInv, NewerInv, NewerIsKept, currentFormatVersion
<1> QED BY <1>1, <1>2, <1>3, StoreStaysCorrect, PTL

(* And a turn runs in a session of this workspace, as long as a replacement  *)
(* is created and bound and the session to return to can be loaded.          *)
THEOREM TurnsAreInPlace ==
    ASSUME ConstantsOK, Returns PROVE Spec => []MessagesStayHome
<1>1. StoreInv => TurnsMatchWorkspace
  BY DEF StoreInv, PlaceInv, TurnsMatchWorkspace
<1> QED BY <1>1, StoreStaysCorrect, MessagesAreHome, PTL DEF MessagesStayHome

-----------------------------------------------------------------------------
(* Induction, as the choice of a least counterexample.                       *)

LEMMA Smallest ==
    ASSUME NEW S, IsFiniteSet(S), NEW T \in SUBSET (SUBSET S), T # {}
    PROVE  \E X \in T : \A Y \in T : ~(Y \subseteq X /\ Y # X)
<1>1. IsWellFoundedOn(StrictSubsetOrdering(S), SUBSET S)
  <2>1. FiniteSubsetsOf(S) = SUBSET S
    BY FS_FiniteSubsetsOfFinite
  <2> QED BY <2>1, FS_StrictSubsetOrderingWellFounded
<1>2. PICK X \in T : \A Y \in T : ~(<<Y, X>> \in StrictSubsetOrdering(S))
  BY <1>1, WFMin
<1>3. ASSUME NEW Y \in T, Y \subseteq X, Y # X PROVE FALSE
  BY <1>2, <1>3 DEF StrictSubsetOrdering
<1> QED BY <1>3

LEMMA Least ==
    ASSUME NEW N \in Nat, NEW T \in SUBSET (0..N), T # {}
    PROVE  \E n \in T : \A m \in T : n <= m
<1> DEFINE S == 1..N
           C == {1..n : n \in T}
<1>1. IsFiniteSet(S)
  BY FS_Interval
<1>2. C \in SUBSET (SUBSET S) /\ C # {}
  <2>1. \A n \in T : 1..n \in SUBSET S
    OBVIOUS
  <2> QED BY <2>1
<1>3. PICK X \in C : \A Y \in C : ~(Y \subseteq X /\ Y # X)
  <2> HIDE DEF C, S
  <2> QED BY <1>1, <1>2, Smallest
<1>4. PICK n \in T : X = 1..n
  OBVIOUS
<1>5. ASSUME NEW m \in T, m < n PROVE FALSE
  <2>1. 1..m \in C /\ 1..m \subseteq 1..n /\ 1..m # 1..n
    BY <1>5
  <2> QED BY <1>3, <1>4, <2>1
<1> QED BY <1>5

-----------------------------------------------------------------------------
(* CostTally: sums of shares, over any finite set.                           *)

LEMMA Without ==
    ASSUME NEW S, IsFiniteSet(S), NEW s \in SUBSET S, NEW x \in s
    PROVE  /\ Cardinality(s) \in Nat /\ Cardinality(s) > 0 /\ Cardinality(s) <= Cardinality(S)
           /\ s \ {x} \in SUBSET S /\ Cardinality(s \ {x}) = Cardinality(s) - 1
<1>1. IsFiniteSet(s) /\ Cardinality(s) <= Cardinality(S)
  BY FS_Subset
<1>2. Cardinality(s) \in Nat /\ Cardinality(s \ {x}) = Cardinality(s) - 1 /\ Cardinality(s) # 0
  BY <1>1, FS_CardinalityType, FS_RemoveElement, FS_EmptySet
<1> QED BY <1>1, <1>2

Picked(s) == CHOOSE x \in s : TRUE
(* f sums sh over the subsets of S that have at most n elements. *)
Adds(f, sh, n, S) ==
    /\ f = [s \in {s \in SUBSET S : Cardinality(s) <= n} |-> f[s]]
    /\ \A s \in SUBSET S : Cardinality(s) <= n =>
           f[s] = IF s = {} THEN 0 ELSE sh[Picked(s)] + f[s \ {Picked(s)}]

AddsUp(f, sh, S) ==
    f = [s \in SUBSET S |-> IF s = {} THEN 0 ELSE sh[Picked(s)] + f[s \ {Picked(s)}]]

LEMMA SumExists ==
    ASSUME NEW S, IsFiniteSet(S), NEW sh
    PROVE  \E f : AddsUp(f, sh, S)
<1> DEFINE N == Cardinality(S)
           T == {n \in 0..N : ~\E f : Adds(f, sh, n, S)}
<1>0. N \in Nat /\ \A s \in SUBSET S : Cardinality(s) \in Nat /\ Cardinality(s) <= N
  BY FS_CardinalityType, FS_Subset
<1>1. ASSUME T # {} PROVE FALSE
  <2>1. PICK n \in T : \A m \in T : n <= m
    <3> T \in SUBSET (0..N)
      OBVIOUS
    <3> HIDE DEF T, N
    <3> QED BY <1>0, <1>1, Least
  <2>2. n \in 0..N /\ ~\E f : Adds(f, sh, n, S)
    OBVIOUS
  <2> HIDE DEF T
  <2>3. n # 0
    <3> DEFINE f == [s \in {s \in SUBSET S : Cardinality(s) <= 0} |-> 0]
    <3>1. \A s \in SUBSET S : Cardinality(s) <= 0 => s = {} /\ f[s] = 0
      <4> TAKE s \in SUBSET S
      <4> HAVE Cardinality(s) <= 0
      <4>1. IsFiniteSet(s) /\ Cardinality(s) = 0
        BY <1>0, FS_Subset
      <4> QED BY <4>1, FS_EmptySet
    <3>2. f = [s \in {s \in SUBSET S : Cardinality(s) <= 0} |-> f[s]]
      OBVIOUS
    <3> HIDE DEF f
    <3>3. Adds(f, sh, 0, S)
      BY <3>1, <3>2 DEF Adds
    <3> QED BY <2>2, <3>3
  <2>4. n - 1 \in 0..N /\ ~(n <= n - 1)
    BY <1>0, <2>2, <2>3
  <2>5. PICK f : Adds(f, sh, n - 1, S)
    BY <2>1, <2>4 DEF T
  <2> DEFINE g == [s \in {s \in SUBSET S : Cardinality(s) <= n} |->
                      IF Cardinality(s) <= n - 1 THEN f[s]
                      ELSE IF s = {} THEN 0 ELSE sh[Picked(s)] + f[s \ {Picked(s)}]]
  <2>6. g = [s \in {s \in SUBSET S : Cardinality(s) <= n} |-> g[s]]
    OBVIOUS
  <2>7. ASSUME NEW s \in SUBSET S, Cardinality(s) <= n
        PROVE  g[s] = IF s = {} THEN 0 ELSE sh[Picked(s)] + g[s \ {Picked(s)}]
    <3> DEFINE without == s \ {Picked(s)}
    <3>1. s # {} => Picked(s) \in s
      BY Zenon DEF Picked
    <3>2. s # {} => without \in SUBSET S /\ Cardinality(without) = Cardinality(s) - 1
      BY <3>1, Without
    <3>3. s # {} => Cardinality(without) <= n - 1 /\ Cardinality(without) <= n
      BY <1>0, <2>2, <2>7, <3>2
    <3>4. s # {} => g[without] = f[without]
      BY <3>2, <3>3
    <3>5. g[s] = IF s = {} THEN 0 ELSE sh[Picked(s)] + f[without]
      <4>1. g[s] = IF Cardinality(s) <= n - 1 THEN f[s]
                   ELSE IF s = {} THEN 0 ELSE sh[Picked(s)] + f[without]
        BY <2>7
      <4>2. Cardinality(s) <= n - 1 => f[s] = IF s = {} THEN 0 ELSE sh[Picked(s)] + f[without]
        BY <2>5 DEF Adds
      <4> HIDE DEF g, without
      <4> QED BY <4>1, <4>2
    <3> HIDE DEF g
    <3> QED BY <3>4, <3>5
  <2> HIDE DEF g
  <2>8. Adds(g, sh, n, S)
    BY <2>6, <2>7 DEF Adds
  <2> QED BY <2>2, <2>8
<1>2. PICK f : Adds(f, sh, N, S)
  <2>1. N \in 0..N
    BY <1>0
  <2> HIDE DEF N
  <2> QED BY <1>1, <2>1
<1>3. {s \in SUBSET S : Cardinality(s) <= N} = SUBSET S
  BY <1>0
<1>4. f = [s \in SUBSET S |-> f[s]]
  BY <1>2, <1>3 DEF Adds
<1>5. \A s \in SUBSET S : f[s] = IF s = {} THEN 0 ELSE sh[Picked(s)] + f[s \ {Picked(s)}]
  BY <1>0, <1>2 DEF Adds
<1>6. f = [s \in SUBSET S |-> IF s = {} THEN 0 ELSE sh[Picked(s)] + f[s \ {Picked(s)}]]
  BY <1>4, <1>5
<1> QED BY <1>6 DEF AddsUp


Sums(f, sh, S) ==
    \A s \in SUBSET S : f[s] = IF s = {} THEN 0 ELSE sh[Picked(s)] + f[s \ {Picked(s)}]

LEMMA PickedIs == ASSUME NEW s, s # {} PROVE Picked(s) \in s
BY Zenon DEF Picked

LEMMA TotalIs ==
    ASSUME NEW S, IsFiniteSet(S), NEW sh, DOMAIN sh = S
    PROVE  \E f : Sums(f, sh, S) /\ Costs!Total(sh) = f[S]
<1> DEFINE d == CHOOSE f : f = [s \in SUBSET S |-> IF s = {} THEN 0 ELSE sh[Picked(s)] + f[s \ {Picked(s)}]]
<1>1. d = [s \in SUBSET S |-> IF s = {} THEN 0 ELSE sh[Picked(s)] + d[s \ {Picked(s)}]]
  <2>1. \E f : AddsUp(f, sh, S)
    BY SumExists
  <2> QED BY <2>1, Zenon DEF AddsUp
<1>2. Costs!Total(sh) = d[S]
  <2>1. Costs!Total(sh) =
          (CHOOSE f : f = [s \in SUBSET (DOMAIN sh) |->
                              IF s = {} THEN 0 ELSE sh[Picked(s)] + f[s \ {Picked(s)}]])[DOMAIN sh]
    BY Zenon DEF Costs!Total, Costs!FoldFunction, Costs!FoldFunctionOnSet, Costs!MapThenFoldSet, Picked
  <2> QED BY <2>1
<1> HIDE DEF d
<1>3. Sums(d, sh, S)
  <2> SUFFICES ASSUME NEW s \in SUBSET S PROVE d[s] = IF s = {} THEN 0 ELSE sh[Picked(s)] + d[s \ {Picked(s)}]
    BY DEF Sums
  <2> QED BY <1>1
<1> QED BY <1>2, <1>3

LEMMA SumTyped ==
    ASSUME NEW S, IsFiniteSet(S), NEW sh \in [S -> Nat], NEW f, Sums(f, sh, S)
    PROVE  \A s \in SUBSET S : f[s] \in Nat
<1> DEFINE T == {s \in SUBSET S : f[s] \notin Nat}
<1> SUFFICES ASSUME T # {} PROVE FALSE
  OBVIOUS
<1>1. PICK s \in T : \A t \in T : ~(t \subseteq s /\ t # s)
  <2> T \in SUBSET (SUBSET S)
    OBVIOUS
  <2> HIDE DEF T
  <2> QED BY Smallest
<1>2. s \in SUBSET S /\ f[s] \notin Nat /\ s # {}
  <2>1. s \in SUBSET S /\ f[s] \notin Nat
    OBVIOUS
  <2> HIDE DEF T
  <2>2. s = {} => f[s] = 0
    BY <2>1 DEF Sums
  <2> QED BY <2>1, <2>2
<1>3. Picked(s) \in s
  BY <1>2, PickedIs
<1> DEFINE t == s \ {Picked(s)}
<1>4. t \in SUBSET S /\ t \subseteq s /\ t # s
  BY <1>3
<1>5. f[t] \in Nat
  <2> HIDE DEF t
  <2> QED BY <1>1, <1>4
<1>6. f[s] = sh[Picked(s)] + f[t] /\ sh[Picked(s)] \in Nat
  BY <1>2, <1>3 DEF Sums
<1> HIDE DEF t
<1>7. f[s] \in Nat
  BY <1>5, <1>6
<1> QED BY <1>7

(* Whichever element is taken out first, the sum is the same. *)
Splits(f, sh, S) == \A s \in SUBSET S : \A x \in s : f[s] = sh[x] + f[s \ {x}]

LEMMA SumSplits ==
    ASSUME NEW S, IsFiniteSet(S), NEW sh \in [S -> Nat], NEW f, Sums(f, sh, S)
    PROVE  Splits(f, sh, S)
<1> DEFINE T == {s \in SUBSET S : ~\A x \in s : f[s] = sh[x] + f[s \ {x}]}
<1> SUFFICES ASSUME T # {} PROVE FALSE
  BY DEF Splits
<1>1. PICK s \in T : \A t \in T : ~(t \subseteq s /\ t # s)
  <2> T \in SUBSET (SUBSET S)
    OBVIOUS
  <2> HIDE DEF T
  <2> QED BY Smallest
<1>2. PICK x \in s : f[s] # sh[x] + f[s \ {x}]
  OBVIOUS
<1> DEFINE y == Picked(s)
<1>3. y \in s
  BY <1>2, PickedIs
<1>4. f[s] = sh[y] + f[s \ {y}]
  BY <1>2 DEF Sums
<1> HIDE DEF y
<1>5. x # y
  BY <1>2, <1>4
<1> DEFINE u == s \ {y}  v == s \ {x}  w == (s \ {y}) \ {x}
<1>6. /\ u \in SUBSET S /\ u \subseteq s /\ u # s /\ x \in u /\ u \ {x} = w
      /\ v \in SUBSET S /\ v \subseteq s /\ v # s /\ y \in v /\ v \ {y} = w
      /\ w \in SUBSET S
  BY <1>2, <1>3, <1>5
<1>7. u \notin T /\ v \notin T
  <2> HIDE DEF u, v, w, T
  <2> QED BY <1>1, <1>6
<1>8. f[u] = sh[x] + f[w] /\ f[v] = sh[y] + f[w]
  <2> HIDE DEF u, v, w
  <2> QED BY <1>6, <1>7
<1>9. f[w] \in Nat /\ sh[x] \in Nat /\ sh[y] \in Nat
  <2> HIDE DEF w, T
  <2>1. x \in S /\ y \in S
    BY <1>3 DEF T
  <2> QED BY <1>6, <2>1, SumTyped
<1> HIDE DEF w
<1>10. f[s] = sh[x] + f[v]
  <2> HIDE DEF v
  <2> QED BY <1>4, <1>8, <1>9
<1> QED BY <1>2, <1>10

(* A sum does not depend on what is not in it. *)
LEMMA SumSame ==
    ASSUME NEW S, IsFiniteSet(S), NEW sh, NEW sh2, NEW f, NEW g, Sums(f, sh, S), Sums(g, sh2, S),
           NEW m, \A x \in S \ {m} : sh[x] = sh2[x]
    PROVE  \A s \in SUBSET (S \ {m}) : f[s] = g[s]
<1> DEFINE T == {s \in SUBSET (S \ {m}) : f[s] # g[s]}
<1> SUFFICES ASSUME T # {} PROVE FALSE
  OBVIOUS
<1>1. PICK s \in T : \A t \in T : ~(t \subseteq s /\ t # s)
  <2> T \in SUBSET (SUBSET S)
    OBVIOUS
  <2> HIDE DEF T
  <2> QED BY Smallest
<1>2. s \in SUBSET S /\ s \in SUBSET (S \ {m}) /\ f[s] # g[s]
  OBVIOUS
<1>3. s # {}
  BY <1>2 DEF Sums
<1>4. Picked(s) \in s
  BY <1>3, PickedIs
<1> DEFINE t == s \ {Picked(s)}
<1>5. t \in SUBSET (S \ {m}) /\ t \subseteq s /\ t # s
  BY <1>2, <1>4
<1>6. f[t] = g[t]
  <2> HIDE DEF t
  <2> QED BY <1>1, <1>5
<1>7. f[s] = sh[Picked(s)] + f[t] /\ g[s] = sh2[Picked(s)] + g[t]
  BY <1>2, <1>3 DEF Sums
<1>8. sh[Picked(s)] = sh2[Picked(s)]
  BY <1>2, <1>4
<1> HIDE DEF t, T
<1> QED BY <1>2, <1>6, <1>7, <1>8

LEMMA SumOfNone ==
    ASSUME NEW S, IsFiniteSet(S), NEW sh, NEW f, Sums(f, sh, S), \A x \in S : sh[x] = 0
    PROVE  \A s \in SUBSET S : f[s] = 0
<1> DEFINE T == {s \in SUBSET S : f[s] # 0}
<1> SUFFICES ASSUME T # {} PROVE FALSE
  OBVIOUS
<1>1. PICK s \in T : \A t \in T : ~(t \subseteq s /\ t # s)
  <2> T \in SUBSET (SUBSET S)
    OBVIOUS
  <2> HIDE DEF T
  <2> QED BY Smallest
<1>2. s \in SUBSET S /\ f[s] # 0
  OBVIOUS
<1>3. s # {}
  BY <1>2 DEF Sums
<1>4. Picked(s) \in s
  BY <1>3, PickedIs
<1> DEFINE t == s \ {Picked(s)}
<1>5. t \in SUBSET S /\ t \subseteq s /\ t # s
  BY <1>2, <1>4
<1>6. f[t] = 0
  <2> HIDE DEF t
  <2> QED BY <1>1, <1>5
<1>7. f[s] = sh[Picked(s)] + f[t]
  BY <1>2, <1>3 DEF Sums
<1>8. sh[Picked(s)] = 0
  BY <1>2, <1>4
<1> HIDE DEF t, T
<1> QED BY <1>2, <1>6, <1>7, <1>8

(* What a total is, and how one share changes it.                            *)
LEMMA TotalOf ==
    ASSUME NEW S, IsFiniteSet(S), NEW sh \in [S -> Nat]
    PROVE  /\ Costs!Total(sh) \in Nat
           /\ \A x \in S : sh[x] <= Costs!Total(sh)
           /\ (\A x \in S : sh[x] = 0) => Costs!Total(sh) = 0
           /\ \A x \in S, n \in Nat : Costs!Total([sh EXCEPT ![x] = n]) = Costs!Total(sh) - sh[x] + n
<1>1. PICK f : Sums(f, sh, S) /\ Costs!Total(sh) = f[S]
  BY TotalIs
<1>2. \A s \in SUBSET S : f[s] \in Nat
  BY <1>1, SumTyped
<1>3. \A x \in S : f[S] = sh[x] + f[S \ {x}] /\ f[S \ {x}] \in Nat
  <2>1. Splits(f, sh, S)
    BY <1>1, SumSplits
  <2>2. S \in SUBSET S /\ \A x \in S : S \ {x} \in SUBSET S
    OBVIOUS
  <2> QED BY <1>2, <2>1, <2>2 DEF Splits
<1>4. ASSUME NEW x \in S PROVE sh[x] <= f[S]
  <2>1. ASSUME NEW a \in Nat, NEW b \in Nat PROVE a <= a + b
    OBVIOUS
  <2>2. sh[x] \in Nat /\ f[S] = sh[x] + f[S \ {x}] /\ f[S \ {x}] \in Nat
    BY <1>3
  <2> QED BY <2>1, <2>2
<1>5. (\A x \in S : sh[x] = 0) => f[S] = 0
  BY <1>1, SumOfNone
<1>6. ASSUME NEW x \in S, NEW n \in Nat
      PROVE  Costs!Total([sh EXCEPT ![x] = n]) = f[S] - sh[x] + n
  <2> DEFINE sh2 == [sh EXCEPT ![x] = n]
  <2>1. sh2 \in [S -> Nat] /\ sh2[x] = n /\ \A y \in S \ {x} : sh[y] = sh2[y]
    OBVIOUS
  <2> HIDE DEF sh2
  <2>2. PICK g : Sums(g, sh2, S) /\ Costs!Total(sh2) = g[S]
    BY <2>1, TotalIs
  <2>3. g[S] = n + g[S \ {x}]
    <3>1. Splits(g, sh2, S)
      BY <2>1, <2>2, SumSplits
    <3> QED BY <2>1, <3>1 DEF Splits
  <2>4. f[S \ {x}] = g[S \ {x}]
    BY <1>1, <2>1, <2>2, SumSame
  <2>5. sh[x] \in Nat
    OBVIOUS
  <2>6. Costs!Total(sh2) = f[S] - sh[x] + n
    BY <1>3, <2>2, <2>3, <2>4, <2>5
  <2> QED BY <2>6 DEF sh2
<1>7. f[S] \in Nat
  BY <1>2
<1> QED BY <1>1, <1>4, <1>5, <1>6, <1>7


Shares == [Models -> Nat]
Rows   == {r \in [input: Nat, label: Models, shares: Shares] : Costs!Total(r.shares) \in {0, r.input}}
Tallies == [Accounts -> Rows]

(* Every tally prices what it counts, and counts no more than was used.      *)
CostInv ==
    /\ used \in [Accounts -> 0..MaxTokens] /\ model \in [Procs -> Models]
    /\ file \in Tallies /\ tally \in [Procs -> Tallies]
    /\ \A s \in Accounts : /\ file[s].input <= used[s]
                           /\ \A p \in Procs : tally[p][s].input <= used[s]

LEMMA CostsFinite == ASSUME Costs!ConstantsOK PROVE IsFiniteSet(Accounts) /\ IsFiniteSet(Models)
BY Zenon DEF Costs!ConstantsOK, Costs!IsFiniteSet, IsFiniteSet

LEMMA ZeroIs ==
    ASSUME Costs!ConstantsOK
    PROVE  Costs!Zero \in Shares /\ Costs!Total(Costs!Zero) = 0
<1>1. Costs!Zero \in [Models -> Nat] /\ \A m \in Models : Costs!Zero[m] = 0
  BY DEF Costs!Zero
<1>2. IsFiniteSet(Models)
  BY CostsFinite
<1> HIDE DEF Costs!Zero
<1> QED BY <1>1, <1>2, TotalOf DEF Shares

LEMMA EmptyRow ==
    ASSUME Costs!ConstantsOK, NEW n \in Nat, NEW l \in Models
    PROVE  Costs!Row(n, l, Costs!Zero) \in Rows /\ Costs!Row(n, l, Costs!Zero).input = n
<1>1. Costs!Zero \in Shares /\ Costs!Total(Costs!Zero) = 0
  BY ZeroIs
<1>2. Costs!Row(n, l, Costs!Zero) = [input |-> n, label |-> l, shares |-> Costs!Zero]
  BY DEF Costs!Row
<1> HIDE DEF Costs!Zero, Shares
<1> QED BY <1>1, <1>2 DEF Rows

(* However old the row, its shares sum up to its total before a report.      *)
LEMMA SeedIs ==
    ASSUME Costs!ConstantsOK, NEW r \in Rows
    PROVE  Costs!seed(r) \in Shares /\ Costs!Total(Costs!seed(r)) = r.input
<1>1. r.input \in Nat /\ r.label \in Models /\ r.shares \in Shares /\ Costs!Total(r.shares) \in {0, r.input}
  BY DEF Rows
<1>2. IsFiniteSet(Models) /\ Costs!Zero \in Shares /\ Costs!Total(Costs!Zero) = 0
  BY ZeroIs, CostsFinite
<1>3. Costs!Zero[r.label] = 0
  BY <1>1 DEF Costs!Zero
<1> HIDE DEF Costs!Zero
<1>4. Costs!Total([Costs!Zero EXCEPT ![r.label] = r.input]) = r.input
  <2> DEFINE zero == Costs!Zero
  <2>1. zero \in [Models -> Nat] /\ Costs!Total(zero) = 0 /\ zero[r.label] = 0
    BY <1>2, <1>3 DEF Shares
  <2> HIDE DEF zero
  <2>2. \A l \in Models, n \in Nat : Costs!Total([zero EXCEPT ![l] = n]) = Costs!Total(zero) - zero[l] + n
    BY <1>2, <2>1, TotalOf
  <2>3. Costs!Total([zero EXCEPT ![r.label] = r.input]) = r.input
    <3>1. ASSUME NEW l \in Models, NEW n \in Nat, zero[l] = 0
          PROVE  Costs!Total([zero EXCEPT ![l] = n]) = n
      <4> DEFINE total == Costs!Total([zero EXCEPT ![l] = n])
      <4>1. total = Costs!Total(zero) - zero[l] + n
        BY <2>2, Zenon
      <4> HIDE DEF total
      <4>2. total = n
        BY <2>1, <3>1, <4>1
      <4> QED BY <4>2 DEF total
    <3> QED BY <1>1, <2>1, <3>1
  <2> QED BY <2>3 DEF zero
<1>5. [Costs!Zero EXCEPT ![r.label] = r.input] \in Shares
  BY <1>1, <1>2 DEF Shares
<1>6. CASE Costs!Total(r.shares) = 0 /\ r.input > 0
  BY <1>4, <1>5, <1>6 DEF Costs!seed
<1>7. CASE ~(Costs!Total(r.shares) = 0 /\ r.input > 0)
  <2>1. Costs!seed(r) = r.shares
    BY <1>7 DEF Costs!seed
  <2>2. Costs!Total(r.shares) = r.input
    BY <1>1, <1>7
  <2> QED BY <1>1, <2>1, <2>2
<1> QED BY <1>6, <1>7

(* A report prices the increase as the model's, and nothing twice.           *)
LEMMA RecordIs ==
    ASSUME Costs!ConstantsOK, NEW r \in Rows, NEW m \in Models, NEW n \in Nat
    PROVE  /\ Costs!recordUsage(r, m, n) \in Rows
           /\ Costs!recordUsage(r, m, n).input = IF n > r.input THEN n ELSE r.input
<1> DEFINE delta == IF n > r.input THEN n - r.input ELSE 0
           old == Costs!seed(r)
           new == [old EXCEPT ![m] = @ + delta]
<1>1. r.input \in Nat
  BY DEF Rows
<1>2. old \in Shares /\ Costs!Total(old) = r.input /\ IsFiniteSet(Models)
  BY SeedIs, CostsFinite
<1>3. delta \in Nat /\ r.input + delta = IF n > r.input THEN n ELSE r.input
  BY <1>1
<1>4. Costs!recordUsage(r, m, n) = [input |-> r.input + delta, label |-> m, shares |-> new]
  BY Zenon DEF Costs!recordUsage, Costs!Row
<1> HIDE DEF delta, old
<1>5. old[m] \in Nat /\ old[m] + delta \in Nat
  BY <1>2, <1>3 DEF Shares
<1>6. new \in Shares
  BY <1>2, <1>5 DEF Shares
<1>7. Costs!Total(new) = r.input + delta
  <2>1. new = [old EXCEPT ![m] = old[m] + delta]
    OBVIOUS
  <2>2. Costs!Total([old EXCEPT ![m] = old[m] + delta]) = Costs!Total(old) - old[m] + (old[m] + delta)
    BY <1>2, <1>5, TotalOf DEF Shares
  <2> QED BY <1>1, <1>2, <1>3, <1>5, <2>1, <2>2
<1> HIDE DEF new
<1> QED BY <1>1, <1>3, <1>4, <1>6, <1>7 DEF Rows


LEMMA EmptyIs ==
    ASSUME Costs!ConstantsOK
    PROVE  Costs!Empty \in Tallies /\ \A s \in Accounts : Costs!Empty[s].input = 0
<1> DEFINE l == CHOOSE m \in Models : TRUE
           row == Costs!Row(0, l, Costs!Zero)
<1>1. l \in Models
  BY DEF Costs!ConstantsOK
<1>2. row \in Rows /\ row.input = 0
  <2> HIDE DEF l
  <2> QED BY <1>1, EmptyRow
<1>3. Costs!Empty = [s \in Accounts |-> row]
  BY DEF Costs!Empty
<1> HIDE DEF row, Rows
<1> QED BY <1>2, <1>3 DEF Tallies

LEMMA CostInit == ASSUME Costs!ConstantsOK, Costs!Init PROVE CostInv
<1> USE DEF Costs!Init
<1>1. used \in [Accounts -> 0..1] /\ model \in [Procs -> Models] /\ tally = [p \in Procs |-> file]
  OBVIOUS
<1>2. used \in [Accounts -> 0..MaxTokens]
  BY <1>1 DEF Costs!ConstantsOK
<1>3. PICK l \in Models : file = [s \in Accounts |-> Costs!Row(used[s], l, Costs!Zero)]
  OBVIOUS
<1>4. \A s \in Accounts : used[s] \in Nat
  BY <1>1
<1>5. \A s \in Accounts : /\ Costs!Row(used[s], l, Costs!Zero) \in Rows
                          /\ Costs!Row(used[s], l, Costs!Zero).input = used[s]
  BY <1>4, EmptyRow
<1> HIDE DEF Rows, Costs!Init
<1>6. file \in Tallies /\ \A s \in Accounts : file[s].input = used[s]
  BY <1>3, <1>5 DEF Tallies
<1>7. tally \in [Procs -> Tallies] /\ \A p \in Procs : tally[p] = file
  BY <1>1, <1>6
<1>8. \A s \in Accounts : file[s].input <= used[s]
  BY <1>4, <1>6
<1> QED BY <1>1, <1>2, <1>6, <1>7, <1>8 DEF CostInv

(* There is room for one more token as long as less than MaxTokens are used. *)
LEMMA RoomIs ==
    ASSUME Costs!ConstantsOK, CostInv, NEW s \in Accounts, Costs!Room > 0
    PROVE  /\ used[s] + 1 \in 0..MaxTokens
           /\ [used EXCEPT ![s] = @ + 1] \in [Accounts -> 0..MaxTokens]
<1>1. used \in [Accounts -> Nat] /\ used \in [Accounts -> 0..MaxTokens] /\ MaxTokens \in Nat
  BY DEF CostInv, Costs!ConstantsOK
<1>2. Costs!Total(used) \in Nat /\ used[s] <= Costs!Total(used)
  BY <1>1, CostsFinite, TotalOf
<1>3. MaxTokens - Costs!Total(used) > 0
  BY DEF Costs!Room
<1>4. used[s] \in Nat
  BY <1>1
<1>5. used[s] + 1 \in 0..MaxTokens
  BY <1>1, <1>2, <1>3, <1>4
<1> QED BY <1>1, <1>5

LEMMA CostStep == ASSUME Costs!ConstantsOK, CostInv, [Costs!Next]_(Costs!vars) PROVE CostInv'
<1> HIDE DEF Rows
<1>0. /\ used \in [Accounts -> 0..MaxTokens] /\ model \in [Procs -> Models]
      /\ file \in Tallies /\ tally \in [Procs -> Tallies] /\ MaxTokens \in Nat
      /\ \A s \in Accounts : /\ file[s].input <= used[s] /\ used[s] \in Nat
                             /\ \A p \in Procs : tally[p][s].input <= used[s]
  BY DEF CostInv, Costs!ConstantsOK
<1>1. \A r \in Rows : r.input \in Nat
  BY DEF Rows
<1>2. ASSUME NEW p \in Procs, NEW s \in Accounts, Costs!UsageUpdate(p, s) PROVE CostInv'
  <2> DEFINE used2 == [used EXCEPT ![s] = @ + 1]
             row == tally[p][s]
             row2 == Costs!recordUsage(row, model[p], used[s] + 1)
             mine == [tally[p] EXCEPT ![s] = row2]
  <2>1. used' = used2 /\ Costs!Report(p, s, used'[s]) /\ Costs!Room > 0 /\ model' = model
    BY <1>2 DEF Costs!UsageUpdate
  <2>2. used2 \in [Accounts -> 0..MaxTokens] /\ used2[s] = used[s] + 1
        /\ \A t \in Accounts : used2[t] \in Nat /\ used[t] <= used2[t]
    <3>1. used2 \in [Accounts -> 0..MaxTokens]
      BY <2>1, RoomIs
    <3>2. \A t \in Accounts : used2[t] = IF t = s THEN used[t] + 1 ELSE used[t]
      BY <1>0
    <3> HIDE DEF used2
    <3> QED BY <1>0, <3>1, <3>2
  <2>3. row \in Rows /\ model[p] \in Models /\ used[s] + 1 \in Nat
    BY <1>0 DEF Tallies
  <2>4. row2 \in Rows /\ row2.input = IF used[s] + 1 > row.input THEN used[s] + 1 ELSE row.input
    <3> HIDE DEF row
    <3> QED BY <2>3, RecordIs
  <2>5. row2.input <= used2[s]
    <3>1. row.input \in Nat /\ row.input <= used[s] /\ used[s] \in Nat
      BY <1>0, <1>1, <2>3
    <3> HIDE DEF row, row2, used2
    <3> QED BY <2>2, <2>4, <3>1
  <2>6. tally' = [tally EXCEPT ![p] = mine] /\ file' = mine
    <3>1. tally' = [tally EXCEPT ![p][s] = Costs!recordUsage(@, model[p], used'[s])]
          /\ file' = tally'[p]
      BY <2>1 DEF Costs!Report
    <3>2. used'[s] = used[s] + 1
      BY <2>1, <2>2
    <3>3. tally' = [tally EXCEPT ![p] = mine]
      <4>1. [tally EXCEPT ![p][s] = Costs!recordUsage(@, model[p], used'[s])]
              = [tally EXCEPT ![p] = [tally[p] EXCEPT ![s] = Costs!recordUsage(tally[p][s], model[p], used'[s])]]
        OBVIOUS
      <4>2. Costs!recordUsage(tally[p][s], model[p], used'[s]) = row2
        BY <3>2
      <4> HIDE DEF row2
      <4> QED BY <3>1, <4>1, <4>2
    <3> HIDE DEF mine
    <3> QED BY <1>0, <3>1, <3>3
  <2> HIDE DEF row, row2, used2
  <2>7. mine \in Tallies
    BY <1>0, <2>4 DEF Tallies
  <2>8. ASSUME NEW t \in Accounts PROVE mine[t].input <= used2[t]
    <3>1. CASE t = s
      BY <1>0, <2>5, <3>1 DEF Tallies
    <3>2. CASE t # s
      <4>1. mine[t] = tally[p][t] /\ mine[t] \in Rows
        BY <1>0, <2>7, <3>2 DEF Tallies
      <4>2. mine[t].input \in Nat /\ mine[t].input <= used[t] /\ used[t] \in Nat /\ used[t] <= used2[t]
            /\ used2[t] \in Nat
        BY <1>0, <1>1, <2>2, <4>1
      <4> HIDE DEF mine
      <4> QED BY <4>2
    <3> QED BY <3>1, <3>2
  <2> HIDE DEF mine
  <2>9. tally' \in [Procs -> Tallies] /\ \A q \in Procs : tally'[q] = IF q = p THEN mine ELSE tally[q]
    BY <1>0, <2>6, <2>7
  <2>10. ASSUME NEW q \in Procs, NEW t \in Accounts PROVE tally'[q][t].input <= used2[t]
    <3>1. tally[q][t] \in Rows
      BY <1>0 DEF Tallies
    <3>2. tally[q][t].input \in Nat /\ tally[q][t].input <= used[t] /\ used[t] \in Nat
          /\ used[t] <= used2[t] /\ used2[t] \in Nat
      BY <1>0, <1>1, <2>2, <3>1
    <3>3. tally[q][t].input <= used2[t]
      BY <3>2
    <3> QED BY <2>8, <2>9, <3>3
  <2> QED BY <1>0, <2>1, <2>2, <2>6, <2>7, <2>8, <2>9, <2>10 DEF CostInv
<1>3. ASSUME NEW p \in Procs, NEW s \in Accounts, Costs!CompactionUsage(p, s) PROVE CostInv'
  <2> DEFINE used2 == [used EXCEPT ![s] = @ + 1]
  <2>1. used' = used2 /\ Costs!Room > 0 /\ UNCHANGED <<model, file, tally>>
    BY <1>3 DEF Costs!CompactionUsage
  <2>2. used2 \in [Accounts -> 0..MaxTokens]
    BY <2>1, RoomIs
  <2>3. \A t \in Accounts : used2[t] = IF t = s THEN used[t] + 1 ELSE used[t]
    BY <1>0
  <2> HIDE DEF used2
  <2>4. \A t \in Accounts, q \in Procs : file[t].input \in Nat /\ tally[q][t].input \in Nat
    BY <1>0, <1>1 DEF Tallies
  <2>5. ASSUME NEW t \in Accounts
        PROVE  file[t].input <= used2[t] /\ \A q \in Procs : tally[q][t].input <= used2[t]
    <3>1. used2[t] \in Nat /\ used[t] \in Nat /\ used[t] <= used2[t]
      BY <1>0, <2>3
    <3>2. file[t].input <= used2[t]
      BY <1>0, <2>4, <3>1
    <3>3. ASSUME NEW q \in Procs PROVE tally[q][t].input <= used2[t]
      BY <1>0, <2>4, <3>1
    <3> QED BY <3>2, <3>3
  <2> QED BY <1>0, <2>1, <2>2, <2>5 DEF CostInv
<1>4. ASSUME NEW p \in Procs, NEW s \in Accounts, Costs!Start(p, s) PROVE CostInv'
  <2>1. UNCHANGED <<used, file, model>> /\ tally' \in {tally, [tally EXCEPT ![p] = file]}
    BY <1>4 DEF Costs!Start
  <2>2. tally' \in [Procs -> Tallies] /\ \A q \in Procs : tally'[q] \in {tally[q], file}
    BY <1>0, <2>1
  <2> QED BY <1>0, <2>1, <2>2 DEF CostInv
<1>5. ASSUME NEW p \in Procs, Costs!Reset(p) PROVE CostInv'
  <2>1. tally' = [tally EXCEPT ![p] = Costs!Empty] /\ file' = Costs!Empty /\ UNCHANGED <<used, model>>
    BY <1>5 DEF Costs!Reset
  <2>2. Costs!Empty \in Tallies /\ \A s \in Accounts : Costs!Empty[s].input <= used[s]
    BY <1>0, EmptyIs
  <2>3. tally' \in [Procs -> Tallies] /\ \A q \in Procs : tally'[q] \in {tally[q], Costs!Empty}
    <3> HIDE DEF Costs!Empty
    <3> QED BY <1>0, <2>1, <2>2
  <2> QED BY <1>0, <2>1, <2>2, <2>3 DEF CostInv
<1>6. ASSUME NEW p \in Procs, NEW m \in Models, Costs!Switch(p, m) PROVE CostInv'
  BY <1>0, <1>6 DEF Costs!Switch, CostInv
<1>7. CASE UNCHANGED Costs!vars
  BY <1>7 DEF Costs!vars, CostInv
<1> QED BY <1>2, <1>3, <1>4, <1>5, <1>6, <1>7 DEF Costs!Next

(* Whatever processes write over one another, and whatever they started from, *)
(* every tally prices each token it counts once, and none that nobody used.   *)
THEOREM TokensArePricedOnce == ASSUME Costs!ConstantsOK PROVE DataSpec => []PricedOnce
<1>1. DataInit => CostInv
  BY CostInit DEF DataInit
<1>2. CostInv /\ [DataNext]_dataVars => CostInv'
  <2>1. [DataNext]_dataVars => [Costs!Next]_(Costs!vars)
    BY DEF DataNext, StreamNext, StoreNext, OutputNext, CostsNext, WiresNext, FilterNext, dataVars,
           costVars, Costs!vars
  <2> QED BY <2>1, CostStep
<1>3. CostInv => PricedOnce
  <2> SUFFICES ASSUME CostInv PROVE Costs!TypeOK /\ Costs!PricedOnce
    BY DEF PricedOnce
  <2>1. \A s \in Accounts : file[s] \in Rows /\ \A p \in Procs : tally[p][s] \in Rows
    BY DEF CostInv, Tallies
  <2>2. Costs!TypeOK
    BY <2>1 DEF Costs!TypeOK, CostInv, Rows
  <2>3. \A s \in Accounts : Costs!Total(file[s].shares) \in {0, file[s].input} /\ file[s].input <= used[s]
    BY <2>1 DEF CostInv, Rows
  <2>4. \A p \in Procs, s \in Accounts :
           Costs!Total(tally[p][s].shares) \in {0, tally[p][s].input} /\ tally[p][s].input <= used[s]
    BY <2>1 DEF CostInv, Rows
  <2> QED BY <2>2, <2>3, <2>4 DEF Costs!PricedOnce
<1> QED BY <1>1, <1>2, <1>3, PTL DEF DataSpec

-----------------------------------------------------------------------------
(* ToolOutput: texts are made of whole runes, however many.                  *)

(* A recursive function over an interval exists and obeys its equation. *)
Iteration(f, n, S, b, step) ==
    /\ f \in [1..n -> S]
    /\ \A k \in 1..n : f[k] = IF k = 1 THEN b ELSE step[<<k, f[k - 1]>>]

LEMMA Iterates ==
    ASSUME NEW n \in Nat, NEW S, NEW b \in S, NEW step \in [(1..n) \X S -> S]
    PROVE  \E f : Iteration(f, n, S, b, step)
<1> DEFINE Solves(f, m) == /\ f \in [1..m -> S]
                           /\ \A k \in 1..m : f[k] = IF k = 1 THEN b ELSE step[<<k, f[k - 1]>>]
           T == {m \in 0..n : ~\E f : Solves(f, m)}
<1>1. ASSUME T # {} PROVE FALSE
  <2>1. PICK m \in T : \A x \in T : m <= x
    BY <1>1, Least
  <2>2. m \in 0..n /\ ~\E f : Solves(f, m)
    OBVIOUS
  <2>3. m # 0
    <3>1. Solves([k \in 1..0 |-> b], 0)
      OBVIOUS
    <3> QED BY <2>2, <3>1
  <2>4. m - 1 \in 0..n /\ m - 1 \notin T
    <3>1. m - 1 \in 0..n /\ ~(m <= m - 1)
      BY <2>2, <2>3
    <3> QED BY <2>1, <3>1
  <2>5. PICK f : Solves(f, m - 1)
    BY <2>4
  <2> DEFINE g == [k \in 1..m |-> IF k < m THEN f[k] ELSE IF k = 1 THEN b ELSE step[<<k, f[k - 1]>>]]
  <2>6. ASSUME NEW k \in 1..m
        PROVE  g[k] = (IF k = 1 THEN b ELSE step[<<k, g[k - 1]>>]) /\ g[k] \in S
    <3>1. k \in 1..n /\ m \in 1..n
      BY <2>2, <2>3
    <3>2. k # 1 => k - 1 \in 1..(m - 1) /\ k - 1 \in 1..m /\ k - 1 < m
      BY <3>1
    <3>3. k # 1 => g[k - 1] = f[k - 1] /\ f[k - 1] \in S
      BY <2>5, <3>2
    <3>4. CASE k < m
      <4>1. k \in 1..(m - 1) /\ g[k] = f[k]
        BY <3>1, <3>4
      <4> HIDE DEF g
      <4> QED BY <2>5, <3>3, <4>1
    <3>5. CASE k = m
      <4>1. g[k] = IF k = 1 THEN b ELSE step[<<k, f[k - 1]>>]
        BY <3>5
      <4> HIDE DEF g
      <4>2. k # 1 => <<k, f[k - 1]>> \in (1..n) \X S
        BY <3>1, <3>3
      <4> QED BY <3>3, <4>1, <4>2
    <3> QED BY <3>1, <3>4, <3>5
  <2>7. Solves(g, m)
    <3>1. g \in [1..m -> S]
      BY <2>6
    <3> HIDE DEF g
    <3> QED BY <2>6, <3>1
  <2> QED BY <2>2, <2>7
<1>2. n \in 0..n /\ ~(T # {})
  BY <1>1
<1>3. PICK f : Solves(f, n)
  BY <1>2
<1>4. Iteration(f, n, S, b, step)
  BY <1>3 DEF Iteration
<1> QED BY <1>4

Bytes == {"a", "n", "W", "w"}
IsText(c) ==
    /\ c \in Seq(Bytes)
    /\ \A i \in 1 .. Len(c) : c[i] = "w" =>
           \/ i > 1 /\ c[i - 1] = "W"
           \/ i > 2 /\ c[i - 1] = "w" /\ c[i - 2] = "W"

LEMMA RuneIs ==
    ASSUME Output!ConstantsOK, NEW r \in Runes
    PROVE  /\ r \in Seq(Bytes) /\ Len(r) \in Nat /\ Len(r) \in {1, 3}
           /\ \A i \in 1 .. Len(r) : r[i] = "w" =>
                  (i = 2 /\ r[1] = "W") \/ (i = 3 /\ r[2] = "w" /\ r[1] = "W")
<1>1. r \in {<<"a">>, <<"n">>, <<"W", "w", "w">>}
  BY DEF Output!ConstantsOK
<1>2. CASE r = <<"a">>
  <2>1. <<"a">> \in Seq(Bytes) /\ Len(<<"a">>) = 1 /\ <<"a">>[1] = "a"
    BY DEF Bytes
  <2> QED BY <1>2, <2>1
<1>3. CASE r = <<"n">>
  <2>1. <<"n">> \in Seq(Bytes) /\ Len(<<"n">>) = 1 /\ <<"n">>[1] = "n"
    BY DEF Bytes
  <2> QED BY <1>3, <2>1
<1>4. CASE r = <<"W", "w", "w">>
  <2>1. /\ <<"W", "w", "w">> \in Seq(Bytes) /\ Len(<<"W", "w", "w">>) = 3
        /\ <<"W", "w", "w">>[1] = "W" /\ <<"W", "w", "w">>[2] = "w"
    BY DEF Bytes
  <2>2. \A i \in 1 .. 3 : i = 1 \/ i = 2 \/ i = 3
    OBVIOUS
  <2> QED BY <1>4, <2>1, <2>2
<1> QED BY <1>1, <1>2, <1>3, <1>4

LEMMA RuneAdded ==
    ASSUME Output!ConstantsOK, NEW c, IsText(c), NEW r \in Runes
    PROVE  IsText(c \o r)
<1> DEFINE n == Len(c)
           d == c \o r
<1>1. c \in Seq(Bytes) /\ n \in Nat
  BY DEF IsText
<1>2. r \in Seq(Bytes) /\ Len(r) \in Nat /\ Len(r) \in {1, 3}
  BY RuneIs
<1>3. d \in Seq(Bytes) /\ Len(d) = n + Len(r)
  BY <1>1, <1>2
<1>4. /\ \A i \in 1..n : d[i] = c[i]
      /\ \A i \in 1 .. Len(r) : d[n + i] = r[i]
  BY <1>1, <1>2
<1>5. \A i \in 1 .. Len(r) : r[i] = "w" => (i = 2 /\ r[1] = "W") \/ (i = 3 /\ r[2] = "w" /\ r[1] = "W")
  BY RuneIs
<1> HIDE DEF d, n
<1>6. ASSUME NEW i \in 1 .. Len(d), d[i] = "w"
      PROVE  \/ i > 1 /\ d[i - 1] = "W"
             \/ i > 2 /\ d[i - 1] = "w" /\ d[i - 2] = "W"
  <2>1. CASE i <= n
    <3>1. i \in 1..n /\ (i > 1 => i - 1 \in 1..n) /\ (i > 2 => i - 2 \in 1..n)
      BY <1>1, <1>2, <1>3, <2>1
    <3>2. c[i] = "w" /\ i \in 1 .. Len(c)
      BY <1>4, <1>6, <3>1 DEF n
    <3>3. (i > 1 /\ c[i - 1] = "W") \/ (i > 2 /\ c[i - 1] = "w" /\ c[i - 2] = "W")
      BY <3>2 DEF IsText
    <3> QED BY <1>4, <3>1, <3>3
  <2>2. CASE i > n
    <3>1. i - n \in 1 .. Len(r) /\ n + (i - n) = i
      BY <1>1, <1>2, <1>3, <2>2
    <3>2. r[i - n] = "w"
      BY <1>4, <1>6, <3>1
    <3>3. CASE i - n = 2 /\ r[1] = "W"
      <4>1. 1 \in 1 .. Len(r) /\ i - 1 = n + 1 /\ i > 1
        BY <1>1, <1>2, <3>1, <3>3
      <4> QED BY <1>4, <3>3, <4>1
    <3>4. CASE i - n = 3 /\ r[2] = "w" /\ r[1] = "W"
      <4>1. 1 \in 1 .. Len(r) /\ 2 \in 1 .. Len(r) /\ i - 1 = n + 2 /\ i - 2 = n + 1 /\ i > 2
        BY <1>1, <1>2, <3>1, <3>4
      <4> QED BY <1>4, <3>4, <4>1
    <3> QED BY <1>5, <3>1, <3>2, <3>3, <3>4
  <2> QED BY <1>1, <1>3, <2>1, <2>2
<1> QED BY <1>3, <1>6 DEF IsText, d

LEMMA RunesAreText ==
    ASSUME Output!ConstantsOK, NEW n \in Nat, NEW s \in [1..n -> Runes]
    PROVE  IsText(Output!FlattenSeq(s))
<1> DEFINE S == {c \in Seq(Bytes) : IsText(c)}
           step == [x \in (1..n) \X S |-> x[2] \o s[x[1]]]
           d == CHOOSE f : f = [i \in 1..n |-> IF i = 1 THEN s[i] ELSE f[i - 1] \o s[i]]
<1>1. Len(s) = n /\ s \in Seq(Runes)
  OBVIOUS
<1>2. IsText(<< >>) /\ \A c : IsText(c) => c \in S
  BY DEF IsText
<1>3. CASE n = 0
  <2>1. s = << >>
    BY <1>3
  <2>2. Output!FlattenSeq(s) = s
    BY <1>1, <1>3 DEF Output!FlattenSeq
  <2> QED BY <1>2, <2>1, <2>2
<1>4. CASE n # 0
  <2>1. s[1] \in S
    <3>1. 1 \in 1..n /\ s[1] \in Runes
      BY <1>4
    <3>2. IsText(<< >> \o s[1])
      BY <1>2, <3>1, RuneAdded
    <3>3. s[1] \in Seq(Bytes)
      BY <3>1, RuneIs
    <3>4. << >> \o s[1] = s[1]
      BY <3>3
    <3> QED BY <1>2, <3>2, <3>4
  <2>2. \A k \in 1..n, c \in S : c \o s[k] \in S
    <3> TAKE k \in 1..n, c \in S
    <3>1. IsText(c \o s[k])
      BY RuneAdded
    <3> QED BY <1>2, <3>1
  <2> HIDE DEF S
  <2>3. step \in [(1..n) \X S -> S] /\ \A k \in 1..n, c \in S : step[<<k, c>>] = c \o s[k]
    BY <2>2
  <2> HIDE DEF step
  <2>4. \E f : f = [i \in 1..n |-> IF i = 1 THEN s[i] ELSE f[i - 1] \o s[i]]
    <3>1. PICK f : Iteration(f, n, S, s[1], step)
      BY <2>1, <2>3, Iterates
    <3>2. \A i \in 1..n : f[i] = IF i = 1 THEN s[i] ELSE f[i - 1] \o s[i]
      <4> TAKE i \in 1..n
      <4>1. i # 1 => i - 1 \in 1..n
        OBVIOUS
      <4>2. i # 1 => f[i - 1] \in S
        BY <3>1, <4>1 DEF Iteration
      <4> QED BY <2>3, <3>1, <4>2 DEF Iteration
    <3>3. f = [i \in 1..n |-> f[i]]
      BY <3>1 DEF Iteration
    <3>4. f = [i \in 1..n |-> IF i = 1 THEN s[i] ELSE f[i - 1] \o s[i]]
      BY <3>2, <3>3
    <3> QED BY <3>4
  <2>5. d = [i \in 1..n |-> IF i = 1 THEN s[i] ELSE d[i - 1] \o s[i]]
    BY <2>4, Zenon
  <2>6. Output!FlattenSeq(s) = d[n]
    <3>1. Output!FlattenSeq(s) = IF Len(s) = 0 THEN s ELSE
             (CHOOSE f : f = [i \in 1 .. Len(s) |-> IF i = 1 THEN s[i] ELSE f[i - 1] \o s[i]])[Len(s)]
      BY Zenon DEF Output!FlattenSeq
    <3> QED BY <1>1, <1>4, <3>1
  <2> HIDE DEF d
  <2>7. \A i \in 1..n : d[i] \in S
    <3> DEFINE T == {i \in 0..n : i > 0 /\ d[i] \notin S}
    <3> SUFFICES ASSUME T # {} PROVE FALSE
      OBVIOUS
    <3>1. PICK i \in T : \A l \in T : i <= l
      <4>1. T \in SUBSET (0..n)
        OBVIOUS
      <4> HIDE DEF T
      <4> QED BY <4>1, Least
    <3>2. i \in 1..n /\ d[i] \notin S
      OBVIOUS
    <3> HIDE DEF T
    <3>3. d[i] = IF i = 1 THEN s[i] ELSE d[i - 1] \o s[i]
      BY <2>5, <3>2
    <3>4. i # 1
      BY <2>1, <3>2, <3>3
    <3>5. i - 1 \in 0..n /\ i - 1 > 0 /\ ~(i <= i - 1)
      BY <3>2, <3>4
    <3>6. d[i - 1] \in S
      BY <3>1, <3>5 DEF T
    <3> QED BY <2>2, <3>2, <3>3, <3>4, <3>6
  <2>8. d[n] \in S
    BY <1>4, <2>7
  <2> QED BY <2>6, <2>8 DEF S
<1> QED BY <1>3, <1>4

LEMMA TextIs ==
    ASSUME Output!ConstantsOK, NEW c \in Output!Texts
    PROVE  IsText(c)
<1>1. PICK s \in UNION {[1 .. n -> Runes] : n \in 0 .. MaxRunes} : c = Output!FlattenSeq(s)
  BY DEF Output!Texts
<1>2. PICK n \in 0 .. MaxRunes : s \in [1 .. n -> Runes]
  BY <1>1
<1>3. n \in Nat
  BY <1>2 DEF Output!ConstantsOK
<1> QED BY <1>1, <1>2, <1>3, RunesAreText

LEMMA HighestIs ==
    ASSUME NEW n \in Nat, NEW S \in SUBSET (0..n), NEW d
    PROVE  /\ S = {} => Output!Highest(S, d) = d
           /\ S # {} => Output!Highest(S, d) \in S /\ \A x \in S : x <= Output!Highest(S, d)
<1>1. S = {} => Output!Highest(S, d) = d
  BY Zenon DEF Output!Highest
<1>2. ASSUME S # {}
      PROVE  Output!Highest(S, d) \in S /\ \A x \in S : x <= Output!Highest(S, d)
  <2> DEFINE R == {n - x : x \in S}
  <2>1. R \in SUBSET (0..n) /\ R # {}
    <3>1. \A x \in S : n - x \in 0..n
      OBVIOUS
    <3>2. PICK x \in S : TRUE
      BY <1>2
    <3>3. n - x \in R
      OBVIOUS
    <3> QED BY <3>1, <3>3
  <2>2. PICK m \in R : \A x \in R : m <= x
    <3> HIDE DEF R
    <3> QED BY <2>1, Least
  <2>3. PICK t \in S : m = n - t
    OBVIOUS
  <2>4. \A x \in S : t >= x
    <3> TAKE x \in S
    <3>1. m <= n - x
      BY <2>2
    <3> QED BY <2>3, <3>1
  <2>5. Output!Max(S) \in S /\ \A x \in S : Output!Max(S) >= x
    <3>1. \E y \in S : \A x \in S : y >= x
      BY <2>4
    <3> QED BY <3>1, Zenon DEF Output!Max
  <2>6. Output!Highest(S, d) = Output!Max(S)
    BY <1>2, Zenon DEF Output!Highest
  <2>7. \A x \in S : x <= Output!Max(S)
    <3> TAKE x \in S
    <3>1. Output!Max(S) >= x /\ Output!Max(S) \in 0..n /\ x \in 0..n
      BY <2>5
    <3> QED BY <3>1
  <2> QED BY <2>5, <2>6, <2>7
<1> QED BY <1>1, <1>2

LEMMA LowestIs ==
    ASSUME NEW n \in Nat, NEW S \in SUBSET (0..n), NEW d
    PROVE  /\ S = {} => Output!Lowest(S, d) = d
           /\ S # {} => Output!Lowest(S, d) \in S /\ \A x \in S : Output!Lowest(S, d) <= x
<1>1. S = {} => Output!Lowest(S, d) = d
  BY Zenon DEF Output!Lowest
<1>2. ASSUME S # {}
      PROVE  Output!Lowest(S, d) \in S /\ \A x \in S : Output!Lowest(S, d) <= x
  <2>1. \E m \in S : \A x \in S : m <= x
    BY <1>2, Least
  <2>2. Output!Min(S) \in S /\ \A x \in S : Output!Min(S) <= x
    BY <2>1, Zenon DEF Output!Min
  <2>3. Output!Lowest(S, d) = Output!Min(S)
    BY <1>2, Zenon DEF Output!Lowest
  <2> QED BY <2>2, <2>3
<1> QED BY <1>1, <1>2

(* i is an end of a rune of c: what follows starts one, if anything follows.  *)
Boundary(c, i) == i \in 0 .. Len(c) /\ (i < Len(c) => c[i + 1] # "w")

LEMMA HeadIsWhole ==
    ASSUME NEW c, IsText(c), NEW h \in 0 .. Len(c), lineWindow \in Nat
    PROVE  Boundary(c, Output!alignHeadEnd(c, h))
<1> DEFINE n    == Len(c)
           E    == {i \in 1 .. h : i = Len(c) \/ Output!RuneStart(Output!At(c, i))}
           head == Output!Highest(E, 0)
           L    == {i \in 0 .. head - 1 : Output!At(c, i) = "n"}
           nl   == Output!Highest(L, -1)
<1>1. c \in Seq(Bytes) /\ n \in Nat
  BY DEF IsText
<1>2. E \in SUBSET (0..n)
  BY <1>1
<1>3. head \in 0 .. n /\ (head # 0 => head \in E)
  <2> HIDE DEF E
  <2>1. (E = {} => head = 0) /\ (E # {} => head \in E)
    BY <1>1, <1>2, HighestIs
  <2> HIDE DEF head
  <2>2. 0 \in 0..n
    BY <1>1
  <2> HIDE DEF n
  <2>3. E \subseteq 0..n
    BY <1>2
  <2>4. CASE E = {}
    BY <2>1, <2>2, <2>4
  <2>5. CASE E # {}
    BY <2>1, <2>3, <2>5
  <2> QED BY <2>4, <2>5
<1>4. Boundary(c, head)
  <2>1. CASE head = 0
    <3>1. 0 < Len(c) => 1 \in 1 .. Len(c)
      BY <1>1
    <3>2. 0 < Len(c) => c[1] # "w"
      BY <3>1 DEF IsText
    <3> HIDE DEF head
    <3> QED BY <1>1, <2>1, <3>2 DEF Boundary
  <2>2. CASE head # 0
    <3>1. head = Len(c) \/ c[head + 1] # "w"
      BY <1>3, <2>2 DEF Output!RuneStart, Output!At
    <3> HIDE DEF head
    <3> QED BY <1>1, <1>3, <3>1 DEF Boundary
  <2> QED BY <2>1, <2>2
<1> HIDE DEF head
<1>5. L \in SUBSET (0..n)
  BY <1>1, <1>3
<1>6. nl = -1 \/ nl \in L
  <2> HIDE DEF L
  <2> QED BY <1>1, <1>5, HighestIs
<1>7. ASSUME nl >= 0 PROVE Boundary(c, nl + 1)
  <2>1. nl \in L
    BY <1>6, <1>7
  <2>2. nl \in 0 .. head - 1 /\ c[nl + 1] = "n"
    BY <2>1 DEF Output!At
  <2> HIDE DEF nl
  <2>3. nl \in Nat /\ nl + 1 \in 0 .. Len(c)
    BY <1>1, <1>3, <2>2
  <2>4. ASSUME nl + 1 < Len(c), c[(nl + 1) + 1] = "w" PROVE FALSE
    <3>1. (nl + 1) + 1 \in 1 .. Len(c) /\ ((nl + 1) + 1) - 1 = nl + 1
      BY <1>1, <2>3, <2>4
    <3>2. c[((nl + 1) + 1) - 1] \in {"W", "w"}
      BY <2>4, <3>1 DEF IsText
    <3> QED BY <2>2, <3>1, <3>2
  <2> QED BY <2>3, <2>4 DEF Boundary
<1>8. Output!alignHeadEnd(c, h) = IF nl >= 0 /\ head - nl <= lineWindow THEN nl + 1 ELSE head
  BY Zenon DEF Output!alignHeadEnd, head
<1> HIDE DEF nl
<1> QED BY <1>4, <1>7, <1>8

LEMMA ExcerptIsWhole ==
    ASSUME Output!ConstantsOK, NEW c, IsText(c), Len(c) > ExcerptLimit
    PROVE  Boundary(c, Output!Excerpt(c).head)
<1> DEFINE kept == Output!Max({2, ExcerptLimit - markerReserve})
           third == (kept * 2) \div 3
<1>1. Len(c) \in Nat /\ ExcerptLimit \in Nat /\ markerReserve \in Nat /\ lineWindow \in Nat
      /\ ExcerptLimit > markerReserve
  BY DEF IsText, Output!ConstantsOK
<1>2. kept \in Nat /\ (kept = 2 \/ kept <= ExcerptLimit)
  <2> DEFINE m == IF ExcerptLimit - markerReserve > 2 THEN ExcerptLimit - markerReserve ELSE 2
  <2>1. m \in {2, ExcerptLimit - markerReserve} /\ \A x \in {2, ExcerptLimit - markerReserve} : m >= x
    BY <1>1
  <2>2. \E y \in {2, ExcerptLimit - markerReserve} : \A x \in {2, ExcerptLimit - markerReserve} : y >= x
    BY <2>1
  <2>3. kept \in {2, ExcerptLimit - markerReserve} /\ \A x \in {2, ExcerptLimit - markerReserve} : kept >= x
    BY <2>2, Zenon DEF Output!Max
  <2> HIDE DEF kept
  <2>4. kept >= 2
    BY <2>3
  <2> QED BY <1>1, <2>3, <2>4
<1> HIDE DEF kept
<1>3. third \in 0 .. Len(c)
  <2>1. third \in Nat /\ third <= kept
    BY <1>2
  <2>2. kept = 2 => third = 1
    BY <1>2
  <2> HIDE DEF third
  <2> QED BY <1>1, <1>2, <2>1, <2>2
<1>4. Output!Excerpt(c).head = Output!alignHeadEnd(c, third)
  BY DEF Output!Excerpt, kept
<1> HIDE DEF third
<1> QED BY <1>1, <1>3, <1>4, HeadIsWhole

(* A window that starts on a rune ends on one when its last is dropped if cut. *)
LEMMA WindowIsTrimmed ==
    ASSUME NEW c, IsText(c), NEW o \in Nat, Boundary(c, o), NEW w \in Seq(Bytes), Len(w) > 0,
           o + Len(w) < Len(c), \A i \in 1 .. Len(w) : w[i] = c[o + i]
    PROVE  /\ Len(Output!trimPartialRune(w)) \in 0 .. Len(w)
           /\ Boundary(c, o + Len(Output!trimPartialRune(w)))
<1> DEFINE n    == Len(w)
           E    == {i \in 1 .. Len(w) : Output!RuneStart(w[i])}
           last == Output!Highest(E, 0)
           cut  == last > 0 /\ w[last] = "W" /\ Len(w) - last < 2
<1>1. Len(c) \in Nat /\ n \in Nat /\ n > 0 /\ c \in Seq(Bytes)
  BY DEF IsText
<1>2. c[o + 1] # "w" /\ w[1] # "w" /\ 1 \in 1..n
  BY <1>1 DEF Boundary
<1>3. 1 \in E
  BY <1>2 DEF Output!RuneStart
<1>4. last \in E /\ \A x \in E : x <= last
  <2>1. E \in SUBSET (0..n)
    BY <1>1
  <2> HIDE DEF E
  <2> QED BY <1>1, <1>3, <2>1, HighestIs
<1>5. last \in 1..n /\ w[last] # "w" /\ \A i \in 1..n : i > last => w[i] = "w"
  <2>1. last \in 1..n /\ w[last] # "w"
    BY <1>4 DEF Output!RuneStart
  <2>2. ASSUME NEW i \in 1..n, i > last, w[i] # "w" PROVE FALSE
    <3>1. i \in E
      BY <2>2 DEF Output!RuneStart
    <3>2. i <= last
      BY <1>4, <3>1
    <3> HIDE DEF last
    <3> QED BY <1>1, <2>1, <2>2, <3>2
  <2> QED BY <2>1, <2>2
<1>6. Output!trimPartialRune(w) = IF cut THEN SubSeq(w, 1, last - 1) ELSE w
  BY Zenon DEF Output!trimPartialRune, last, cut
<1> HIDE DEF last
<1>7. CASE cut
  <2>1. Len(Output!trimPartialRune(w)) = last - 1
    <3>1. 1 \in 1..(Len(w) + 1) /\ last - 1 \in 0 .. Len(w)
      BY <1>1, <1>5
    <3>2. Len(SubSeq(w, 1, last - 1)) = last - 1
      BY <1>1, <1>5, <3>1
    <3> QED BY <1>6, <1>7, <3>2
  <2>2. o + (last - 1) \in 0 .. Len(c) /\ (o + (last - 1)) + 1 = o + last /\ last - 1 \in 0 .. Len(w)
    BY <1>1, <1>5
  <2>3. c[o + last] # "w"
    BY <1>5
  <2>4. Boundary(c, o + (last - 1))
    BY <2>2, <2>3 DEF Boundary
  <2> QED BY <2>1, <2>2, <2>4
<1>8. CASE ~cut
  <2>1. Len(Output!trimPartialRune(w)) = Len(w) /\ Len(w) \in 0 .. Len(w)
    BY <1>1, <1>6, <1>8
  <2>2. o + n \in 0 .. Len(c)
    BY <1>1
  <2>3. ASSUME c[(o + n) + 1] = "w" PROVE FALSE
    <3>1. /\ (o + n) + 1 \in 1 .. Len(c) /\ ((o + n) + 1) - 1 = o + n
          /\ ((o + n) + 1) - 2 = o + (n - 1)
      BY <1>1
    <3>2. \/ c[o + n] = "W"
          \/ c[o + n] = "w" /\ c[o + (n - 1)] = "W"
      BY <2>3, <3>1 DEF IsText
    <3>3. c[o + n] = w[n] /\ n \in 1..n
      BY <1>1
    <3>4. CASE c[o + n] = "W"
      <4>1. last = n
        <5>1. w[n] # "w"
          BY <3>3, <3>4
        <5>2. ~(n > last)
          BY <1>5, <3>3, <5>1
        <5> QED BY <1>1, <1>5, <5>2
      <4>2. Len(w) - last < 2 /\ last > 0
        BY <1>1, <4>1
      <4> QED BY <1>8, <3>3, <3>4, <4>1, <4>2
    <3>5. CASE c[o + n] = "w" /\ c[o + (n - 1)] = "W"
      <4>1. n # 1
        BY <1>2, <3>3, <3>5
      <4>2. n - 1 \in 1..n
        <5>1. n \in Nat /\ n > 0
          BY <1>1
        <5> HIDE DEF n
        <5> QED BY <4>1, <5>1
      <4>3. w[n - 1] = "W" /\ w[n] = "w"
        BY <3>3, <3>5, <4>2
      <4>4. last # n
        BY <1>5, <4>3
      <4>5. ~(n - 1 > last)
        BY <1>5, <4>2, <4>3
      <4>6. last = n - 1
        BY <1>1, <1>5, <4>4, <4>5
      <4>7. Len(w) - last < 2 /\ last > 0
        BY <1>1, <4>2, <4>6
      <4> QED BY <1>8, <4>3, <4>6, <4>7
    <3> QED BY <3>2, <3>4, <3>5
  <2>4. Boundary(c, o + n)
    BY <2>2, <2>3 DEF Boundary
  <2> QED BY <2>1, <2>4
<1> QED BY <1>7, <1>8

LEMMA PageIsWhole ==
    ASSUME NEW c, IsText(c), NEW o \in Nat, Boundary(c, o), NEW limit \in Nat \ {0}
    PROVE  /\ Output!Page(c, o, limit).offset = o
           /\ Output!Page(c, o, limit).next >= o
           /\ Boundary(c, Output!Page(c, o, limit).next)
<1> DEFINE e      == Output!Min({Len(c), o + limit})
           window == Output!Slice(c, o, e)
           E      == {i \in 1 .. Len(window) : Output!RuneStart(window[i])}
           first  == Output!Lowest(E, Len(window) + 1)
           body   == SubSeq(window, first, Len(window))
           begin  == o + first - 1
           whole  == IF begin + Len(body) < Len(c) THEN Output!trimPartialRune(body) ELSE body
<1>1. Output!Page(c, o, limit) = IF o >= Len(c) THEN [offset |-> Len(c), next |-> Len(c)]
                                 ELSE [offset |-> begin, next |-> begin + Len(whole)]
  BY Zenon DEF Output!Page
<1>2. c \in Seq(Bytes) /\ Len(c) \in Nat /\ o <= Len(c)
  BY DEF IsText, Boundary
<1>3. CASE o >= Len(c)
  <2>1. o = Len(c)
    BY <1>2, <1>3
  <2>2. Output!Page(c, o, limit).offset = o /\ Output!Page(c, o, limit).next = o
    BY <1>1, <1>3, <2>1
  <2> QED BY <2>2
<1>4. CASE ~(o >= Len(c))
  <2>1. e \in o + 1 .. Len(c)
    <3>1. e \in {Len(c), o + limit} /\ \A x \in {Len(c), o + limit} : e <= x
      <4>1. \E y \in {Len(c), o + limit} : \A x \in {Len(c), o + limit} : y <= x
        BY <1>2
      <4> QED BY <4>1, Zenon DEF Output!Min
    <3> HIDE DEF e
    <3> QED BY <1>2, <1>4, <3>1
  <2> HIDE DEF e
  <2>2. window \in Seq(Bytes) /\ Len(window) = e - o /\ \A i \in 1 .. Len(window) : window[i] = c[o + i]
    <3>1. o + 1 \in 1 .. Len(c) + 1 /\ e \in o .. Len(c) /\ o + 1 <= e
      BY <1>2, <1>4, <2>1
    <3>2. window = SubSeq(c, o + 1, e)
      BY DEF Output!Slice
    <3> HIDE DEF window
    <3>3. window \in Seq(Bytes) /\ Len(window) = e - o
      BY <1>2, <2>1, <3>1, <3>2
    <3>4. \A i \in 1 .. e - o : window[i] = c[o + i]
      <4> TAKE i \in 1 .. e - o
      <4>1. (o + 1) + i - 1 = o + i
        BY <2>1
      <4> QED BY <1>2, <2>1, <3>1, <3>2, <4>1
    <3> QED BY <3>3, <3>4
  <2> HIDE DEF window
  <2>3. Len(window) \in Nat /\ Len(window) > 0 /\ o + Len(window) <= Len(c)
    BY <1>2, <2>1, <2>2
  <2>4. 1 \in E
    <3>1. 1 \in 1 .. Len(window) /\ c[o + 1] # "w"
      BY <1>2, <1>4, <2>3 DEF Boundary
    <3>2. window[1] # "w"
      BY <2>2, <3>1
    <3> QED BY <3>1, <3>2 DEF Output!RuneStart
  <2>5. first = 1
    <3>1. E \in SUBSET (0 .. Len(window))
      BY <2>3
    <3>2. \A x \in E : x >= 1 /\ x \in Nat
      BY <2>3
    <3> HIDE DEF E
    <3>3. first \in E /\ \A x \in E : first <= x
      BY <2>3, <2>4, <3>1, LowestIs
    <3> HIDE DEF first
    <3> QED BY <2>4, <3>2, <3>3
  <2> HIDE DEF first
  <2>6. begin = o /\ body = window
    BY <2>2, <2>3, <2>5
  <2> HIDE DEF begin, body
  <2>7. Len(whole) \in 0 .. Len(window) /\ Boundary(c, o + Len(whole))
    <3>1. CASE o + Len(window) < Len(c)
      <4>1. /\ Len(Output!trimPartialRune(window)) \in 0 .. Len(window)
            /\ Boundary(c, o + Len(Output!trimPartialRune(window)))
        BY <2>2, <2>3, <3>1, WindowIsTrimmed
      <4> QED BY <2>6, <3>1, <4>1
    <3>2. CASE ~(o + Len(window) < Len(c))
      <4>1. o + Len(window) = Len(c) /\ Len(c) \in 0 .. Len(c) /\ ~(Len(c) < Len(c))
        BY <1>2, <2>3, <3>2
      <4>2. whole = window /\ Len(window) \in 0 .. Len(window)
        BY <2>3, <2>6, <3>2
      <4> QED BY <4>1, <4>2 DEF Boundary
    <3> QED BY <3>1, <3>2
  <2> HIDE DEF whole
  <2>8. Output!Page(c, o, limit).offset = o /\ Output!Page(c, o, limit).next = o + Len(whole)
    BY <1>1, <1>4, <2>6
  <2>9. o + Len(whole) >= o
    BY <2>3, <2>7
  <2> QED BY <2>7, <2>8, <2>9
<1> QED BY <1>3, <1>4

-----------------------------------------------------------------------------
(* What keeps the excerpt and its pages the whole text: a result is captured *)
(* once, as the text's own excerpt, and whoever reads on has every byte from *)
(* the excerpt's head to where it is, and stands on a rune.                  *)
TextInv == IsText(text) /\ Len(text) > ExcerptLimit

SpillInv ==
    /\ entries \in Seq(Nat) /\ Len(entries) <= Budget
    /\ spilling \in 0 .. MaxSpills /\ minted \in 0 .. MaxSpills
    /\ (spilling # 0 => Len(entries) + 1 <= Budget)
    /\ (pruned => files = {})
    /\ (closed => pruned /\ entries = << >>)

ReaderInv ==
    /\ reader.state \in {"idle", "reading", "lost", "end"}
    /\ reader.state = "idle" => reader = [offset |-> 0, got |-> {}, state |-> "idle"]
    /\ handle # 0 \/ reader.state # "idle" => shown = Output!Excerpt(text)
    /\ reader.state \in {"reading", "end"} =>
           /\ reader.offset \in Nat /\ Boundary(text, reader.offset)
           /\ \A i \in shown.head .. reader.offset - 1 : i \in reader.got
    /\ reader.state = "end" => reader.offset >= Len(text)

OutputInv == TextInv /\ SpillInv /\ ReaderInv

LEMMA OutputInit ==
    ASSUME Output!ConstantsOK, Output!Init
    PROVE  OutputInv
<1>1. TextInv
  BY TextIs DEF Output!Init, TextInv
<1>2. SpillInv
  <2>1. << >> \in Seq(Nat) /\ Len(<< >>) = 0
    OBVIOUS
  <2>2. 0 <= Budget /\ 0 \in 0 .. MaxSpills
    BY DEF Output!ConstantsOK
  <2> QED BY <2>1, <2>2 DEF Output!Init, SpillInv
<1>3. ReaderInv
  BY DEF Output!Init, ReaderInv
<1> QED BY <1>1, <1>2, <1>3 DEF OutputInv

(* Capturing a result again, or losing it, disturbs no one who reads it.      *)
LEMMA CaptureKeeps ==
    ASSUME ReaderInv, text' = text, reader' = reader,
           shown' = shown \/ shown' = Output!Excerpt(text),
           handle' = handle \/ shown' = Output!Excerpt(text)
    PROVE  ReaderInv'
<1>1. reader.state # "idle" => shown' = shown
  BY DEF ReaderInv
<1>2. handle' # 0 \/ reader.state # "idle" => shown' = Output!Excerpt(text)
  BY DEF ReaderInv
<1>3. reader.state \in {"reading", "end"} => reader.state # "idle"
  OBVIOUS
<1> QED BY <1>1, <1>2, <1>3 DEF ReaderInv

LEMMA OutputStep ==
    ASSUME Output!ConstantsOK, OutputInv, [Output!Next]_(Output!vars)
    PROVE  OutputInv'
<1> USE DEF OutputInv
<1>0. MaxSpills \in Nat /\ Budget \in Nat
  BY DEF Output!ConstantsOK
<1>1. TextInv'
  <2>1. text' = text
    BY DEF Output!Next, Output!vars, Output!BeginSpill, Output!WriteSpill, Output!EndSpill,
           Output!StartReading, Output!Read, Output!Close, Output!Prune
  <2> QED BY <2>1 DEF TextInv
<1>2. CASE Output!BeginSpill
  <2> DEFINE n == Output!Max({0, Len(entries) + 1 - Budget})
             kept == SubSeq(entries, n + 1, Len(entries))
  <2>1. entries \in Seq(Nat) /\ Len(entries) \in Nat /\ Budget > 0 /\ ~closed /\ minted < MaxSpills
    BY <1>2 DEF SpillInv, Output!BeginSpill
  <2>2. n \in 0 .. Len(entries) /\ Len(entries) - n + 1 <= Budget
    <3> DEFINE m == IF Len(entries) + 1 - Budget > 0 THEN Len(entries) + 1 - Budget ELSE 0
               P == {0, Len(entries) + 1 - Budget}
    <3>1. m \in P /\ \A x \in P : m >= x
      BY <1>0, <2>1
    <3>2. n \in P /\ \A x \in P : n >= x
      <4>1. \E y \in P : \A x \in P : y >= x
        BY <3>1
      <4> QED BY <4>1, Zenon DEF Output!Max
    <3> HIDE DEF n
    <3> QED BY <1>0, <2>1, <3>2
  <2> HIDE DEF n
  <2>3. kept \in Seq(Nat) /\ Len(kept) = Len(entries) - n
    <3>1. Len(kept) = Len(entries) - n
      BY <2>1, <2>2
    <3>2. kept \in Seq(Nat)
      BY <2>1, <2>2
    <3> QED BY <3>1, <3>2
  <2>4. entries' = kept /\ spilling' = minted + 1 /\ minted' = minted + 1
        /\ closed' = closed /\ pruned' = pruned /\ files' \subseteq files
    BY <1>2 DEF Output!BeginSpill, n, kept
  <2> HIDE DEF kept
  <2>5. minted + 1 \in 0 .. MaxSpills
    BY <1>0, <2>1 DEF SpillInv
  <2>6. Len(kept) + 1 <= Budget /\ Len(kept) <= Budget
    BY <1>0, <2>1, <2>2, <2>3
  <2>7. pruned => files' = {}
    BY <2>4 DEF SpillInv
  <2>8. SpillInv'
    BY <2>1, <2>3, <2>4, <2>5, <2>6, <2>7 DEF SpillInv
  <2>9. ReaderInv'
    BY <1>2, CaptureKeeps DEF Output!BeginSpill
  <2> QED BY <1>1, <2>8, <2>9
<1>3. CASE Output!WriteSpill
  <2>1. /\ spilling' \in {spilling, 0} /\ (pruned => files' = files)
        /\ UNCHANGED <<entries, minted, closed, pruned>>
    BY <1>3 DEF Output!WriteSpill
  <2>2. SpillInv'
    <3>1. 0 \in 0 .. MaxSpills
      BY <1>0
    <3> QED BY <2>1, <3>1 DEF SpillInv
  <2>3. ReaderInv'
    BY <1>3, CaptureKeeps DEF Output!WriteSpill
  <2> QED BY <1>1, <2>2, <2>3
<1>4. CASE Output!EndSpill
  <2>1. spilling # 0 /\ spilling' = 0 /\ UNCHANGED <<minted, closed, pruned>>
    BY <1>4 DEF Output!EndSpill
  <2>2. SpillInv'
    <3>1. 0 \in 0 .. MaxSpills
      BY <1>0
    <3>2. CASE closed
      <4>1. entries' = entries /\ files' \subseteq files
        BY <1>4, <3>2 DEF Output!EndSpill
      <4>2. pruned => files' = {}
        BY <4>1 DEF SpillInv
      <4> QED BY <2>1, <3>1, <4>1, <4>2 DEF SpillInv
    <3>3. CASE ~closed
      <4>1. entries' = Append(entries, spilling) /\ files' = files
        BY <1>4, <3>3 DEF Output!EndSpill
      <4>2. Append(entries, spilling) \in Seq(Nat) /\ Len(Append(entries, spilling)) = Len(entries) + 1
        BY <1>0 DEF SpillInv
      <4>3. Len(entries) + 1 <= Budget
        BY <2>1 DEF SpillInv
      <4> QED BY <2>1, <3>1, <3>3, <4>1, <4>2, <4>3 DEF SpillInv
    <3> QED BY <3>2, <3>3
  <2>3. ReaderInv'
    BY <1>4, CaptureKeeps DEF Output!EndSpill
  <2> QED BY <1>1, <2>2, <2>3
<1>5. CASE Output!StartReading
  <2>1. SpillInv'
    BY <1>5 DEF Output!StartReading, SpillInv
  <2>2. ReaderInv'
    <3>1. /\ reader = [offset |-> 0, got |-> {}, state |-> "idle"] /\ shown = Output!Excerpt(text)
          /\ reader' = [reader EXCEPT !.offset = shown.head, !.state = "reading"]
          /\ UNCHANGED <<text, shown, handle>>
      BY <1>5 DEF Output!StartReading, ReaderInv
    <3>2. reader' = [offset |-> shown.head, got |-> {}, state |-> "reading"]
      BY <3>1
    <3>3. Boundary(text, shown.head)
      BY <3>1, ExcerptIsWhole DEF TextInv
    <3>4. shown.head \in Nat
      <4>1. Len(text) \in Nat
        BY DEF TextInv, IsText
      <4> QED BY <3>3, <4>1 DEF Boundary
    <3>5. reader'.offset = shown.head /\ reader'.state = "reading"
      BY <3>2
    <3>6. \A i \in shown.head .. shown.head - 1 : i \in reader'.got
      BY <3>4
    <3> QED BY <3>1, <3>3, <3>4, <3>5, <3>6 DEF ReaderInv
  <2> QED BY <1>1, <2>1, <2>2
<1>6. CASE Output!Read
  <2>1. SpillInv'
    BY <1>6 DEF Output!Read, SpillInv
  <2>2. ReaderInv'
    <3> DEFINE page(limit) == Output!Page(text, reader.offset, limit)
    <3>1. /\ reader.state = "reading" /\ shown = Output!Excerpt(text)
          /\ reader.offset \in Nat /\ Boundary(text, reader.offset)
          /\ \A i \in shown.head .. reader.offset - 1 : i \in reader.got
          /\ UNCHANGED <<text, shown, handle>>
      BY <1>6 DEF Output!Read, ReaderInv
    <3>2. CASE reader' = [reader EXCEPT !.state = "lost"]
      <4>1. reader'.state = "lost"
        BY <3>2, <1>6 DEF Output!Read, ReaderInv
      <4> QED BY <3>1, <4>1 DEF ReaderInv
    <3>3. ASSUME NEW limit \in PageLimits,
                 reader' = [offset |-> page(limit).next,
                            got    |-> reader.got \cup (page(limit).offset .. page(limit).next - 1),
                            state  |-> IF page(limit).next >= Len(text) THEN "end" ELSE "reading"]
          PROVE  ReaderInv'
      <4>1. limit \in Nat \ {0}
        BY DEF Output!ConstantsOK
      <4>2. /\ page(limit).offset = reader.offset /\ page(limit).next >= reader.offset
            /\ Boundary(text, page(limit).next)
        BY <3>1, <4>1, PageIsWhole DEF TextInv
      <4> DEFINE next == page(limit).next
      <4>3. /\ reader'.offset = next
            /\ reader'.got = reader.got \cup (reader.offset .. next - 1)
            /\ reader'.state = IF next >= Len(text) THEN "end" ELSE "reading"
        BY <3>3, <4>2
      <4>4. next \in Nat
        <5>1. Len(text) \in Nat
          BY DEF TextInv, IsText
        <5> QED BY <4>2, <5>1 DEF Boundary
      <4>5. next >= reader.offset /\ Boundary(text, next)
        BY <4>2
      <4>6. Boundary(text, shown.head)
        BY <3>1, ExcerptIsWhole DEF TextInv
      <4>7. shown.head \in Nat
        <5>1. Len(text) \in Nat
          BY DEF TextInv, IsText
        <5> QED BY <4>6, <5>1 DEF Boundary
      <4> HIDE DEF next, page
      <4>8. \A i \in shown.head .. next - 1 : i \in reader'.got
        <5> TAKE i \in shown.head .. next - 1
        <5>1. i \in shown.head .. reader.offset - 1 \/ i \in reader.offset .. next - 1
          BY <3>1, <4>4, <4>7
        <5> QED BY <3>1, <4>3, <5>1
      <4>9. reader'.state \in {"reading", "end"} /\ (reader'.state = "end" => next >= Len(text))
        BY <4>3
      <4> QED BY <3>1, <4>3, <4>4, <4>5, <4>8, <4>9 DEF ReaderInv
    <3> QED BY <1>6, <3>2, <3>3 DEF Output!Read
  <2> QED BY <1>1, <2>1, <2>2
<1>7. CASE Output!Close
  <2>1. /\ closed' /\ pruned' /\ entries' = << >> /\ files' = {} /\ UNCHANGED <<spilling, minted>>
    BY <1>7 DEF Output!Close
  <2>2. << >> \in Seq(Nat) /\ Len(<< >>) = 0
    OBVIOUS
  <2>3. spilling # 0 => 0 + 1 <= Budget
    <3>1. Len(entries) \in Nat
      BY DEF SpillInv
    <3> QED BY <1>0, <3>1 DEF SpillInv
  <2>4. SpillInv'
    BY <1>0, <2>1, <2>2, <2>3 DEF SpillInv
  <2>5. ReaderInv'
    BY <1>7, CaptureKeeps DEF Output!Close
  <2> QED BY <1>1, <2>4, <2>5
<1>8. CASE Output!Prune
  <2>1. SpillInv'
    BY <1>8 DEF Output!Prune, SpillInv
  <2>2. ReaderInv'
    BY <1>8, CaptureKeeps DEF Output!Prune
  <2> QED BY <1>1, <2>1, <2>2
<1>9. CASE UNCHANGED Output!vars
  <2>1. SpillInv'
    BY <1>9 DEF Output!vars, SpillInv
  <2>2. ReaderInv'
    BY <1>9, CaptureKeeps DEF Output!vars
  <2> QED BY <1>1, <2>1, <2>2
<1> QED BY <1>2, <1>3, <1>4, <1>5, <1>6, <1>7, <1>8, <1>9 DEF Output!Next

(* Whatever runes a text is made of, and however large the pages that are asked *)
(* for: whoever reads on from the excerpt until the end has been given every    *)
(* byte that the excerpt's head does not show, and a closed store keeps nothing.*)
THEOREM NothingIsLeftOut == ASSUME Output!ConstantsOK PROVE DataSpec => []NothingIsOmitted
<1>1. DataInit => OutputInv
  BY OutputInit DEF DataInit
<1>2. OutputInv /\ [DataNext]_dataVars => OutputInv'
  <2>1. [DataNext]_dataVars => [Output!Next]_(Output!vars)
    BY DEF DataNext, StreamNext, StoreNext, OutputNext, CostsNext, WiresNext, FilterNext, dataVars,
           outputVars, Output!vars
  <2> QED BY <2>1, OutputStep
<1>3. OutputInv => NothingIsOmitted
  <2> SUFFICES ASSUME OutputInv
               PROVE  Output!TypeOK /\ Output!NothingIsOmitted /\ Output!CloseLeavesNothing
    BY DEF NothingIsOmitted
  <2>1. Output!TypeOK /\ Output!CloseLeavesNothing
    BY DEF OutputInv, SpillInv, ReaderInv, Output!TypeOK, Output!CloseLeavesNothing
  <2>2. ASSUME reader.state = "end", NEW i \in 0 .. Len(text) - 1
        PROVE  i \in (0 .. shown.head - 1) \cup reader.got
    <3>1. /\ shown = Output!Excerpt(text) /\ reader.offset \in Nat /\ reader.offset >= Len(text)
          /\ \A j \in shown.head .. reader.offset - 1 : j \in reader.got
      BY <2>2 DEF OutputInv, ReaderInv
    <3>2. Len(text) \in Nat
      BY DEF OutputInv, TextInv, IsText
    <3>3. Boundary(text, shown.head)
      BY <3>1, ExcerptIsWhole DEF OutputInv, TextInv
    <3>4. shown.head \in Nat
      BY <3>2, <3>3 DEF Boundary
    <3>5. i \in 0 .. shown.head - 1 \/ i \in shown.head .. reader.offset - 1
      BY <3>1, <3>2, <3>4
    <3> QED BY <3>1, <3>5
  <2> QED BY <2>1, <2>2 DEF Output!NothingIsOmitted
<1> QED BY <1>1, <1>2, <1>3, PTL DEF DataSpec


-----------------------------------------------------------------------------
(* WireRequest: any names of tools and any number of calls.  First, what     *)
(* flattening a sequence of sequences gives.                                 *)

\* The elements of C can be appended to one another, as the sequences over a
\* set can.
Closed(C) ==
    /\ << >> \in C
    /\ \A c \in C : << >> \o c = c /\ c \o << >> = c
    /\ \A c, d \in C : c \o d \in C
    /\ \A c, d, e \in C : (c \o d) \o e = c \o (d \o e)

LEMMA SeqIsClosed == ASSUME NEW S PROVE Closed(Seq(S))
<1>1. << >> \in Seq(S) /\ \A c, d \in Seq(S) : c \o d \in Seq(S)
  OBVIOUS
<1>2. \A c \in Seq(S) : << >> \o c = c /\ c \o << >> = c
  OBVIOUS
<1>3. \A c, d, e \in Seq(S) : (c \o d) \o e = c \o (d \o e)
  OBVIOUS
<1> QED BY <1>1, <1>2, <1>3 DEF Closed

\* g[i] is the first i of s, one after the other.
Joins(g, s, n) ==
    /\ g = [i \in 1..n |-> g[i]] /\ g[1] = s[1]
    /\ \A i \in 2..n : g[i] = g[i - 1] \o s[i]

LEMMA FlattenIs ==
    ASSUME NEW n \in Nat \ {0}, NEW s, Len(s) = n, NEW g, Joins(g, s, n)
    PROVE  FlattenSeq(s) = g[n]
<1> DEFINE d == CHOOSE f : f = [i \in 1..n |-> IF i = 1 THEN s[i] ELSE f[i - 1] \o s[i]]
<1>1. \A i \in 1..n : g[i] = IF i = 1 THEN s[i] ELSE g[i - 1] \o s[i]
  <2> TAKE i \in 1..n
  <2>1. i = 1 \/ i \in 2..n
    OBVIOUS
  <2> QED BY <2>1 DEF Joins
<1>2. \E f : f = [i \in 1..n |-> IF i = 1 THEN s[i] ELSE f[i - 1] \o s[i]]
  <2>1. g = [i \in 1..n |-> g[i]]
    BY DEF Joins
  <2>2. g = [i \in 1..n |-> IF i = 1 THEN s[i] ELSE g[i - 1] \o s[i]]
    BY <1>1, <2>1
  <2> QED BY <2>2
<1>3. d = [i \in 1..n |-> IF i = 1 THEN s[i] ELSE d[i - 1] \o s[i]]
  BY <1>2, Zenon
<1>4. FlattenSeq(s) = d[n]
  <2>1. FlattenSeq(s) = IF Len(s) = 0 THEN s ELSE
           (CHOOSE f : f = [i \in 1 .. Len(s) |-> IF i = 1 THEN s[i] ELSE f[i - 1] \o s[i]])[Len(s)]
    BY Zenon DEF FlattenSeq
  <2> QED BY <2>1
<1> HIDE DEF d
<1> DEFINE T == {i \in 0..n : i > 0 /\ d[i] # g[i]}
<1>5. ASSUME T # {} PROVE FALSE
  <2>1. PICK i \in T : \A l \in T : i <= l
    <3>1. T \in SUBSET (0..n) /\ n \in Nat
      OBVIOUS
    <3> HIDE DEF T
    <3> QED BY <1>5, <3>1, Least
  <2>2. i \in 1..n /\ d[i] # g[i]
    OBVIOUS
  <2>3. i # 1
    BY <1>1, <1>3, <2>2
  <2>4. i - 1 \in 0..n /\ i - 1 > 0 /\ ~(i <= i - 1) /\ i - 1 \in 1..n
    BY <2>2, <2>3
  <2>5. d[i - 1] = g[i - 1]
    BY <2>1, <2>4
  <2> HIDE DEF T
  <2> QED BY <1>1, <1>3, <2>2, <2>5
<1>6. n \in 0..n /\ n > 0 /\ n \notin T
  BY <1>5
<1>7. d[n] = g[n]
  BY <1>6
<1> QED BY <1>4, <1>7

LEMMA Partials ==
    ASSUME NEW C, Closed(C), NEW n \in Nat \ {0}, NEW s \in [1..n -> C]
    PROVE  \E g \in [1..n -> C] : Joins(g, s, n)
<1> DEFINE step == [x \in (1..n) \X C |-> x[2] \o s[x[1]]]
<1>1. s[1] \in C /\ \A i \in 1..n : s[i] \in C
  OBVIOUS
<1>2. step \in [(1..n) \X C -> C] /\ \A k \in 1..n, c \in C : step[<<k, c>>] = c \o s[k]
  BY <1>1 DEF Closed
<1> HIDE DEF step
<1>3. PICK g : Iteration(g, n, C, s[1], step)
  BY <1>1, <1>2, Iterates
<1>4. g \in [1..n -> C] /\ g[1] = s[1]
  <2>1. 1 \in 1..n
    OBVIOUS
  <2> QED BY <1>3, <2>1 DEF Iteration
<1>5. ASSUME NEW i \in 2..n PROVE g[i] = g[i - 1] \o s[i]
  <2>1. i \in 1..n /\ i # 1 /\ i - 1 \in 1..n
    OBVIOUS
  <2>2. g[i] = step[<<i, g[i - 1]>>] /\ g[i - 1] \in C
    BY <1>3, <2>1 DEF Iteration
  <2> QED BY <1>2, <2>1, <2>2
<1>6. g = [i \in 1..n |-> g[i]]
  BY <1>4
<1> QED BY <1>4, <1>5, <1>6 DEF Joins

LEMMA FlattenEmpty == FlattenSeq(<< >>) = << >>
<1>1. Len(<< >>) = 0
  OBVIOUS
<1> QED BY <1>1, Zenon DEF FlattenSeq

LEMMA SequenceIs ==
    ASSUME NEW C, NEW s \in Seq(C)
    PROVE  Len(s) \in Nat /\ s \in [1 .. Len(s) -> C] /\ (s # << >> => Len(s) \in Nat \ {0})
OBVIOUS

LEMMA FlattenTyped ==
    ASSUME NEW C, Closed(C), NEW s \in Seq(C)
    PROVE  FlattenSeq(s) \in C
<1>1. CASE s = << >>
  BY <1>1, FlattenEmpty DEF Closed
<1>2. CASE s # << >>
  <2> DEFINE n == Len(s)
  <2>1. n \in Nat \ {0} /\ s \in [1..n -> C] /\ Len(s) = n
    BY <1>2, SequenceIs
  <2> HIDE DEF n
  <2>2. PICK g \in [1..n -> C] : Joins(g, s, n)
    BY <2>1, Partials
  <2>3. FlattenSeq(s) = g[n]
    BY <2>1, <2>2, FlattenIs
  <2> QED BY <2>1, <2>2, <2>3
<1> QED BY <1>1, <1>2

LEMMA FlattenAppend ==
    ASSUME NEW C, Closed(C), NEW s \in Seq(C), NEW x \in C
    PROVE  FlattenSeq(Append(s, x)) = FlattenSeq(s) \o x
<1> DEFINE n == Len(s)
           q == Append(s, x)
<1>1. n \in Nat /\ Len(q) = n + 1 /\ q[n + 1] = x /\ s \in [1..n -> C]
      /\ (\A i \in 1..n : q[i] = s[i]) /\ n + 1 \in Nat \ {0} /\ (s # << >> => n # 0) /\ (s = << >> => n = 0)
  OBVIOUS
<1> HIDE DEF n, q
<1>2. CASE s = << >>
  <2> DEFINE g == [i \in 1..1 |-> x]
  <2>1. n + 1 = 1 /\ q[1] = x
    BY <1>1, <1>2
  <2>2. Joins(g, q, 1)
    BY <2>1 DEF Joins
  <2>3. g[1] = x
    OBVIOUS
  <2> HIDE DEF g
  <2>4. FlattenSeq(q) = g[1]
    BY <1>1, <2>1, <2>2, FlattenIs
  <2>5. FlattenSeq(s) \o x = x
    BY <1>2, FlattenEmpty DEF Closed
  <2> QED BY <2>3, <2>4, <2>5 DEF q
<1>3. CASE s # << >>
  <2>1. n \in Nat \ {0}
    BY <1>1, <1>3
  <2>2. PICK h \in [1..n -> C] : Joins(h, s, n)
    BY <1>1, <2>1, Partials
  <2>3. FlattenSeq(s) = h[n]
    <3>1. Len(s) = n
      BY DEF n
    <3> QED BY <3>1, <2>1, <2>2, FlattenIs
  <2> DEFINE g == [i \in 1 .. n + 1 |-> IF i \in 1..n THEN h[i] ELSE h[n] \o x]
  <2>4. g = [i \in 1 .. n + 1 |-> g[i]] /\ (\A i \in 1..n : g[i] = h[i]) /\ g[n + 1] = h[n] \o x
    BY <2>1
  <2> HIDE DEF g
  <2>5. g[1] = q[1]
    <3>1. 1 \in 1..n /\ h[1] = s[1]
      BY <2>1, <2>2 DEF Joins
    <3> QED BY <1>1, <2>4, <3>1
  <2>6. \A i \in 2 .. n + 1 : g[i] = g[i - 1] \o q[i]
    <3> TAKE i \in 2 .. n + 1
    <3>1. CASE i \in 2..n
      <4>1. i \in 1..n /\ i - 1 \in 1..n
        BY <2>1, <3>1
      <4> QED BY <1>1, <2>2, <2>4, <3>1, <4>1 DEF Joins
    <3>2. CASE i = n + 1
      <4>1. i - 1 = n /\ n \in 1..n
        BY <2>1, <3>2
      <4>2. g[i] = h[n] \o x /\ g[i - 1] = h[n] /\ q[i] = x
        BY <1>1, <2>4, <3>2, <4>1
      <4> QED BY <4>2
    <3>3. i \in 2..n \/ i = n + 1
      BY <2>1
    <3> QED BY <3>1, <3>2, <3>3
  <2>7. Joins(g, q, n + 1)
    BY <2>4, <2>5, <2>6 DEF Joins
  <2>8. FlattenSeq(q) = g[n + 1]
    BY <1>1, <2>7, FlattenIs
  <2> QED BY <2>3, <2>4, <2>8 DEF q
<1> QED BY <1>2, <1>3

LEMMA FlattenOne ==
    ASSUME NEW x
    PROVE  FlattenSeq(<<x>>) = x
<1> DEFINE g == [i \in 1..1 |-> x]
           s == <<x>>
<1>1. g[1] = x /\ s[1] = x /\ Len(s) = 1 /\ g = [i \in 1..1 |-> g[i]] /\ 1 \in Nat \ {0}
  OBVIOUS
<1> HIDE DEF g, s
<1>2. Joins(g, s, 1)
  BY <1>1 DEF Joins
<1>3. FlattenSeq(s) = g[1]
  BY <1>1, <1>2, FlattenIs
<1> QED BY <1>1, <1>3 DEF s

(* Flattening the whole is flattening its halves.                             *)
LEMMA FlattenConcat ==
    ASSUME NEW S, NEW s \in Seq(Seq(S)), NEW t \in Seq(Seq(S))
    PROVE  FlattenSeq(s \o t) = FlattenSeq(s) \o FlattenSeq(t)
<1> DEFINE C == Seq(S)
           n == Len(t)
           P(k) == SubSeq(t, 1, k)
           Same(k) == FlattenSeq(s \o P(k)) = FlattenSeq(s) \o FlattenSeq(P(k))
           T == {k \in 0..n : ~Same(k)}
<1>1. Closed(C)
  BY SeqIsClosed
<1>2. /\ \A c \in C : << >> \o c = c /\ c \o << >> = c
      /\ \A c, d, e \in C : (c \o d) \o e = c \o (d \o e)
  BY <1>1 DEF Closed
<1> HIDE DEF C
<1>3. s \in Seq(C) /\ t \in Seq(C)
  BY DEF C
<1>4. n \in Nat /\ P(0) = << >> /\ P(n) = t
  BY <1>3
<1>5. \A k \in 0..n : P(k) \in Seq(C)
  BY <1>3
<1>6. \A k \in 1..n : t[k] \in C /\ P(k) = Append(P(k - 1), t[k])
  <2> TAKE k \in 1..n
  <2>1. k \in 1 .. Len(t) /\ Len(t) \in Nat
    BY <1>3
  <2>2. t[k] \in C
    BY <1>3, <2>1
  <2>3. SubSeq(t, 1, k) = Append(SubSeq(t, 1, k - 1), t[k])
    BY <1>3, <2>1
  <2> QED BY <2>2, <2>3
<1> HIDE DEF P, n
<1>7. FlattenSeq(s) \in C /\ \A k \in 0..n : FlattenSeq(P(k)) \in C
  BY <1>1, <1>3, <1>5, FlattenTyped
<1>8. Same(0)
  <2>1. s \o << >> = s
    BY <1>3
  <2> QED BY <1>2, <1>4, <1>7, <2>1, FlattenEmpty
<1>9. ASSUME NEW k \in 1..n, Same(k - 1) PROVE Same(k)
  <2>1. k - 1 \in 0..n /\ k \in 0..n
    BY <1>4
  <2>2. P(k - 1) \in Seq(C) /\ t[k] \in C /\ P(k) = Append(P(k - 1), t[k])
    BY <1>5, <1>6, <2>1
  <2>3. s \o P(k) = Append(s \o P(k - 1), t[k]) /\ s \o P(k - 1) \in Seq(C)
    BY <1>3, <2>2
  <2>4. FlattenSeq(s \o P(k)) = FlattenSeq(s \o P(k - 1)) \o t[k]
    BY <1>1, <2>2, <2>3, FlattenAppend
  <2>5. FlattenSeq(P(k)) = FlattenSeq(P(k - 1)) \o t[k]
    BY <1>1, <2>2, FlattenAppend
  <2>6. FlattenSeq(s \o P(k - 1)) = FlattenSeq(s) \o FlattenSeq(P(k - 1))
    BY <1>9
  <2>7. (FlattenSeq(s) \o FlattenSeq(P(k - 1))) \o t[k] = FlattenSeq(s) \o (FlattenSeq(P(k - 1)) \o t[k])
    BY <1>2, <1>7, <2>1, <2>2
  <2> QED BY <2>4, <2>5, <2>6, <2>7
<1> HIDE DEF Same
<1>10. ASSUME T # {} PROVE FALSE
  <2>1. PICK k \in T : \A l \in T : k <= l
    <3>1. T \in SUBSET (0..n)
      OBVIOUS
    <3> HIDE DEF T
    <3> QED BY <1>4, <1>10, <3>1, Least
  <2>2. k \in 0..n /\ ~Same(k)
    OBVIOUS
  <2>3. k - 1 \in 0..n /\ ~(k <= k - 1) /\ k \in 1..n
    BY <1>4, <1>8, <2>2
  <2>4. Same(k - 1)
    BY <2>1, <2>3
  <2> QED BY <1>9, <2>2, <2>3, <2>4
<1>11. Same(n)
  BY <1>4, <1>10
<1> QED BY <1>4, <1>11 DEF Same

-----------------------------------------------------------------------------
(* A transcript as the agent leaves it: the calls of a message are numbered  *)
(* in its order and their ids tell them apart, or there are none; and every  *)
(* tool message is the result of the call at its own distance from the last  *)
(* message of the assistant, with only results between the two.              *)
CallSet == [id : Nat, name : Names, n : Nat]
Msgs    == [role : {"user", "assistant", "tool"}, calls : Seq(CallSet), id : Nat,
            name : Names \cup {""}, n : Nat]

CallsAre(cs) ==
    /\ cs \in Seq(CallSet)
    /\ \A k \in 1 .. Len(cs) : cs[k].n = k
    /\ \/ \A k \in 1 .. Len(cs) : cs[k].id = 0
       \/ \A j, k \in 1 .. Len(cs) : cs[j].id # 0 /\ (cs[j].id = cs[k].id => j = k)

Replied(ms, j, i) ==
    /\ ms[j].role = "assistant" /\ i - j <= Len(ms[j].calls)
    /\ ms[i] = Wires!ToolResult(ms[j].calls[i - j])
    /\ \A l \in j + 1 .. i : ms[l].role = "tool"

MsgIs(ms, i) ==
    \/ ms[i] = Wires!User
    \/ CallsAre(ms[i].calls) /\ ms[i] = Wires!Assistant(ms[i].calls)
    \/ \E j \in 1 .. i - 1 : Replied(ms, j, i)

TranscriptIs(ms) == ms \in Seq(Msgs) /\ \A i \in 1 .. Len(ms) : MsgIs(ms, i)

WireInv == Wires!TypeOK /\ TranscriptIs(messages)

LEMMA MadeOf ==
    /\ Wires!User \in Msgs /\ CallsAre(<< >>)
    /\ \A cs \in Seq(CallSet) : Wires!Assistant(cs) \in Msgs /\ Wires!Assistant(cs).calls = cs
                                /\ Wires!Assistant(cs).role = "assistant"
    /\ \A c \in CallSet : Wires!ToolResult(c) \in Msgs /\ Wires!ToolResult(c).role = "tool"
                          /\ Wires!ToolResult(c).id = c.id /\ Wires!ToolResult(c).name = c.name
                          /\ Wires!ToolResult(c).n = c.n
<1>1. << >> \in Seq(CallSet) /\ Len(<< >>) = 0
  OBVIOUS
<1>2. Wires!User \in Msgs /\ CallsAre(<< >>)
  BY <1>1 DEF Wires!User, Msgs, CallsAre
<1>3. ASSUME NEW cs \in Seq(CallSet)
      PROVE  Wires!Assistant(cs) \in Msgs /\ Wires!Assistant(cs).calls = cs
             /\ Wires!Assistant(cs).role = "assistant"
  BY DEF Wires!Assistant, Msgs
<1>4. ASSUME NEW c \in CallSet
      PROVE  Wires!ToolResult(c) \in Msgs /\ Wires!ToolResult(c).role = "tool"
             /\ Wires!ToolResult(c).id = c.id /\ Wires!ToolResult(c).name = c.name
             /\ Wires!ToolResult(c).n = c.n
  BY <1>1 DEF Wires!ToolResult, Msgs, CallSet
<1> QED BY <1>2, <1>3, <1>4

LEMMA Roles == Wires!User.role = "user" /\ \A cs : Wires!Assistant(cs).role = "assistant"
BY DEF Wires!User, Wires!Assistant

(* A message added at the end changes nothing of those before it.             *)
LEMMA TranscriptGrows ==
    ASSUME NEW ms, TranscriptIs(ms), NEW m \in Msgs, MsgIs(Append(ms, m), Len(ms) + 1)
    PROVE  TranscriptIs(Append(ms, m))
<1> DEFINE n == Len(ms)
           q == Append(ms, m)
<1>1. n \in Nat /\ Len(q) = n + 1 /\ q \in Seq(Msgs) /\ \A i \in 1..n : q[i] = ms[i]
  BY DEF TranscriptIs
<1> HIDE DEF n, q
<1>2. ASSUME NEW i \in 1..n PROVE MsgIs(q, i)
  <2>1. MsgIs(ms, i) /\ q[i] = ms[i]
    BY <1>1 DEF TranscriptIs, n
  <2>2. ASSUME NEW j \in 1 .. i - 1, Replied(ms, j, i) PROVE Replied(q, j, i)
    <3>1. q[j] = ms[j] /\ \A l \in j + 1 .. i : q[l] = ms[l]
      BY <1>1
    <3> QED BY <2>1, <2>2, <3>1 DEF Replied
  <2> QED BY <2>1, <2>2 DEF MsgIs
<1>3. \A i \in 1 .. n + 1 : i \in 1..n \/ i = n + 1
  BY <1>1
<1> QED BY <1>1, <1>2, <1>3 DEF TranscriptIs, n, q

LEMMA LastIs ==
    ASSUME NEW n \in Nat, NEW S \in SUBSET (0..n), S # {}
    PROVE  \E x \in S : \A y \in S : x >= y
<1> DEFINE R == {n - x : x \in S}
<1>1. R \in SUBSET (0..n) /\ R # {}
  <2>1. \A x \in S : n - x \in 0..n
    OBVIOUS
  <2>2. PICK x \in S : TRUE
    OBVIOUS
  <2>3. n - x \in R
    OBVIOUS
  <2> QED BY <2>1, <2>3
<1>2. PICK m \in R : \A x \in R : m <= x
  <2> HIDE DEF R
  <2> QED BY <1>1, Least
<1>3. PICK t \in S : m = n - t
  OBVIOUS
<1>4. \A x \in S : t >= x
  <2> TAKE x \in S
  <2>1. m <= n - x
    BY <1>2
  <2> QED BY <1>3, <2>1
<1> QED BY <1>4

LEMMA LastAssistantIs ==
    ASSUME TranscriptIs(messages), Wires!LastAssistant # 0
    PROVE  Wires!LastAssistant \in 1 .. Len(messages) /\ messages[Wires!LastAssistant].role = "assistant"
<1> DEFINE S == {0} \cup {i \in 1 .. Len(messages) : messages[i].role = "assistant"}
<1>1. Len(messages) \in Nat /\ DOMAIN messages = 1 .. Len(messages)
  BY DEF TranscriptIs
<1>2. S \in SUBSET (0 .. Len(messages)) /\ S # {}
  BY <1>1
<1>3. Wires!LastAssistant = Wires!Max(S)
  BY <1>1, Zenon DEF Wires!LastAssistant
<1>4. Wires!Max(S) \in S
  <2> HIDE DEF S
  <2>1. \E x \in S : \A y \in S : x >= y
    BY <1>1, <1>2, LastIs
  <2> QED BY <2>1, Zenon DEF Wires!Max
<1> QED BY <1>3, <1>4

LEMMA WireInit == ASSUME Wires!ConstantsOK, Wires!Init PROVE WireInv
<1>1. messages = <<Wires!User>> /\ Len(messages) = 1 /\ messages[1] = Wires!User /\ messages \in Seq(Msgs)
  BY MadeOf DEF Wires!Init
<1>2. \A i \in 1 .. Len(messages) : MsgIs(messages, i)
  BY <1>1 DEF MsgIs
<1>3. Wires!TypeOK
  BY DEF Wires!ConstantsOK, Wires!Init, Wires!TypeOK
<1> QED BY <1>1, <1>2, <1>3 DEF WireInv, TranscriptIs

LEMMA ReplyKeeps == ASSUME Wires!ConstantsOK, WireInv, Wires!Reply PROVE WireInv'
<1>1. /\ replies \in 0 .. MaxReplies /\ replies < MaxReplies /\ replies' = replies + 1
      /\ provider' = provider /\ provider \in Wires!Adapters /\ MaxReplies \in Nat /\ MaxCalls \in Nat
      /\ TranscriptIs(messages)
  BY DEF WireInv, Wires!TypeOK, Wires!Reply, Wires!ConstantsOK
<1>2. PICK k \in 0 .. MaxCalls, ids \in Wires!CallIDs, names \in [1 .. MaxCalls -> Names] :
         messages' = Append(messages, Wires!Assistant([j \in 1 .. k |-> Wires!Call(ids[j], names[j], j)]))
  BY DEF Wires!Reply
<1> DEFINE cs == [j \in 1 .. k |-> Wires!Call(ids[j], names[j], j)]
           m == Wires!Assistant(cs)
<1>3. /\ \A j \in 1..k : ids[j] \in Nat
      /\ \/ \A j \in 1..k : ids[j] = 0
         \/ \A i, j \in 1..k : ids[i] # 0 /\ (ids[i] = ids[j] => i = j)
  <2>1. \/ ids = [i \in 1 .. MaxCalls |-> i]
        \/ ids = [i \in 1 .. MaxCalls |-> 100 * (replies + 1) + i]
        \/ ids = [i \in 1 .. MaxCalls |-> 0]
    BY DEF Wires!CallIDs
  <2>2. \A j \in 1..k : j \in 1 .. MaxCalls /\ j \in Nat /\ j # 0
    BY <1>1
  <2>3. CASE ids = [i \in 1 .. MaxCalls |-> i]
    BY <2>2, <2>3
  <2>4. CASE ids = [i \in 1 .. MaxCalls |-> 100 * (replies + 1) + i]
    <3>1. \A j \in 1..k : ids[j] = 100 * (replies + 1) + j
      BY <2>2, <2>4
    <3> QED BY <1>1, <2>2, <3>1
  <2>5. CASE ids = [i \in 1 .. MaxCalls |-> 0]
    BY <2>2, <2>5
  <2> QED BY <2>1, <2>3, <2>4, <2>5
<1>4. /\ Len(cs) = k /\ cs \in Seq(CallSet)
      /\ \A j \in 1..k : cs[j].n = j /\ cs[j].id = ids[j]
  <2>1. \A j \in 1..k : Wires!Call(ids[j], names[j], j) \in CallSet
                        /\ Wires!Call(ids[j], names[j], j).n = j
                        /\ Wires!Call(ids[j], names[j], j).id = ids[j]
    <3> TAKE j \in 1..k
    <3>1. j \in 1 .. MaxCalls /\ names[j] \in Names /\ ids[j] \in Nat /\ j \in Nat
      BY <1>1, <1>3
    <3> QED BY <3>1 DEF Wires!Call, CallSet
  <2>2. k \in Nat
    OBVIOUS
  <2> QED BY <2>1, <2>2
<1> HIDE DEF cs
<1>5. CallsAre(cs)
  BY <1>3, <1>4 DEF CallsAre
<1>6. m \in Msgs /\ m.calls = cs
  BY <1>4, MadeOf
<1> HIDE DEF m
<1>7. MsgIs(Append(messages, m), Len(messages) + 1)
  <2>1. Append(messages, m)[Len(messages) + 1] = m
    BY <1>1 DEF TranscriptIs
  <2> QED BY <1>5, <1>6, <2>1 DEF MsgIs, m
<1>8. TranscriptIs(messages')
  <2>1. messages' = Append(messages, m)
    BY <1>2 DEF m, cs
  <2> QED BY <1>1, <1>6, <1>7, <2>1, TranscriptGrows
<1> QED BY <1>1, <1>8 DEF WireInv, Wires!TypeOK, TranscriptIs

LEMMA ResultKeeps == ASSUME Wires!ConstantsOK, WireInv, Wires!Result PROVE WireInv'
<1> DEFINE a == Wires!LastAssistant
           n == Len(messages)
           cs == messages[a].calls
           c == cs[n - a + 1]
           m == Wires!ToolResult(c)
<1>1. /\ messages' = Append(messages, m) /\ UNCHANGED <<provider, replies>>
      /\ a # 0 /\ n - a < Len(cs) /\ (\A i \in a + 1 .. n : messages[i].role = "tool")
      /\ TranscriptIs(messages) /\ Wires!TypeOK
  BY DEF Wires!Result, Wires!Unanswered, WireInv
<1>2. a \in 1..n /\ messages[a].role = "assistant" /\ n \in Nat
  BY <1>1, LastAssistantIs DEF TranscriptIs
<1> HIDE DEF a
<1>3. messages[a] \in Msgs /\ cs \in Seq(CallSet)
  <2>1. messages[a] \in Msgs
    BY <1>1, <1>2 DEF TranscriptIs
  <2> QED BY <2>1 DEF Msgs
<1>4. c \in CallSet
  <2>1. n - a + 1 \in 1 .. Len(cs)
    BY <1>1, <1>2, <1>3
  <2> QED BY <1>3, <2>1
<1>5. m \in Msgs /\ m.role = "tool"
  BY <1>4, MadeOf
<1> DEFINE q == Append(messages, m)
<1>6. q[n + 1] = m /\ \A i \in 1..n : q[i] = messages[i]
  BY <1>1, <1>2 DEF TranscriptIs
<1>7. Replied(q, a, n + 1)
  <2>1. n + 1 - a <= Len(cs) /\ n + 1 - a = n - a + 1
    BY <1>1, <1>2, <1>3
  <2>2. \A l \in a + 1 .. n + 1 : l = n + 1 \/ l \in a + 1 .. n
    BY <1>2
  <2>3. \A l \in a + 1 .. n + 1 : q[l].role = "tool"
    <3> TAKE l \in a + 1 .. n + 1
    <3>1. l \in a + 1 .. n => l \in 1..n
      BY <1>2
    <3> HIDE DEF q, m, n
    <3> QED BY <1>1, <1>5, <1>6, <2>2, <3>1
  <2>4. q[a] = messages[a]
    BY <1>2, <1>6
  <2>5. q[n + 1] = Wires!ToolResult(q[a].calls[n + 1 - a])
    <3> HIDE DEF q
    <3> QED BY <1>6, <2>1, <2>4
  <2> HIDE DEF q, m, n
  <2> QED BY <1>2, <2>1, <2>3, <2>4, <2>5 DEF Replied
<1>8. MsgIs(q, n + 1)
  <2> DEFINE l == n + 1
  <2>1. a \in 1 .. l - 1
    BY <1>2
  <2>2. Replied(q, a, l)
    BY <1>7
  <2> HIDE DEF q, l
  <2>3. MsgIs(q, l)
    BY <2>1, <2>2 DEF MsgIs
  <2> QED BY <2>3 DEF l

<1>9. TranscriptIs(messages')
  <2> HIDE DEF m
  <2> QED BY <1>1, <1>5, <1>8, TranscriptGrows
<1> HIDE DEF m
<1> QED BY <1>1, <1>9 DEF WireInv, Wires!TypeOK, TranscriptIs

LEMMA PromptKeeps == ASSUME Wires!ConstantsOK, WireInv, Wires!Prompt PROVE WireInv'
<1>1. /\ messages' = Append(messages, Wires!User) /\ provider' \in Wires!Adapters /\ replies' = replies
      /\ TranscriptIs(messages) /\ Wires!TypeOK
  BY DEF Wires!Prompt, WireInv
<1>2. MsgIs(Append(messages, Wires!User), Len(messages) + 1)
  <2>1. Append(messages, Wires!User)[Len(messages) + 1] = Wires!User
    BY <1>1 DEF TranscriptIs
  <2> QED BY <2>1 DEF MsgIs
<1>3. TranscriptIs(messages')
  BY <1>1, <1>2, MadeOf, TranscriptGrows
<1> QED BY <1>1, <1>3 DEF WireInv, Wires!TypeOK, TranscriptIs

LEMMA WireStep ==
    ASSUME Wires!ConstantsOK, WireInv, [Wires!Next]_(Wires!vars)
    PROVE  WireInv'
<1>1. CASE UNCHANGED Wires!vars
  <2>1. messages' = messages /\ provider' = provider /\ replies' = replies
    BY <1>1 DEF Wires!vars
  <2>2. TranscriptIs(messages')
    BY <2>1 DEF WireInv
  <2> QED BY <2>1, <2>2 DEF WireInv, TranscriptIs, Wires!TypeOK
<1> QED BY <1>1, ReplyKeeps, ResultKeeps, PromptKeeps DEF Wires!Next

-----------------------------------------------------------------------------
(* The tool messages after a message with calls are the results of the first *)
(* of them, in order.                                                        *)
LEMMA GroupIs ==
    ASSUME NEW ms, TranscriptIs(ms), NEW i \in 1 .. Len(ms), ms[i].role = "assistant"
    PROVE  /\ CallsAre(ms[i].calls) /\ ms[i] = Wires!Assistant(ms[i].calls)
           /\ Wires!T!AfterResults(ms, i) \in i + 1 .. Len(ms) + 1
           /\ Wires!T!AfterResults(ms, i) - 1 - i <= Len(ms[i].calls)
           /\ \A k \in 1 .. Wires!T!AfterResults(ms, i) - 1 - i : ms[i + k] = Wires!ToolResult(ms[i].calls[k])
<1> DEFINE n == Len(ms)
           S == {j \in i + 1 .. n + 1 : j = n + 1 \/ ms[j].role # "tool"}
           e == Wires!T!AfterResults(ms, i)
           cs == ms[i].calls
<1>1. n \in Nat /\ ms \in Seq(Msgs) /\ i \in Nat /\ \A j \in 1..n : ms[j] \in Msgs /\ MsgIs(ms, j)
  BY DEF TranscriptIs
<1>2. e \in S /\ \A y \in S : e <= y
  <2>1. e = Wires!T!Min(S)
    BY Zenon DEF Wires!T!AfterResults
  <2>2. S \in SUBSET (0 .. n + 1) /\ n + 1 \in S /\ n + 1 \in Nat
    BY <1>1
  <2> HIDE DEF S
  <2>3. \E m \in S : \A x \in S : m <= x
    BY <2>2, Least
  <2> QED BY <2>1, <2>3, Zenon DEF Wires!T!Min
<1>3. e \in i + 1 .. n + 1 /\ \A l \in i + 1 .. e - 1 : ms[l].role = "tool"
  <2>1. e \in i + 1 .. n + 1
    BY <1>2
  <2>2. ASSUME NEW l \in i + 1 .. e - 1, ms[l].role # "tool" PROVE FALSE
    <3>1. l \in S /\ ~(e <= l)
      BY <1>1, <2>1, <2>2
    <3> QED BY <1>2, <3>1
  <2> QED BY <2>1, <2>2
<1> HIDE DEF e, S
<1>4. CallsAre(cs) /\ ms[i] = Wires!Assistant(cs)
  <2>1. ms[i] # Wires!User
    BY Roles
  <2>2. ASSUME NEW j \in 1 .. i - 1, Replied(ms, j, i) PROVE FALSE
    <3>1. i \in j + 1 .. i
      BY <1>1
    <3>2. ms[i].role = "tool"
      BY <2>2, <3>1 DEF Replied
    <3> QED BY <3>2
  <2> QED BY <1>1, <2>1, <2>2 DEF MsgIs
<1>5. cs \in Seq(CallSet) /\ Len(cs) \in Nat
  BY <1>4 DEF CallsAre
<1>6. ASSUME NEW k \in 1 .. e - 1 - i PROVE k <= Len(cs) /\ ms[i + k] = Wires!ToolResult(cs[k])
  <2> DEFINE p == i + k
  <2>1. p \in i + 1 .. e - 1 /\ p \in 1..n /\ p \in Nat /\ e \in Nat
    BY <1>1, <1>3
  <2>2. ms[p].role = "tool" /\ MsgIs(ms, p)
    BY <1>1, <1>3, <2>1
  <2> HIDE DEF p
  <2>3. ms[p] # Wires!User /\ ms[p] # Wires!Assistant(ms[p].calls)
    BY <2>2, Roles
  <2>4. PICK j \in 1 .. p - 1 : Replied(ms, j, p)
    BY <2>2, <2>3 DEF MsgIs
  <2>5. ms[j].role = "assistant" /\ \A l \in j + 1 .. p : ms[l].role = "tool"
    BY <2>4 DEF Replied
  <2>6. j = i
    <3>1. ~(j < i)
      <4>1. j < i => i \in j + 1 .. p
        BY <1>1, <2>1, <2>4
      <4> QED BY <2>5, <4>1
    <3>2. ~(j > i)
      <4>1. j > i => j \in i + 1 .. e - 1
        BY <1>1, <2>1, <2>4
      <4> QED BY <1>3, <2>5, <4>1
    <3> QED BY <1>1, <2>1, <2>4, <3>1, <3>2
  <2>7. p - i = k /\ k \in Nat
    BY <1>1, <2>1 DEF p
  <2> QED BY <2>4, <2>6, <2>7 DEF Replied, p
<1>7. e - 1 - i <= Len(cs)
  <2>1. e - 1 - i \in Nat
    BY <1>1, <1>3
  <2>2. e - 1 - i = 0 \/ e - 1 - i \in 1 .. e - 1 - i
    BY <2>1
  <2>3. 0 <= Len(cs)
    BY <1>5
  <2> QED BY <1>6, <2>2, <2>3
<1> QED BY <1>3, <1>4, <1>6, <1>7 DEF e

(* Whether it is known by its id or by its name, the next result is the next *)
(* call's.                                                                   *)
LEMMA NextIsTaken ==
    ASSUME NEW cs, CallsAre(cs), NEW k \in 1 .. Len(cs), NEW out
    PROVE  Wires!T!TakeResult(cs, Wires!ToolResult(cs[k]), [matched |-> 1 .. k - 1, results |-> out])
               = [matched |-> 1..k, results |-> Append(out, Wires!ToolResult(cs[k]))]
<1> DEFINE n == Len(cs)
           result == Wires!ToolResult(cs[k])
           before == 1 .. k - 1
           free   == DOMAIN cs \ before
           byId   == {i \in free : cs[i].id # 0 /\ cs[i].id = result.id}
           byName == {i \in free : cs[i].name = result.name}
           acc    == [matched |-> before, results |-> out]
           c      == Wires!T!matchingToolCallIndex(cs, result, before)
<1>1. n \in Nat /\ DOMAIN cs = 1..n /\ k \in Nat /\ cs \in Seq(CallSet) /\ \A i \in 1..n : cs[i] \in CallSet
  BY DEF CallsAre
<1>2. free = k..n /\ k \in k..n
  BY <1>1
<1>3. result.id = cs[k].id /\ result.name = cs[k].name /\ cs[k].id \in Nat /\ cs[k] \in CallSet
  <2>1. cs[k] \in CallSet
    BY <1>1
  <2> QED BY <2>1, MadeOf DEF CallSet
<1>4. k \in byName /\ byName \in SUBSET (k..n)
  BY <1>2, <1>3
<1>5. \/ byId = {}
      \/ k \in byId /\ byId \in SUBSET (k..n)
  <2>1. CASE \A j \in 1 .. Len(cs) : cs[j].id = 0
    <3>1. \A i \in free : i \in 1..n
      BY <1>1
    <3> QED BY <2>1, <3>1
  <2>2. CASE \A i, j \in 1 .. Len(cs) : cs[i].id # 0 /\ (cs[i].id = cs[j].id => i = j)
    <3>1. cs[k].id # 0
      BY <2>2
    <3> QED BY <1>2, <1>3, <3>1
  <2> QED BY <2>1, <2>2 DEF CallsAre
<1>6. c = CASE byId # {} -> Wires!T!Min(byId) [] byName # {} -> Wires!T!Min(byName) [] OTHER -> 0
  BY Zenon DEF Wires!T!matchingToolCallIndex
<1> HIDE DEF byId, byName, free
<1>7. \A X \in SUBSET (k..n) : k \in X => Wires!T!Min(X) = k
  <2> TAKE X \in SUBSET (k..n)
  <2> SUFFICES ASSUME k \in X PROVE Wires!T!Min(X) = k
    OBVIOUS
  <2>1. k \in X /\ \A y \in X : k <= y
    BY <1>1
  <2>2. Wires!T!Min(X) \in X /\ \A y \in X : Wires!T!Min(X) <= y
    <3>1. \E m \in X : \A y \in X : m <= y
      BY <2>1
    <3> QED BY <3>1, Zenon DEF Wires!T!Min
  <2> DEFINE m == Wires!T!Min(X)
  <2>3. m \in k..n /\ m <= k
    BY <2>1, <2>2
  <2> HIDE DEF m
  <2>4. m = k
    BY <1>1, <2>3
  <2> QED BY <2>4 DEF m
<1>8. c = k
  BY <1>4, <1>5, <1>6, <1>7
<1>9. Wires!T!TakeResult(cs, result, acc)
         = [matched |-> before \cup {k}, results |-> Append(out, [result EXCEPT !.id = IF @ = 0 THEN cs[k].id ELSE @])]
  <2>1. acc.matched = before /\ acc.results = out
    OBVIOUS
  <2>2. Wires!T!TakeResult(cs, result, acc) =
          IF Wires!T!matchingToolCallIndex(cs, result, acc.matched) = 0 THEN acc
          ELSE [matched |-> acc.matched \cup {Wires!T!matchingToolCallIndex(cs, result, acc.matched)},
                results |-> Append(acc.results, [result EXCEPT !.id = IF @ = 0
                               THEN cs[Wires!T!matchingToolCallIndex(cs, result, acc.matched)].id ELSE @])]
    BY Zenon DEF Wires!T!TakeResult
  <2>3. k # 0
    OBVIOUS
  <2> HIDE DEF acc, result
  <2> QED BY <1>8, <2>1, <2>2, <2>3
<1>10. before \cup {k} = 1..k
  BY <1>1
<1>11. [result EXCEPT !.id = IF @ = 0 THEN cs[k].id ELSE @] = result
  <2>1. (IF result.id = 0 THEN cs[k].id ELSE result.id) = result.id
    BY <1>3
  <2>2. result \in Msgs
    BY <1>3, MadeOf
  <2> HIDE DEF result
  <2> QED BY <2>1, <2>2 DEF Msgs
<1> QED BY <1>9, <1>10, <1>11

(* The k elements of s after its first i.                                     *)
LEMMA RunIs ==
    ASSUME NEW C, NEW s \in Seq(C), NEW i \in Nat, NEW k \in Nat, i + k <= Len(s)
    PROVE  /\ SubSeq(s, i + 1, i + k) \in Seq(C) /\ Len(SubSeq(s, i + 1, i + k)) = k
           /\ \A j \in 1..k : SubSeq(s, i + 1, i + k)[j] = s[i + j]
           /\ k = 0 => SubSeq(s, i + 1, i + k) = << >>
           /\ k # 0 => SubSeq(s, i + 1, i + k) = Append(SubSeq(s, i + 1, i + (k - 1)), s[i + k])
<1> DEFINE x(l) == SubSeq(s, i + 1, i + l)
<1>1. ASSUME NEW l \in Nat, l <= k
      PROVE  x(l) \in Seq(C) /\ Len(x(l)) = l /\ \A j \in 1..l : x(l)[j] = s[i + j]
  <2>1. i + 1 \in Int /\ i + l \in Int /\ Len(s) \in Nat /\ (i + l) - (i + 1) + 1 = l
    OBVIOUS
  <2>2. \A j \in i + 1 .. i + l : s[j] \in C
    <3> TAKE j \in i + 1 .. i + l
    <3>1. j \in 1 .. Len(s)
      BY <1>1, <2>1
    <3> QED BY <3>1
  <2>3. /\ x(l) \in Seq(C) /\ Len(x(l)) = IF i + 1 <= i + l THEN l ELSE 0
        /\ \A j \in 1..l : x(l)[j] = s[i + 1 + j - 1]
    BY <2>1, <2>2, SubSeqProperties
  <2> HIDE DEF x
  <2>4. ASSUME NEW j \in 1..l PROVE x(l)[j] = s[i + j]
    <3>1. i + 1 + j - 1 = i + j
      OBVIOUS
    <3> QED BY <2>3, <3>1
  <2>5. Len(x(l)) = l
    <3>1. ~(i + 1 <= i + l) => l = 0
      BY <1>1
    <3> QED BY <2>3, <3>1
  <2> QED BY <2>3, <2>4, <2>5
<1>2. k = 0 => x(k) = << >>
  <2>1. k = 0 => i + k < i + 1
    OBVIOUS
  <2> QED BY <2>1, SubSeqEmpty
<1> HIDE DEF x
<1>3. ASSUME k # 0 PROVE x(k) = Append(x(k - 1), s[i + k])
  <2>1. k - 1 \in Nat /\ k - 1 <= k /\ k \in 1..k /\ i + k \in 1 .. Len(s) /\ k <= k
    BY <1>3
  <2>2. s[i + k] \in C
    BY <2>1
  <2>3. x(k - 1) \in Seq(C) /\ Len(x(k - 1)) = k - 1 /\ \A j \in 1 .. k - 1 : x(k - 1)[j] = s[i + j]
    BY <1>1, <2>1
  <2>4. x(k) \in Seq(C) /\ Len(x(k)) = k /\ \A j \in 1..k : x(k)[j] = s[i + j]
    BY <1>1, <2>1
  <2> DEFINE q == Append(x(k - 1), s[i + k])
  <2>5. q \in Seq(C) /\ Len(q) = k /\ (\A j \in 1 .. k - 1 : q[j] = x(k - 1)[j]) /\ q[k] = s[i + k]
    <3>1. k - 1 + 1 = k
      OBVIOUS
    <3> QED BY <2>2, <2>3, <3>1, AppendProperties
  <2> HIDE DEF q
  <2>6. \A j \in 1..k : x(k)[j] = q[j]
    <3> TAKE j \in 1..k
    <3>1. j = k \/ j \in 1 .. k - 1
      OBVIOUS
    <3> QED BY <2>3, <2>4, <2>5, <3>1
  <2>7. x(k) = q
    BY <2>4, <2>5, <2>6, SeqEqual
  <2> QED BY <2>7 DEF q
<1>4. k <= k
  OBVIOUS
<1> QED BY <1>1, <1>2, <1>3, <1>4 DEF x

LEMMA CollectedIs ==
    ASSUME NEW ms, TranscriptIs(ms), NEW i \in 1 .. Len(ms), ms[i].role = "assistant",
           NEW r, r = Wires!T!AfterResults(ms, i) - 1 - i
    PROVE  Wires!T!collectToolResults(ms, i) = [matched |-> 1..r, results |-> SubSeq(ms, i + 1, i + r)]
<1> DEFINE n == Len(ms)
           cs == ms[i].calls
           e == Wires!T!AfterResults(ms, i)
           given == SubSeq(ms, i + 1, e - 1)
           b == [matched |-> {}, results |-> << >>]
           d == CHOOSE f : f = [k \in 0..r |-> IF k = 0 THEN b ELSE Wires!T!TakeResult(cs, given[k], f[k - 1])]
           g == [k \in 0..r |-> [matched |-> 1..k, results |-> SubSeq(ms, i + 1, i + k)]]
<1>1. /\ CallsAre(cs) /\ e \in i + 1 .. n + 1 /\ r <= Len(cs) /\ r = e - 1 - i
      /\ \A k \in 1..r : ms[i + k] = Wires!ToolResult(cs[k])
  BY GroupIs
<1>2. n \in Nat /\ i \in Nat /\ ms \in Seq(Msgs) /\ cs \in Seq(CallSet) /\ Len(cs) \in Nat
  BY <1>1 DEF TranscriptIs, CallsAre
<1>3. r \in Nat /\ e - 1 = i + r /\ i + r <= n
  BY <1>1, <1>2
<1>4. Len(given) = r /\ \A k \in 1..r : given[k] = ms[i + k]
  <2>1. given = SubSeq(ms, i + 1, i + r)
    BY <1>3
  <2>2. ms \in Seq(Msgs) /\ i \in Nat /\ r \in Nat /\ i + r <= Len(ms)
    BY <1>2, <1>3
  <2> HIDE DEF given
  <2>3. Len(SubSeq(ms, i + 1, i + r)) = r /\ \A k \in 1..r : SubSeq(ms, i + 1, i + r)[k] = ms[i + k]
    BY <2>2, RunIs
  <2> QED BY <2>1, <2>3
<1>5. SubSeq(ms, i + 1, i + 0) = << >>
  <2>1. 0 \in Nat /\ i + 0 <= Len(ms)
    BY <1>2
  <2> QED BY <1>2, <2>1, RunIs
<1>6. \A k \in 1..r : SubSeq(ms, i + 1, i + k) = Append(SubSeq(ms, i + 1, i + (k - 1)), ms[i + k])
  <2> TAKE k \in 1..r
  <2>1. k \in Nat /\ k # 0 /\ i + k <= Len(ms) /\ ms \in Seq(Msgs) /\ i \in Nat
    BY <1>2, <1>3
  <2> QED BY <2>1, RunIs
<1> HIDE DEF given, e
<1>7. \A k \in 0..r : g[k] = IF k = 0 THEN b ELSE Wires!T!TakeResult(cs, given[k], g[k - 1])
  <2> TAKE k \in 0..r
  <2>1. CASE k = 0
    <3>1. 1..0 = {}
      OBVIOUS
    <3> QED BY <1>3, <1>5, <2>1, <3>1
  <2>2. CASE k # 0
    <3> HIDE DEF cs
    <3>0. r \in Nat /\ r <= Len(cs) /\ Len(cs) \in Nat
      BY <1>1, <1>2, <1>3
    <3>1. k \in 1..r /\ k - 1 \in 0..r /\ k \in 1 .. Len(cs)
      BY <2>2, <3>0
    <3>2. given[k] = Wires!ToolResult(cs[k]) /\ ms[i + k] = Wires!ToolResult(cs[k])
      BY <1>1, <1>4, <3>1
    <3> DEFINE out == SubSeq(ms, i + 1, i + (k - 1))
    <3>3. g[k - 1] = [matched |-> 1 .. k - 1, results |-> out]
      BY <3>1
    <3>4. g[k] = [matched |-> 1..k, results |-> Append(out, Wires!ToolResult(cs[k]))]
      BY <1>6, <3>1, <3>2
    <3> HIDE DEF out, g
    <3>5. Wires!T!TakeResult(cs, Wires!ToolResult(cs[k]), [matched |-> 1 .. k - 1, results |-> out])
             = [matched |-> 1..k, results |-> Append(out, Wires!ToolResult(cs[k]))]
      BY <1>1, <3>1, NextIsTaken
    <3> QED BY <2>2, <3>2, <3>3, <3>4, <3>5
  <2> QED BY <2>1, <2>2
<1>8. g = [k \in 0..r |-> g[k]] /\ g[r] = [matched |-> 1..r, results |-> SubSeq(ms, i + 1, i + r)]
  BY <1>3
<1> HIDE DEF g, b, cs
<1>9. \E f : f = [k \in 0..r |-> IF k = 0 THEN b ELSE Wires!T!TakeResult(cs, given[k], f[k - 1])]
  <2>1. g = [k \in 0..r |-> IF k = 0 THEN b ELSE Wires!T!TakeResult(cs, given[k], g[k - 1])]
    BY <1>7, <1>8
  <2> QED BY <2>1
<1>10. d = [k \in 0..r |-> IF k = 0 THEN b ELSE Wires!T!TakeResult(cs, given[k], d[k - 1])]
  BY <1>9, Zenon
<1>11. Wires!T!collectToolResults(ms, i) = d[r]
  <2>1. Wires!T!collectToolResults(ms, i) =
          (CHOOSE f : f = [k \in 0 .. Len(given) |-> IF k = 0 THEN b
                              ELSE Wires!T!TakeResult(cs, given[k], f[k - 1])])[Len(given)]
    BY Zenon DEF Wires!T!collectToolResults, given, e, b, cs
  <2> QED BY <1>4, <2>1
<1> HIDE DEF d
<1> DEFINE T == {k \in 0..r : d[k] # g[k]}
<1>12. ASSUME T # {} PROVE FALSE
  <2>1. PICK k \in T : \A l \in T : k <= l
    <3>1. T \in SUBSET (0..r)
      OBVIOUS
    <3> HIDE DEF T
    <3> QED BY <1>3, <1>12, <3>1, Least
  <2>2. k \in 0..r /\ d[k] # g[k]
    OBVIOUS
  <2>3. k # 0
    BY <1>7, <1>10, <2>2
  <2>4. k - 1 \in 0..r /\ ~(k <= k - 1)
    BY <1>3, <2>2, <2>3
  <2>5. d[k - 1] = g[k - 1]
    BY <2>1, <2>4
  <2> HIDE DEF T
  <2> QED BY <1>7, <1>10, <2>2, <2>5
<1>13. d[r] = g[r]
  BY <1>3, <1>12
<1> QED BY <1>8, <1>11, <1>13

-----------------------------------------------------------------------------
(* What is left of a transcript once it is normalised: prompts, answers, and *)
(* calls with all their results.                                             *)
Results(cs) == [k \in 1 .. Len(cs) |-> Wires!ToolResult(cs[k])]

Group(p) ==
    \/ p = << >>
    \/ p = <<Wires!User>>
    \/ p = <<Wires!Assistant(<< >>)>>
    \/ \E cs : CallsAre(cs) /\ cs # << >> /\ p = <<Wires!Assistant(cs)>> \o Results(cs)

Kept(ms, i) ==
    CASE ms[i].role = "tool" -> << >>
      [] Wires!T!HasCalls(ms[i]) ->
            IF Wires!T!IsComplete(ms, i) THEN <<ms[i]>> \o Wires!T!collectToolResults(ms, i).results ELSE << >>
      [] OTHER -> <<ms[i]>>

LEMMA NormalizedIs ==
    ASSUME NEW ms
    PROVE  Wires!T!normalizeToolTranscript(ms) = FlattenSeq([i \in DOMAIN ms |-> Kept(ms, i)])
<1>1. \A s : Wires!T!FlattenSeq(s) = FlattenSeq(s)
  BY Zenon DEF Wires!T!FlattenSeq, FlattenSeq
<1>2. Wires!T!normalizeToolTranscript(ms) = Wires!T!FlattenSeq([i \in DOMAIN ms |-> Kept(ms, i)])
  BY Zenon DEF Wires!T!normalizeToolTranscript, Kept
<1> QED BY <1>1, <1>2

LEMMA KeptIsGroup ==
    ASSUME NEW ms, TranscriptIs(ms), NEW i \in 1 .. Len(ms)
    PROVE  Group(Kept(ms, i)) /\ Kept(ms, i) \in Seq(Msgs)
<1>1. /\ ms \in Seq(Msgs) /\ ms[i] \in Msgs /\ MsgIs(ms, i) /\ i \in Nat /\ Len(ms) \in Nat
      /\ ms[i].role \in {"user", "assistant", "tool"}
  <2>1. ms \in Seq(Msgs) /\ ms[i] \in Msgs /\ MsgIs(ms, i) /\ i \in Nat /\ Len(ms) \in Nat
    BY DEF TranscriptIs
  <2> QED BY <2>1 DEF Msgs
<1>2. Wires!T!HasCalls(ms[i]) <=> ms[i].role = "assistant" /\ ms[i].calls # << >>
  BY Zenon DEF Wires!T!HasCalls
<1>3. CASE ms[i].role = "tool"
  <2>1. Kept(ms, i) = << >>
    BY <1>2, <1>3 DEF Kept
  <2>2. << >> \in Seq(Msgs)
    OBVIOUS
  <2> QED BY <2>1, <2>2 DEF Group
<1>4. CASE ms[i].role = "user"
  <2>1. Kept(ms, i) = <<ms[i]>>
    BY <1>2, <1>4 DEF Kept
  <2>2. ~\E j \in 1 .. i - 1 : Replied(ms, j, i)
    <3> SUFFICES ASSUME NEW j \in 1 .. i - 1, Replied(ms, j, i) PROVE FALSE
      OBVIOUS
    <3>1. i \in j + 1 .. i
      BY <1>1
    <3> QED BY <1>4, <3>1 DEF Replied
  <2>3. ms[i] = Wires!User
    BY <1>1, <1>4, <2>2, Roles DEF MsgIs
  <2> QED BY <1>1, <2>1, <2>3 DEF Group
<1>5. CASE ms[i].role = "assistant" /\ ms[i].calls = << >>
  <2>1. Kept(ms, i) = <<ms[i]>>
    BY <1>2, <1>5 DEF Kept
  <2>2. ms[i] = Wires!Assistant(<< >>)
    BY <1>5, GroupIs
  <2> QED BY <1>1, <2>1, <2>2 DEF Group
<1>6. CASE ms[i].role = "assistant" /\ ms[i].calls # << >>
  <2> DEFINE cs == ms[i].calls
             r == Wires!T!AfterResults(ms, i) - 1 - i
  <2>1. /\ CallsAre(cs) /\ ms[i] = Wires!Assistant(cs)
        /\ r <= Len(cs) /\ r \in Nat /\ i + r <= Len(ms)
        /\ \A k \in 1..r : ms[i + k] = Wires!ToolResult(cs[k])
    <3>1. /\ CallsAre(cs) /\ ms[i] = Wires!Assistant(cs)
          /\ Wires!T!AfterResults(ms, i) \in i + 1 .. Len(ms) + 1
          /\ r <= Len(cs) /\ \A k \in 1..r : ms[i + k] = Wires!ToolResult(cs[k])
      BY <1>6, GroupIs
    <3>2. r \in Nat /\ i + r <= Len(ms)
      BY <1>1, <3>1
    <3> QED BY <3>1, <3>2
  <2>2. Wires!T!collectToolResults(ms, i) = [matched |-> 1..r, results |-> SubSeq(ms, i + 1, i + r)]
    BY <1>6, CollectedIs
  <2>3. cs \in Seq(CallSet) /\ Len(cs) \in Nat /\ DOMAIN cs = 1 .. Len(cs)
    BY <2>1 DEF CallsAre
  <2>4. Wires!T!IsComplete(ms, i) <=> 1..r = 1 .. Len(cs)
    <3>1. Wires!T!IsComplete(ms, i) <=> Wires!T!collectToolResults(ms, i).matched = DOMAIN cs
      BY Zenon DEF Wires!T!IsComplete
    <3> QED BY <2>2, <2>3, <3>1
  <2> HIDE DEF r
  <2>5. CASE ~Wires!T!IsComplete(ms, i)
    <3>1. Kept(ms, i) = << >>
      BY <1>2, <1>6, <2>5 DEF Kept
    <3> QED BY <3>1 DEF Group
  <2>6. CASE Wires!T!IsComplete(ms, i)
    <3>1. Kept(ms, i) = <<ms[i]>> \o SubSeq(ms, i + 1, i + r)
      <4>1. Wires!T!collectToolResults(ms, i).results = SubSeq(ms, i + 1, i + r)
        <5> DEFINE q == SubSeq(ms, i + 1, i + r)
                   c == Wires!T!collectToolResults(ms, i)
        <5>1. c = [matched |-> 1..r, results |-> q]
          BY <2>2
        <5> HIDE DEF c, q
        <5>2. c.results = q
          BY <5>1
        <5> QED BY <5>2 DEF c, q
      <4>2. Kept(ms, i) = <<ms[i]>> \o Wires!T!collectToolResults(ms, i).results
        BY <1>2, <1>6, <2>6 DEF Kept
      <4> QED BY <4>1, <4>2
    <3>2. r = Len(cs)
      <4>1. r < Len(cs) => Len(cs) \in 1 .. Len(cs) /\ Len(cs) \notin 1..r
        BY <2>1, <2>3
      <4> QED BY <2>1, <2>3, <2>4, <2>6, <4>1
    <3>3. /\ SubSeq(ms, i + 1, i + r) \in Seq(Msgs) /\ Len(SubSeq(ms, i + 1, i + r)) = r
          /\ \A k \in 1..r : SubSeq(ms, i + 1, i + r)[k] = ms[i + k]
      BY <1>1, <2>1, RunIs
    <3>4. SubSeq(ms, i + 1, i + r) = Results(cs)
      <4> DEFINE x == SubSeq(ms, i + 1, i + r)
      <4>1. x = [k \in 1 .. Len(cs) |-> x[k]]
        BY <3>2, <3>3
      <4>2. \A k \in 1 .. Len(cs) : x[k] = Wires!ToolResult(cs[k])
        BY <2>1, <3>2, <3>3
      <4> HIDE DEF x
      <4>3. x = [k \in 1 .. Len(cs) |-> Wires!ToolResult(cs[k])]
        BY <4>1, <4>2
      <4> QED BY <4>3 DEF x, Results
    <3>5. Kept(ms, i) = <<Wires!Assistant(cs)>> \o Results(cs)
      BY <2>1, <3>1, <3>4
    <3>6. Kept(ms, i) \in Seq(Msgs)
      BY <1>1, <3>1, <3>3
    <3> QED BY <1>6, <2>1, <3>5, <3>6 DEF Group
  <2> QED BY <2>5, <2>6
<1> QED BY <1>1, <1>3, <1>4, <1>5, <1>6

-----------------------------------------------------------------------------
(* What an adapter makes of a message: every one of them gives a call and    *)
(* its result the same key, made of the call's id and name.                  *)
Key(a, c) ==
    CASE a \in {"compat", "responses"} -> Wires!ById(c)
      [] a = "anthropic"               -> Wires!nonEmpty(c)
      [] OTHER                         -> Wires!ByName(c)

WireItem == [kind : {"message", "text", "call", "result"},
             key : {Key(a, c) : a \in Wires!Adapters, c \in CallSet} \cup {<<"none">>}, n : Nat]

CallItem(a, cs, k)   == Wires!Item("call", Key(a, cs[k]), k)
ResultItem(a, cs, k) == Wires!Item("result", Key(a, cs[k]), k)

LEMMA ItemsAre ==
    ASSUME NEW a \in Wires!Adapters
    PROVE  /\ Wires!Break \in WireItem /\ Wires!Break.kind = "message"
           /\ Wires!Item("text", <<"none">>, 0) \in WireItem /\ Wires!Item("text", <<"none">>, 0).kind = "text"
           /\ \A cs \in Seq(CallSet) : \A k \in 1 .. Len(cs) :
                 /\ CallItem(a, cs, k) \in WireItem /\ ResultItem(a, cs, k) \in WireItem
                 /\ CallItem(a, cs, k).kind = "call" /\ ResultItem(a, cs, k).kind = "result"
                 /\ CallItem(a, cs, k).key = ResultItem(a, cs, k).key
                 /\ CallItem(a, cs, k).n = k /\ ResultItem(a, cs, k).n = k
<1>1. /\ Wires!Break \in WireItem /\ Wires!Break.kind = "message"
      /\ Wires!Item("text", <<"none">>, 0) \in WireItem /\ Wires!Item("text", <<"none">>, 0).kind = "text"
  BY DEF Wires!Break, Wires!Item, WireItem
<1>2. ASSUME NEW cs \in Seq(CallSet), NEW k \in 1 .. Len(cs)
      PROVE  /\ CallItem(a, cs, k) \in WireItem /\ ResultItem(a, cs, k) \in WireItem
             /\ CallItem(a, cs, k).kind = "call" /\ ResultItem(a, cs, k).kind = "result"
             /\ CallItem(a, cs, k).key = ResultItem(a, cs, k).key
             /\ CallItem(a, cs, k).n = k /\ ResultItem(a, cs, k).n = k
  <2>1. cs[k] \in CallSet /\ k \in Nat
    OBVIOUS
  <2> DEFINE x == Key(a, cs[k])
             K == {Key(b, c) : b \in Wires!Adapters, c \in CallSet} \cup {<<"none">>}
  <2>2. x \in K
    BY <2>1
  <2> HIDE DEF x, K
  <2> QED BY <2>1, <2>2 DEF CallItem, ResultItem, Wires!Item, WireItem, K, x
<1> QED BY <1>1, <1>2

LEMMA ConvertIs ==
    ASSUME NEW a \in Wires!Adapters, NEW msg
    PROVE  Wires!Convert(a, msg) =
             IF msg.role = "tool" THEN <<Wires!Item("result", Key(a, msg), msg.n)>>
             ELSE <<Wires!Break>> \o Wires!Text(msg)
                    \o [k \in DOMAIN msg.calls |-> Wires!Item("call", Key(a, msg.calls[k]), k)]
<1>1. CASE a \in {"compat", "responses"}
  <2>1. \A c : Key(a, c) = Wires!ById(c)
    BY <1>1 DEF Key
  <2>2. Wires!Convert(a, msg) = Wires!Items(msg, Wires!ById, Wires!ById)
    BY <1>1 DEF Wires!Convert, Wires!toWireMessages, Wires!buildRequest
  <2> QED BY <2>1, <2>2 DEF Wires!Items
<1>2. CASE a = "anthropic"
  <2>1. \A c : Key(a, c) = Wires!nonEmpty(c)
    BY <1>2 DEF Key
  <2>2. Wires!Convert(a, msg) = Wires!Items(msg, Wires!nonEmpty, Wires!nonEmpty)
    BY <1>2 DEF Wires!Convert, Wires!toWireRequest
  <2> QED BY <2>1, <2>2 DEF Wires!Items
<1>3. CASE a \in {"gemini", "ollama"}
  <2>1. \A c : Key(a, c) = Wires!ByName(c)
    BY <1>3 DEF Key
  <2>2. Wires!Convert(a, msg) = Wires!Items(msg, Wires!ByName, Wires!ByName)
    BY <1>3 DEF Wires!Convert, Wires!geminiContents, Wires!toOllamaMessages
  <2> QED BY <2>1, <2>2 DEF Wires!Items
<1> QED BY <1>1, <1>2, <1>3 DEF Wires!Adapters

LEMMA ResultConverts ==
    ASSUME NEW a \in Wires!Adapters, NEW cs, CallsAre(cs), NEW k \in 1 .. Len(cs)
    PROVE  Wires!Convert(a, Wires!ToolResult(cs[k])) = <<ResultItem(a, cs, k)>>
<1> DEFINE m == Wires!ToolResult(cs[k])
<1>1. cs[k] \in CallSet /\ cs[k].n = k
  BY DEF CallsAre
<1>2. m.role = "tool" /\ m.id = cs[k].id /\ m.name = cs[k].name /\ m.n = k
  BY <1>1, MadeOf
<1> HIDE DEF m
<1>3. Key(a, m) = Key(a, cs[k])
  BY <1>2 DEF Key, Wires!ById, Wires!nonEmpty, Wires!ByName
<1> QED BY <1>2, <1>3, ConvertIs DEF m, ResultItem

LEMMA CallsConvert ==
    ASSUME NEW a \in Wires!Adapters, NEW cs \in Seq(CallSet), cs # << >>
    PROVE  Wires!Convert(a, Wires!Assistant(cs))
             = <<Wires!Break>> \o [k \in 1 .. Len(cs) |-> CallItem(a, cs, k)]
<1> DEFINE m == Wires!Assistant(cs)
           x == [k \in 1 .. Len(cs) |-> CallItem(a, cs, k)]
<1>1. m.role = "assistant" /\ m.calls = cs
  BY MadeOf
<1> HIDE DEF m
<1>2. Wires!Text(m) = << >>
  BY <1>1 DEF Wires!Text
<1>3. [k \in DOMAIN m.calls |-> Wires!Item("call", Key(a, m.calls[k]), k)] = x
  BY <1>1 DEF CallItem
<1>4. Wires!Convert(a, m) = <<Wires!Break>> \o << >> \o x
  BY <1>1, <1>2, <1>3, ConvertIs
<1>5. <<Wires!Break>> \o << >> = <<Wires!Break>>
  OBVIOUS
<1> QED BY <1>4, <1>5 DEF m

LEMMA TextConverts ==
    ASSUME NEW a \in Wires!Adapters, NEW m \in {Wires!User, Wires!Assistant(<< >>)}
    PROVE  Wires!Convert(a, m) = <<Wires!Break, Wires!Item("text", <<"none">>, 0)>>
<1>1. m.role # "tool" /\ m.calls = << >>
  <2>1. Wires!User.role = "user" /\ Wires!User.calls = << >>
    BY DEF Wires!User
  <2>2. << >> \in Seq(CallSet)
    OBVIOUS
  <2>3. Wires!Assistant(<< >>).role = "assistant" /\ Wires!Assistant(<< >>).calls = << >>
    BY <2>2, MadeOf
  <2>4. m = Wires!User \/ m = Wires!Assistant(<< >>)
    OBVIOUS
  <2>5. "user" # "tool" /\ "assistant" # "tool"
    OBVIOUS
  <2> QED BY <2>1, <2>3, <2>4, <2>5
<1>2. Wires!Text(m) = <<Wires!Item("text", <<"none">>, 0)>>
  BY <1>1 DEF Wires!Text
<1>3. [k \in DOMAIN m.calls |-> Wires!Item("call", Key(a, m.calls[k]), k)] = << >>
  <2>1. DOMAIN m.calls = 1..0
    BY <1>1
  <2> QED BY <2>1
<1> DEFINE x == Wires!Item("text", <<"none">>, 0)
           y == Wires!Break
<1>4. Wires!Convert(a, m) = <<Wires!Break>> \o <<x>> \o << >>
  BY <1>1, <1>2, <1>3, ConvertIs
<1> HIDE DEF x, y
<1>5. <<y>> \o <<x>> \o << >> = <<y, x>>
  <2> DEFINE S == {x, y}
  <2>1. x \in S /\ y \in S
    OBVIOUS
  <2> HIDE DEF S
  <2>2. <<y>> \in Seq(S) /\ <<x>> \in Seq(S) /\ <<y, x>> \in Seq(S)
    BY <2>1
  <2>3. /\ Len(<<y>>) = 1 /\ Len(<<x>>) = 1 /\ Len(<<y, x>>) = 2 /\ <<y, x>>[1] = y /\ <<y, x>>[2] = x
        /\ <<y>>[1] = y /\ <<x>>[1] = x
    OBVIOUS
  <2> DEFINE q == <<y>> \o <<x>>
  <2>4. q \in Seq(S) /\ Len(q) = 2 /\ q[1] = y /\ q[2] = x
    <3>1. 1 \in 1 .. Len(<<y>>) + Len(<<x>>) /\ 2 \in 1 .. Len(<<y>>) + Len(<<x>>)
      BY <2>3
    <3> QED BY <2>2, <2>3, <3>1, ConcatProperties
  <2> HIDE DEF q
  <2>5. q = <<y, x>>
    <3> DEFINE t == <<y, x>>
    <3>1. t \in Seq(S) /\ Len(t) = 2 /\ t[1] = y /\ t[2] = x
      BY <2>2, <2>3
    <3> HIDE DEF t
    <3>2. \A j \in 1 .. Len(q) : q[j] = t[j]
      BY <2>4, <3>1
    <3>3. q = t
      BY <2>4, <3>1, <3>2, SeqEqual
    <3> QED BY <3>3 DEF t
  <2>6. q \o << >> = q
    BY <2>4, ConcatEmptySeq
  <2> QED BY <2>5, <2>6 DEF q
<1> QED BY <1>4, <1>5 DEF x, y

-----------------------------------------------------------------------------
(* How the server reads a request: g is what is open after each item from    *)
(* the start of the message, b, to the item before i.                        *)
Opens(w, i, b, g) ==
    /\ b \in 1 .. i - 1 /\ w[b].kind = "message"
    /\ \A j \in b + 1 .. i - 1 : w[j].kind # "message" /\ g[j] = Wires!Read(g[j - 1], w[j])
    /\ g = [j \in b .. i - 1 |-> g[j]] /\ g[b] = << >>

LEMMA PendingIs ==
    ASSUME NEW w, NEW i \in Nat, NEW b, NEW g, Opens(w, i, b, g)
    PROVE  Wires!Pending(w, i) = g[i - 1]
<1> DEFINE S == {j \in 1 .. i - 1 : w[j].kind = "message"}
           d == CHOOSE f : f = [j \in b .. i - 1 |-> IF j = b THEN << >> ELSE Wires!Read(f[j - 1], w[j])]
<1>1. b \in 1 .. i - 1 /\ b \in S /\ b \in Nat /\ i - 1 \in b .. i - 1
  BY DEF Opens
<1>2. \A y \in S : b >= y
  <2> TAKE y \in S
  <2>1. ~(y > b)
    <3>1. y > b => y \in b + 1 .. i - 1
      BY <1>1
    <3> QED BY <3>1 DEF Opens
  <2> QED BY <1>1, <2>1
<1>3. Wires!Max(S) = b
  <2>1. S \in SUBSET Nat
    OBVIOUS
  <2> DEFINE m == Wires!Max(S)
  <2> HIDE DEF S
  <2>2. m \in S /\ \A y \in S : m >= y
    <3>1. \E x \in S : \A y \in S : x >= y
      BY <1>1, <1>2
    <3> QED BY <3>1, Zenon DEF Wires!Max
  <2> HIDE DEF m
  <2>3. m \in Nat /\ m >= b /\ b >= m
    BY <1>1, <1>2, <2>1, <2>2
  <2>4. m = b
    BY <1>1, <2>3
  <2> QED BY <2>4 DEF m
<1> HIDE DEF S
<1>4. \A j \in b .. i - 1 : g[j] = IF j = b THEN << >> ELSE Wires!Read(g[j - 1], w[j])
  <2> TAKE j \in b .. i - 1
  <2>1. j = b \/ j \in b + 1 .. i - 1
    BY <1>1
  <2>2. j \in b + 1 .. i - 1 => j # b
    BY <1>1
  <2> QED BY <2>1, <2>2 DEF Opens
<1>5. \E f : f = [j \in b .. i - 1 |-> IF j = b THEN << >> ELSE Wires!Read(f[j - 1], w[j])]
  <2>1. g = [j \in b .. i - 1 |-> g[j]]
    BY DEF Opens
  <2>2. g = [j \in b .. i - 1 |-> IF j = b THEN << >> ELSE Wires!Read(g[j - 1], w[j])]
    BY <1>4, <2>1
  <2> QED BY <2>2
<1>6. d = [j \in b .. i - 1 |-> IF j = b THEN << >> ELSE Wires!Read(d[j - 1], w[j])]
  BY <1>5, Zenon
<1>7. Wires!Pending(w, i) = d[i - 1]
  <2>1. Wires!Pending(w, i) =
          (CHOOSE f : f = [j \in Wires!Max(S) .. i - 1 |->
                              IF j = Wires!Max(S) THEN << >> ELSE Wires!Read(f[j - 1], w[j])])[i - 1]
    BY Zenon DEF Wires!Pending, S
  <2> QED BY <1>3, <2>1
<1> HIDE DEF d
<1> DEFINE X == {j \in 0 .. i : j \in b .. i - 1 /\ d[j] # g[j]}
<1>8. ASSUME X # {} PROVE FALSE
  <2>1. PICK j \in X : \A l \in X : j <= l
    <3>1. X \in SUBSET (0..i)
      OBVIOUS
    <3> HIDE DEF X
    <3> QED BY <1>8, <3>1, Least
  <2>2. j \in b .. i - 1 /\ d[j] # g[j]
    OBVIOUS
  <2>3. j # b
    BY <1>4, <1>6, <2>2
  <2>4. j - 1 \in b .. i - 1 /\ ~(j <= j - 1) /\ j - 1 \in 0..i
    BY <1>1, <2>2, <2>3
  <2>5. d[j - 1] = g[j - 1]
    BY <2>1, <2>4
  <2> HIDE DEF X
  <2> QED BY <1>4, <1>6, <2>2, <2>5
<1>9. d[i - 1] = g[i - 1]
  <2>1. i - 1 \in 0..i /\ i - 1 \notin X
    BY <1>1, <1>8
  <2> QED BY <1>1, <2>1
<1> QED BY <1>7, <1>9

(* A result with the key of the first open call closes it.                    *)
FirstOf(open, item) == {j \in DOMAIN open : open[j].key = item.key}

LEMMA FirstIsFirst ==
    ASSUME NEW C, NEW open \in Seq(C), open # << >>, NEW item, item.key = open[1].key
    PROVE  FirstOf(open, item) # {} /\ Wires!Min(FirstOf(open, item)) = 1
<1> DEFINE X == FirstOf(open, item)
<1>1. X \in SUBSET Nat /\ 1 \in X /\ \A y \in X : 1 <= y
  <2>1. DOMAIN open = 1 .. Len(open) /\ Len(open) \in Nat /\ Len(open) # 0
    OBVIOUS
  <2> QED BY <2>1 DEF FirstOf
<1> HIDE DEF X
<1> DEFINE m == Wires!Min(X)
<1>2. m \in X /\ \A y \in X : m <= y
  <2>1. \E x \in X : \A y \in X : x <= y
    BY <1>1
  <2> QED BY <2>1, Zenon DEF Wires!Min
<1> HIDE DEF m
<1>3. m = 1
  BY <1>1, <1>2
<1> QED BY <1>1, <1>3 DEF X, m

LEMMA ReadFirst ==
    ASSUME NEW C, NEW open \in Seq(C), open # << >>, NEW item,
           item.kind = "result", item.key = open[1].key
    PROVE  Wires!Read(open, item) = SubSeq(open, 2, Len(open))
<1>1. FirstOf(open, item) # {} /\ Wires!Min(FirstOf(open, item)) = 1
  BY FirstIsFirst
<1>2. Wires!Read(open, item) = CASE item.kind = "call" -> Append(open, item)
         [] item.kind = "result" /\ FirstOf(open, item) # {} -> Wires!RemoveAt(open, Wires!Min(FirstOf(open, item)))
         [] OTHER -> open
  BY Zenon DEF Wires!Read, FirstOf
<1>3. Wires!Read(open, item) = Wires!RemoveAt(open, 1)
  BY <1>1, <1>2
<1>4. SubSeq(open, 1, 0) = << >> /\ SubSeq(open, 2, Len(open)) \in Seq(C)
  <2>1. Len(open) \in Nat
    OBVIOUS
  <2>2. \A j \in 2 .. Len(open) : open[j] \in C
    OBVIOUS
  <2>3. SubSeq(open, 2, Len(open)) \in Seq(C)
    BY <2>1, <2>2, SubSeqProperties
  <2> QED BY <2>3, SubSeqEmpty
<1>5. << >> \o SubSeq(open, 2, Len(open)) = SubSeq(open, 2, Len(open))
  BY <1>4, ConcatEmptySeq
<1>6. Wires!RemoveAt(open, 1) = SubSeq(open, 1, 1 - 1) \o SubSeq(open, 1 + 1, Len(open))
  BY Zenon DEF Wires!RemoveAt
<1>7. 1 - 1 = 0 /\ 1 + 1 = 2
  OBVIOUS
<1> QED BY <1>3, <1>4, <1>5, <1>6, <1>7

(* What is open after t items of a message with calls: the calls read so far *)
(* and then those without a result.                                          *)
Left(a, cs, t) ==
    IF t <= Len(cs) THEN [k \in 1..t |-> CallItem(a, cs, k)]
    ELSE [k \in 1 .. 2 * Len(cs) - t |-> CallItem(a, cs, k + t - Len(cs))]

BlockItem(a, cs, t) == IF t <= Len(cs) THEN CallItem(a, cs, t) ELSE ResultItem(a, cs, t - Len(cs))

LEMMA LeftIs ==
    ASSUME NEW a \in Wires!Adapters, NEW cs \in Seq(CallSet), NEW t \in Nat,
           t >= Len(cs), t <= 2 * Len(cs)
    PROVE  /\ Left(a, cs, t) \in Seq(WireItem) /\ Len(Left(a, cs, t)) = 2 * Len(cs) - t
           /\ \A k \in 1 .. 2 * Len(cs) - t : Left(a, cs, t)[k] = CallItem(a, cs, k + t - Len(cs))
<1> DEFINE n == Len(cs)
           x == Left(a, cs, t)
           l == 2 * n - t
<1>1. n \in Nat /\ l \in Nat
  OBVIOUS
<1>2. \A k \in 1..l : k + t - n \in 1..n
  BY <1>1
<1>3. x = [k \in 1..l |-> CallItem(a, cs, k + t - n)]
  <2>1. CASE t = n
    <3>1. l = t /\ \A k \in 1..l : k + t - n = k
      BY <1>1, <2>1
    <3>2. x = [k \in 1..t |-> CallItem(a, cs, k)]
      BY <2>1 DEF Left
    <3> HIDE DEF x, l
    <3> QED BY <3>1, <3>2
  <2>2. CASE t > n
    BY <1>1, <2>2 DEF Left
  <2> QED BY <1>1, <2>1, <2>2
<1>4. \A k \in 1..l : CallItem(a, cs, k + t - n) \in WireItem
  BY <1>2, ItemsAre
<1> HIDE DEF x, l
<1>5. x \in Seq(WireItem) /\ Len(x) = l /\ \A k \in 1..l : x[k] = CallItem(a, cs, k + t - n)
  BY <1>1, <1>3, <1>4
<1> QED BY <1>5 DEF x, l

LEMMA BlockReads ==
    ASSUME NEW a \in Wires!Adapters, NEW cs \in Seq(CallSet), NEW t \in 1 .. 2 * Len(cs)
    PROVE  Wires!Read(Left(a, cs, t - 1), BlockItem(a, cs, t)) = Left(a, cs, t)
<1> DEFINE n == Len(cs)
<1>1. n \in Nat /\ t \in Nat /\ t - 1 \in Nat
  OBVIOUS
<1>2. CASE t <= n
  <2> DEFINE open == [k \in 1 .. t - 1 |-> CallItem(a, cs, k)]
             x == CallItem(a, cs, t)
  <2>1. BlockItem(a, cs, t) = x /\ Left(a, cs, t - 1) = open
    BY <1>1, <1>2 DEF BlockItem, Left
  <2>2. t \in 1..n /\ \A k \in 1 .. t - 1 : k \in 1..n
    BY <1>1, <1>2
  <2>3. x.kind = "call" /\ x \in WireItem /\ open \in Seq(WireItem) /\ Len(open) = t - 1
    <3>1. x.kind = "call" /\ x \in WireItem
      BY <2>2, ItemsAre
    <3>2. \A k \in 1 .. t - 1 : CallItem(a, cs, k) \in WireItem
      BY <2>2, ItemsAre
    <3> QED BY <1>1, <3>1, <3>2
  <2>4. \A k \in 1 .. t - 1 : open[k] = CallItem(a, cs, k)
    OBVIOUS
  <2> HIDE DEF open, x
  <2>5. Wires!Read(open, x) = Append(open, x)
    <3>1. Wires!Read(open, x) = CASE x.kind = "call" -> Append(open, x)
         [] x.kind = "result" /\ FirstOf(open, x) # {} -> Wires!RemoveAt(open, Wires!Min(FirstOf(open, x)))
         [] OTHER -> open
      BY Zenon DEF Wires!Read, FirstOf
    <3> QED BY <2>3, <3>1
  <2> DEFINE q == Append(open, x)
  <2>6. q \in Seq(WireItem) /\ Len(q) = t /\ (\A k \in 1 .. t - 1 : q[k] = open[k]) /\ q[t] = x
    <3>1. t - 1 + 1 = t
      BY <1>1
    <3> QED BY <2>3, <3>1, AppendProperties
  <2> HIDE DEF q
  <2>7. q = [k \in 1..t |-> CallItem(a, cs, k)]
    <3>1. \A k \in 1..t : k = t \/ k \in 1 .. t - 1
      BY <1>1
    <3>2. \A k \in 1..t : q[k] = CallItem(a, cs, k)
      BY <2>4, <2>6, <3>1 DEF x
    <3>3. q = [k \in 1..t |-> q[k]]
      BY <2>6
    <3> QED BY <3>2, <3>3
  <2>8. Left(a, cs, t) = [k \in 1..t |-> CallItem(a, cs, k)]
    BY <1>2 DEF Left
  <2> QED BY <2>1, <2>5, <2>7, <2>8 DEF q
<1>3. CASE t > n
  <2> DEFINE open == Left(a, cs, t - 1)
             x == ResultItem(a, cs, t - n)
             l == 2 * n - t
  <2>1. BlockItem(a, cs, t) = x
    BY <1>1, <1>3 DEF BlockItem
  <2>2. t - n \in 1..n /\ l \in Nat /\ t - 1 >= n /\ t - 1 <= 2 * n /\ 1 + (t - 1) - n = t - n /\ t <= 2 * n
    BY <1>1, <1>3
  <2>3. /\ open \in Seq(WireItem) /\ Len(open) = l + 1
        /\ \A k \in 1 .. l + 1 : open[k] = CallItem(a, cs, k + (t - 1) - n)
    <3>1. 2 * n - (t - 1) = l + 1
      BY <1>1
    <3> HIDE DEF l
    <3> QED BY <1>1, <2>2, <3>1, LeftIs
  <2>4. open # << >> /\ open[1] = CallItem(a, cs, t - n)
    <3>1. 1 \in 1 .. l + 1
      BY <2>2
    <3> HIDE DEF open, l
    <3> QED BY <2>2, <2>3, <3>1
  <2>5. x.kind = "result" /\ x.key = open[1].key
    BY <2>2, <2>4, ItemsAre
  <2> HIDE DEF open, x
  <2>6. Wires!Read(open, x) = SubSeq(open, 2, Len(open))
    BY <2>3, <2>4, <2>5, ReadFirst
  <2> DEFINE q == SubSeq(open, 2, l + 1)
  <2>7. q \in Seq(WireItem) /\ Len(q) = l /\ \A k \in 1..l : q[k] = open[1 + k]
    <3>1. 1 \in Nat /\ l \in Nat /\ 1 + l <= Len(open) /\ 1 + 1 = 2 /\ 1 + l = l + 1
      BY <2>2, <2>3
    <3> HIDE DEF l
    <3> QED BY <2>3, <3>1, RunIs
  <2>8. /\ Left(a, cs, t) \in Seq(WireItem) /\ Len(Left(a, cs, t)) = l
        /\ \A k \in 1..l : Left(a, cs, t)[k] = CallItem(a, cs, k + t - n)
    BY <1>1, <1>3, <2>2, LeftIs
  <2> HIDE DEF q
  <2>9. \A k \in 1..l : q[k] = Left(a, cs, t)[k]
    <3> TAKE k \in 1..l
    <3>1. 1 + k \in 1 .. l + 1 /\ 1 + k + (t - 1) - n = k + t - n
      BY <1>1, <2>2
    <3> HIDE DEF l
    <3> QED BY <2>3, <2>7, <2>8, <3>1
  <2>10. q = Left(a, cs, t)
    <3> HIDE DEF l
    <3> QED BY <2>7, <2>8, <2>9, SeqEqual
  <2> QED BY <2>1, <2>3, <2>6, <2>10 DEF q, open
<1> QED BY <1>1, <1>2, <1>3

(* In a good request every result goes to its own call, and where a message  *)
(* starts, and at the end, no call is open.                                  *)
Hits(open, item) ==
    FirstOf(open, item) # {} /\ open[Wires!Min(FirstOf(open, item))].n = item.n

Settled(w, i) ==
    \E b, g : /\ Opens(w, i, b, g)
              /\ w[i].kind = "result" => Hits(g[i - 1], w[i])
              /\ w[i].kind = "message" => g[i - 1] = << >>

Good(w) ==
    /\ w \in Seq(WireItem)
    /\ \A i \in 1 .. Len(w) : i > 1 /\ w[i].kind \in {"result", "message"} => Settled(w, i)
    /\ w # << >> => /\ w[1].kind = "message"
                    /\ \E b, g : Opens(w, Len(w) + 1, b, g) /\ g[Len(w)] = << >>

LEMMA OpensStay ==
    ASSUME NEW w, NEW v, NEW i \in Nat, NEW b, NEW g, Opens(w, i, b, g),
           \A j \in 1 .. i - 1 : v[j] = w[j]
    PROVE  Opens(v, i, b, g)
<1>1. \A j \in b + 1 .. i - 1 : v[j] = w[j]
  <2> TAKE j \in b + 1 .. i - 1
  <2>1. j \in 1 .. i - 1
    BY DEF Opens
  <2> QED BY <2>1
<1>2. v[b] = w[b]
  BY DEF Opens
<1> QED BY <1>1, <1>2 DEF Opens

\* v is w and then a message of these n items.
Extends(w, v, n) ==
    /\ v \in Seq(WireItem) /\ Len(v) = Len(w) + 1 + n
    /\ \A j \in 1 .. Len(w) : v[j] = w[j]
    /\ v[Len(w) + 1] = Wires!Break

(* Whatever a message consists of: h is what is open after each of its n     *)
(* items.                                                                    *)
LEMMA MessageIsGood ==
    ASSUME NEW a \in Wires!Adapters, NEW w, Good(w), NEW n \in Nat, NEW v, Extends(w, v, n),
           NEW h, h[0] = << >>, h[n] = << >>,
           \A t \in 1..n : /\ v[Len(w) + 1 + t].kind # "message"
                           /\ h[t] = Wires!Read(h[t - 1], v[Len(w) + 1 + t])
                           /\ v[Len(w) + 1 + t].kind = "result" => Hits(h[t - 1], v[Len(w) + 1 + t])
    PROVE  Good(v)
<1> DEFINE L == Len(w)
           b0 == L + 1
           G(i) == [j \in b0 .. i - 1 |-> h[j - b0]]
<1>1. /\ L \in Nat /\ v \in Seq(WireItem) /\ Len(v) = b0 + n /\ w \in Seq(WireItem) /\ b0 \in Nat
      /\ (\A j \in 1..L : v[j] = w[j]) /\ v[b0] = Wires!Break /\ Wires!Break.kind = "message"
  BY ItemsAre DEF Good, Extends
<1>0. /\ b0 = L + 1
      /\ \A t \in 1..n : /\ v[b0 + t].kind # "message"
                        /\ h[t] = Wires!Read(h[t - 1], v[b0 + t])
                        /\ v[b0 + t].kind = "result" => Hits(h[t - 1], v[b0 + t])
  OBVIOUS
<1> HIDE DEF b0
<1>2. ASSUME NEW i \in b0 + 1 .. b0 + n + 1
      PROVE  Opens(v, i, b0, G(i)) /\ G(i)[i - 1] = h[i - 1 - b0]
  <2>1. b0 \in 1 .. i - 1 /\ i - 1 \in b0 .. i - 1 /\ b0 \in b0 .. i - 1 /\ b0 - b0 = 0
    BY <1>0, <1>1
  <2>2. G(i)[i - 1] = h[i - 1 - b0] /\ G(i)[b0] = << >> /\ G(i) = [j \in b0 .. i - 1 |-> G(i)[j]]
    BY <2>1
  <2>3. ASSUME NEW j \in b0 + 1 .. i - 1
        PROVE  v[j].kind # "message" /\ G(i)[j] = Wires!Read(G(i)[j - 1], v[j])
    <3> DEFINE t == j - b0
    <3>1. t \in 1..n /\ b0 + t = j /\ j - 1 \in b0 .. i - 1 /\ j \in b0 .. i - 1 /\ j - 1 - b0 = t - 1
      BY <1>1
    <3>2. G(i)[j] = h[t] /\ G(i)[j - 1] = h[t - 1]
      BY <3>1
    <3> HIDE DEF G, t
    <3>3. v[j].kind # "message" /\ h[t] = Wires!Read(h[t - 1], v[j])
      BY <1>0, <3>1
    <3> QED BY <3>2, <3>3
  <2> HIDE DEF G
  <2> QED BY <1>1, <2>1, <2>2, <2>3 DEF Opens
<1> HIDE DEF G
<1>3. ASSUME NEW i \in 1..L, i > 1, v[i].kind \in {"result", "message"} PROVE Settled(v, i)
  <2>1. v[i] = w[i] /\ i \in Nat /\ \A j \in 1 .. i - 1 : v[j] = w[j]
    BY <1>1
  <2>2. Settled(w, i)
    BY <1>3, <2>1 DEF Good
  <2>3. PICK b, g : /\ Opens(w, i, b, g)
                    /\ w[i].kind = "result" => Hits(g[i - 1], w[i])
                    /\ w[i].kind = "message" => g[i - 1] = << >>
    BY <2>2 DEF Settled
  <2>4. Opens(v, i, b, g)
    BY <2>1, <2>3, OpensStay
  <2> QED BY <2>1, <2>3, <2>4 DEF Settled
<1>4. ASSUME b0 > 1 PROVE Settled(v, b0)
  <2>1. w # << >>
    BY <1>0, <1>1, <1>4
  <2>2. PICK b, g : Opens(w, L + 1, b, g) /\ g[L] = << >>
    BY <2>1 DEF Good
  <2>3. b0 - 1 = L /\ v[b0].kind # "result"
    BY <1>0, <1>1
  <2>4. Opens(v, b0, b, g)
    <3>1. b0 \in Nat /\ \A j \in 1 .. b0 - 1 : v[j] = w[j]
      BY <1>1, <2>3
    <3>2. Opens(w, b0, b, g)
      BY <1>0, <2>2
    <3> QED BY <3>1, <3>2, OpensStay
  <2> QED BY <2>2, <2>3, <2>4 DEF Settled
<1>5. ASSUME NEW i \in b0 + 1 .. b0 + n, v[i].kind \in {"result", "message"} PROVE Settled(v, i)
  <2> DEFINE t == i - b0
  <2>1. t \in 1..n /\ b0 + t = i /\ i \in b0 + 1 .. b0 + n + 1 /\ i - 1 - b0 = t - 1
    BY <1>1
  <2> HIDE DEF t
  <2>2. v[i].kind # "message" /\ (v[i].kind = "result" => Hits(h[t - 1], v[i]))
    BY <1>0, <2>1
  <2>3. Opens(v, i, b0, G(i)) /\ G(i)[i - 1] = h[t - 1]
    BY <1>2, <2>1
  <2> QED BY <2>2, <2>3 DEF Settled
<1>6. \A i \in 1 .. Len(v) : i \in 1..L \/ i = b0 \/ i \in b0 + 1 .. b0 + n
  BY <1>0, <1>1
<1>7. \A i \in 1 .. Len(v) : i > 1 /\ v[i].kind \in {"result", "message"} => Settled(v, i)
  <2> HIDE DEF L
  <2> QED BY <1>3, <1>4, <1>5, <1>6
<1>8. v[1].kind = "message"
  <2>1. CASE L = 0
    BY <1>0, <1>1, <2>1
  <2>2. CASE L # 0
    <3>1. w # << >> /\ 1 \in 1..L
      BY <1>1, <2>2
    <3> QED BY <1>1, <3>1 DEF Good
  <2> QED BY <2>1, <2>2
<1>9. \E b, g : Opens(v, Len(v) + 1, b, g) /\ g[Len(v)] = << >>
  <2> DEFINE i == b0 + n + 1
  <2>1. i \in b0 + 1 .. b0 + n + 1 /\ i - 1 - b0 = n /\ i - 1 = Len(v) /\ Len(v) + 1 = i
    BY <1>1
  <2> HIDE DEF i
  <2>2. Opens(v, i, b0, G(i)) /\ G(i)[i - 1] = h[n]
    BY <1>2, <2>1 DEF i
  <2> QED BY <2>1, <2>2
<1> QED BY <1>1, <1>7, <1>8, <1>9 DEF Good

(* Flattening singletons gives their elements.                                *)
LEMMA FlattenSingles ==
    ASSUME NEW C, NEW n \in Nat \ {0}, NEW x \in Seq(C), Len(x) = n
    PROVE  FlattenSeq([k \in 1..n |-> <<x[k]>>]) = x
<1> DEFINE s == [k \in 1..n |-> <<x[k]>>]
           g == [k \in 1..n |-> SubSeq(x, 1, k)]
<1>1. Len(s) = n /\ \A k \in 1..n : s[k] = <<x[k]>>
  OBVIOUS
<1>2. g = [k \in 1..n |-> g[k]] /\ g[n] = SubSeq(x, 1, n) /\ \A k \in 1..n : g[k] = SubSeq(x, 1, k)
  OBVIOUS
<1> HIDE DEF s, g
<1>3. ASSUME NEW k \in 1..n PROVE SubSeq(x, 1, k) = SubSeq(x, 1, k - 1) \o <<x[k]>>
  <2>1. 1 \in 1 .. Len(x) /\ k \in 1 .. Len(x)
    OBVIOUS
  <2> QED BY <2>1, SubSeqRecursiveSecond
<1>4. g[1] = s[1]
  <2>1. 1 \in 1..n /\ 0 < 1
    OBVIOUS
  <2>2. SubSeq(x, 1, 0) = << >>
    BY SubSeqEmpty
  <2>3. SubSeq(x, 1, 1) = << >> \o <<x[1]>>
    <3>1. SubSeq(x, 1, 1) = SubSeq(x, 1, 1 - 1) \o <<x[1]>>
      BY <1>3, <2>1
    <3>2. 1 - 1 = 0
      OBVIOUS
    <3> QED BY <2>2, <3>1, <3>2
  <2>4. << >> \o <<x[1]>> = <<x[1]>>
    OBVIOUS
  <2>5. g[1] = SubSeq(x, 1, 1) /\ s[1] = <<x[1]>>
    BY <1>1, <1>2, <2>1
  <2> QED BY <2>3, <2>4, <2>5
<1>5. \A k \in 2..n : g[k] = g[k - 1] \o s[k]
  <2> TAKE k \in 2..n
  <2>1. k \in 1..n /\ k - 1 \in 1..n
    OBVIOUS
  <2> QED BY <1>1, <1>2, <1>3, <2>1
<1>6. Joins(g, s, n)
  BY <1>2, <1>4, <1>5 DEF Joins
<1>7. FlattenSeq(s) = g[n]
  BY <1>1, <1>6, FlattenIs
<1>8. SubSeq(x, 1, n) = x
  BY SubSeqFull
<1> QED BY <1>2, <1>7, <1>8 DEF s

Converted(a, p) == [i \in DOMAIN p |-> Wires!Convert(a, p[i])]

(* A prompt or an answer without calls.                                       *)
LEMMA TextIsGood ==
    ASSUME NEW a \in Wires!Adapters, NEW w, Good(w), NEW m \in {Wires!User, Wires!Assistant(<< >>)}
    PROVE  /\ Converted(a, <<m>>) \in Seq(Seq(WireItem))
           /\ Good(w \o FlattenSeq(Converted(a, <<m>>)))
<1> DEFINE x == Wires!Item("text", <<"none">>, 0)
           y == Wires!Break
           c == <<y, x>>
           v == w \o c
           h == [t \in 0..1 |-> << >>]
<1>1. x \in WireItem /\ y \in WireItem /\ y.kind = "message" /\ x.kind = "text"
  BY ItemsAre
<1>2. Wires!Convert(a, m) = c
  BY TextConverts
<1>3. Converted(a, <<m>>) = <<Wires!Convert(a, m)>>
  <2>1. DOMAIN <<m>> = 1..1 /\ <<m>>[1] = m
    OBVIOUS
  <2> DEFINE z(j) == Wires!Convert(a, j)
             q == Converted(a, <<m>>)
  <2>2. q = [i \in 1..1 |-> z(m)]
    BY <2>1 DEF Converted
  <2> HIDE DEF z
  <2>3. [i \in 1..1 |-> z(m)] = <<z(m)>>
    OBVIOUS
  <2> QED BY <2>2, <2>3 DEF z
<1> HIDE DEF x, y
<1>4. c \in Seq(WireItem) /\ Len(c) = 2 /\ c[1] = y /\ c[2] = x
  BY <1>1
<1> HIDE DEF c
<1>5. w \in Seq(WireItem) /\ Len(w) \in Nat
  BY DEF Good
<1>6. /\ v \in Seq(WireItem) /\ Len(v) = Len(w) + 2
      /\ \A j \in 1 .. Len(w) : v[j] = w[j]
      /\ v[Len(w) + 1] = y /\ v[Len(w) + 2] = x
  <2>1. /\ v \in Seq(WireItem) /\ Len(v) = Len(w) + Len(c)
        /\ \A j \in 1 .. Len(w) + Len(c) : v[j] = IF j <= Len(w) THEN w[j] ELSE c[j - Len(w)]
    BY <1>4, <1>5, ConcatProperties
  <2> HIDE DEF v
  <2> QED BY <1>4, <1>5, <2>1
<1> HIDE DEF v
<1>7. Extends(w, v, 1)
  <2>1. Len(w) + 1 + 1 = Len(w) + 2
    BY <1>5
  <2> QED BY <1>6, <2>1 DEF Extends, y
<1>8. Wires!Read(<< >>, x) = << >>
  BY <1>1 DEF Wires!Read
<1>9. Good(v)
  <2>1. h[0] = << >> /\ h[1] = << >>
    OBVIOUS
  <2> HIDE DEF h
  <2>2. \A t \in 1..1 : /\ v[Len(w) + 1 + t].kind # "message"
                        /\ h[t] = Wires!Read(h[t - 1], v[Len(w) + 1 + t])
                        /\ v[Len(w) + 1 + t].kind = "result" => Hits(h[t - 1], v[Len(w) + 1 + t])
    <3> TAKE t \in 1..1
    <3>1. t = 1 /\ Len(w) + 1 + t = Len(w) + 2 /\ t - 1 = 0
      BY <1>5
    <3> QED BY <1>1, <1>6, <1>8, <2>1, <3>1
  <2>3. 1 \in Nat
    OBVIOUS
  <2> QED BY <1>7, <2>1, <2>2, <2>3, MessageIsGood
<1>10. FlattenSeq(Converted(a, <<m>>)) = c
  BY <1>2, <1>3, FlattenOne
<1>11. Converted(a, <<m>>) \in Seq(Seq(WireItem))
  <2> DEFINE D == Seq(WireItem)
  <2>1. c \in D
    BY <1>4
  <2> HIDE DEF D
  <2>2. <<c>> \in Seq(D)
    BY <2>1
  <2> QED BY <1>2, <1>3, <2>2 DEF D
<1> QED BY <1>9, <1>10, <1>11 DEF v

LEMMA ConcatIs ==
    ASSUME NEW C, NEW s \in Seq(C), NEW t \in Seq(C), NEW q, q = s \o t
    PROVE  /\ q \in Seq(C) /\ Len(q) = Len(s) + Len(t)
           /\ \A j \in 1 .. Len(s) : q[j] = s[j]
           /\ \A j \in 1 .. Len(t) : q[Len(s) + j] = t[j]
<1> DEFINE k == Len(s)
           l == Len(t)
<1>1. k \in Nat /\ l \in Nat
  OBVIOUS
<1>2. q \in Seq(C) /\ Len(q) = k + l /\ \A j \in 1 .. k + l : q[j] = IF j <= k THEN s[j] ELSE t[j - k]
  BY ConcatProperties
<1> HIDE DEF k, l
<1>3. \A j \in 1..k : q[j] = s[j]
  BY <1>1, <1>2
<1>4. ASSUME NEW j \in 1..l PROVE q[k + j] = t[j]
  <2> DEFINE i == k + j
  <2>1. i \in 1 .. k + l /\ ~(i <= k) /\ i - k = j
    BY <1>1
  <2> HIDE DEF i
  <2>2. q[i] = IF i <= k THEN s[i] ELSE t[i - k]
    BY <1>2, <2>1
  <2>3. q[i] = t[j]
    BY <2>1, <2>2
  <2> QED BY <2>3 DEF i
<1>5. q \in Seq(C) /\ Len(q) = Len(s) + Len(t)
  BY <1>2 DEF k, l
<1>6. \A j \in 1 .. Len(s) : q[j] = s[j]
  BY <1>3 DEF k
<1>7. \A j \in 1 .. Len(t) : q[Len(s) + j] = t[j]
  BY <1>4 DEF k, l
<1> QED BY <1>5, <1>6, <1>7

LEMMA ConsIs ==
    ASSUME NEW C, NEW x \in C, NEW t \in Seq(C), NEW q, q = <<x>> \o t
    PROVE  /\ q \in Seq(C) /\ Len(q) = 1 + Len(t) /\ q[1] = x
           /\ \A j \in 1 .. Len(t) : q[j + 1] = t[j]
<1> DEFINE s == <<x>>
<1>1. s \in Seq(C) /\ Len(s) = 1 /\ s[1] = x /\ Len(t) \in Nat /\ q = s \o t
  OBVIOUS
<1> HIDE DEF s
<1>2. /\ q \in Seq(C) /\ Len(q) = Len(s) + Len(t)
      /\ \A j \in 1 .. Len(s) : q[j] = s[j]
      /\ \A j \in 1 .. Len(t) : q[Len(s) + j] = t[j]
  BY <1>1, ConcatIs
<1>3. q[1] = x
  <2>1. 1 \in 1 .. Len(s)
    BY <1>1
  <2> QED BY <1>1, <1>2, <2>1
<1>4. \A j \in 1 .. Len(t) : q[j + 1] = t[j]
  <2> TAKE j \in 1 .. Len(t)
  <2>1. Len(s) + j = j + 1
    BY <1>1
  <2> QED BY <1>2, <2>1
<1> QED BY <1>1, <1>2, <1>3, <1>4

(* A message with calls and all their results.                                *)
LEMMA CallsAreGood ==
    ASSUME NEW a \in Wires!Adapters, NEW w, Good(w), NEW cs, CallsAre(cs), cs # << >>,
           NEW p, p = <<Wires!Assistant(cs)>> \o Results(cs)
    PROVE  /\ Converted(a, p) \in Seq(Seq(WireItem))
           /\ Good(w \o FlattenSeq(Converted(a, p)))
<1> DEFINE n == Len(cs)
           W == Seq(WireItem)
           y == Wires!Break
           calls == [k \in 1..n |-> CallItem(a, cs, k)]
           given == [k \in 1..n |-> ResultItem(a, cs, k)]
           c == <<y>> \o calls
           alone == [k \in 1..n |-> <<ResultItem(a, cs, k)>>]
           h == [t \in 0 .. 2 * n |-> Left(a, cs, t)]
<1>1. n \in Nat \ {0} /\ cs \in Seq(CallSet)
  BY DEF CallsAre
<1>2. \A k \in 1..n : /\ CallItem(a, cs, k) \in WireItem /\ ResultItem(a, cs, k) \in WireItem
                      /\ CallItem(a, cs, k).kind = "call" /\ ResultItem(a, cs, k).kind = "result"
                      /\ CallItem(a, cs, k).key = ResultItem(a, cs, k).key
                      /\ CallItem(a, cs, k).n = k /\ ResultItem(a, cs, k).n = k
  BY <1>1, ItemsAre
<1>3. y \in WireItem /\ y.kind = "message"
  BY ItemsAre
<1> HIDE DEF y
<1>4. /\ calls \in Seq(WireItem) /\ Len(calls) = n /\ \A k \in 1..n : calls[k] = CallItem(a, cs, k)
  BY <1>1, <1>2
<1>5. /\ given \in Seq(WireItem) /\ Len(given) = n /\ \A k \in 1..n : given[k] = ResultItem(a, cs, k)
  BY <1>1, <1>2
<1> HIDE DEF calls, given
<1>6. /\ c \in Seq(WireItem) /\ Len(c) = n + 1 /\ c[1] = y
      /\ \A k \in 1..n : c[k + 1] = CallItem(a, cs, k)
  <2>1. c = <<y>> \o calls
    OBVIOUS
  <2> HIDE DEF c
  <2>2. c \in Seq(WireItem) /\ Len(c) = 1 + Len(calls) /\ c[1] = y /\ \A k \in 1 .. Len(calls) : c[k + 1] = calls[k]
    BY <1>3, <1>4, <2>1, ConsIs
  <2> QED BY <1>1, <1>4, <2>2
<1>7. Wires!Convert(a, Wires!Assistant(cs)) = c
  BY <1>1, CallsConvert DEF c, calls, y
<1> HIDE DEF c
<1>8. Converted(a, p) = <<c>> \o alone
  <2> DEFINE m == Wires!Assistant(cs)
             rs == Results(cs)
             q == Converted(a, p)
             u == <<c>> \o alone
  <2>1. rs \in Seq(Msgs) /\ Len(rs) = n /\ \A k \in 1..n : rs[k] = Wires!ToolResult(cs[k])
    <3>1. \A k \in 1..n : Wires!ToolResult(cs[k]) \in Msgs
      <4> TAKE k \in 1..n
      <4>1. cs[k] \in CallSet
        BY <1>1
      <4> QED BY <4>1, MadeOf
    <3> QED BY <1>1, <3>1 DEF Results
  <2>2. m \in Msgs
    BY <1>1, MadeOf
  <2> HIDE DEF m, rs
  <2>3. /\ p \in Seq(Msgs) /\ Len(p) = 1 + n /\ p[1] = m /\ \A k \in 1..n : p[k + 1] = rs[k]
    <3>1. p = <<m>> \o rs
      BY DEF m, rs
    <3> DEFINE o == <<m>> \o rs
    <3>2. o = <<m>> \o rs
      OBVIOUS
    <3>3. p = o
      BY <3>1
    <3> HIDE DEF o
    <3>4. o \in Seq(Msgs) /\ Len(o) = 1 + Len(rs) /\ o[1] = m /\ \A k \in 1 .. Len(rs) : o[k + 1] = rs[k]
      BY <2>1, <2>2, <3>2, ConsIs
    <3> QED BY <2>1, <3>3, <3>4
  <2>4. q = [j \in 1 .. 1 + n |-> Wires!Convert(a, p[j])]
    <3>1. DOMAIN p = 1 .. 1 + n
      BY <2>3
    <3> QED BY <3>1 DEF Converted
  <2>5. /\ u \in Seq(W) /\ Len(u) = 1 + n /\ u[1] = c
        /\ \A k \in 1..n : u[k + 1] = <<ResultItem(a, cs, k)>>
    <3>1. c \in W /\ \A k \in 1..n : <<ResultItem(a, cs, k)>> \in W
      BY <1>2, <1>6
    <3> HIDE DEF W
    <3>3. alone \in Seq(W) /\ Len(alone) = n /\ \A k \in 1..n : alone[k] = <<ResultItem(a, cs, k)>>
      BY <1>1, <3>1
    <3> HIDE DEF alone
    <3>5. u = <<c>> \o alone
      OBVIOUS
    <3> HIDE DEF u
    <3>4. /\ u \in Seq(W) /\ Len(u) = 1 + Len(alone) /\ u[1] = c
          /\ \A k \in 1 .. Len(alone) : u[k + 1] = alone[k]
      BY <3>1, <3>3, <3>5, ConsIs
    <3> QED BY <3>3, <3>4
  <2>6. ASSUME NEW j \in 1 .. 1 + n PROVE Wires!Convert(a, p[j]) = u[j]
    <3>1. CASE j = 1
      BY <1>7, <2>3, <2>5, <3>1 DEF m
    <3>2. CASE j # 1
      <4> DEFINE k == j - 1
      <4>1. k \in 1..n /\ k + 1 = j
        BY <1>1, <3>2
      <4> HIDE DEF k, u
      <4>2. p[j] = Wires!ToolResult(cs[k]) /\ u[j] = <<ResultItem(a, cs, k)>>
        BY <2>1, <2>3, <2>5, <4>1
      <4> QED BY <4>1, <4>2, ResultConverts
    <3> QED BY <3>1, <3>2
  <2> HIDE DEF q, u
  <2>7. u = [j \in 1 .. 1 + n |-> u[j]]
    BY <2>5
  <2>8. q = u
    BY <2>4, <2>6, <2>7
  <2> QED BY <2>8 DEF q, u
<1>9. alone \in Seq(W) /\ <<c>> \in Seq(W) /\ <<c>> \o alone \in Seq(W)
  <2>1. c \in W /\ \A k \in 1..n : <<ResultItem(a, cs, k)>> \in W
    BY <1>2, <1>6
  <2> HIDE DEF W
  <2> QED BY <1>1, <2>1
<1>10. FlattenSeq(alone) = given
  <2>1. alone = [k \in 1..n |-> <<given[k]>>]
    BY <1>5
  <2> HIDE DEF alone
  <2> QED BY <1>1, <1>5, <2>1, FlattenSingles
<1> HIDE DEF alone
<1>11. FlattenSeq(Converted(a, p)) = c \o given
  <2>1. FlattenSeq(<<c>> \o alone) = FlattenSeq(<<c>>) \o FlattenSeq(alone)
    BY <1>9, FlattenConcat
  <2> QED BY <1>8, <1>10, <2>1, FlattenOne
<1> DEFINE z == c \o given
           v == w \o z
<1>12. /\ z \in Seq(WireItem) /\ Len(z) = 1 + 2 * n /\ z[1] = y
       /\ \A t \in 1 .. 2 * n : z[1 + t] = BlockItem(a, cs, t)
  <2>0. z = c \o given
    OBVIOUS
  <2> HIDE DEF z
  <2>1. /\ z \in Seq(WireItem) /\ Len(z) = Len(c) + Len(given)
        /\ \A j \in 1 .. Len(c) : z[j] = c[j]
        /\ \A j \in 1 .. Len(given) : z[Len(c) + j] = given[j]
    <3>1. c \in Seq(WireItem) /\ given \in Seq(WireItem)
      BY <1>5, <1>6
    <3>2. z \in Seq(WireItem) /\ Len(z) = Len(c) + Len(given)
      BY <2>0, <3>1, ConcatIs
    <3>3. \A j \in 1 .. Len(c) : z[j] = c[j]
      BY <2>0, <3>1, ConcatIs
    <3>4. \A j \in 1 .. Len(given) : z[Len(c) + j] = given[j]
      BY <2>0, <3>1, ConcatIs
    <3> QED BY <3>2, <3>3, <3>4
  <2>2. /\ Len(z) = n + 1 + n
        /\ \A j \in 1 .. n + 1 : z[j] = c[j]
        /\ \A j \in 1..n : z[n + 1 + j] = given[j]
    BY <1>5, <1>6, <2>1
  <2>3. Len(z) = 1 + 2 * n /\ 1 \in 1 .. n + 1
    BY <1>1, <2>2
  <2>4. ASSUME NEW t \in 1 .. 2 * n PROVE z[1 + t] = BlockItem(a, cs, t)
    <3>1. t \in Nat
      BY <1>1
    <3>2. CASE t <= n
      <4>1. t \in 1..n /\ t + 1 \in 1 .. n + 1 /\ 1 + t = t + 1
        BY <1>1, <3>1, <3>2
      <4>2. z[1 + t] = CallItem(a, cs, t)
        BY <1>6, <2>2, <4>1
      <4> QED BY <3>2, <4>2 DEF BlockItem
    <3>3. CASE t > n
      <4> DEFINE k == t - n
      <4>1. k \in 1..n /\ n + 1 + k = 1 + t /\ ~(t <= n)
        BY <1>1, <3>1, <3>3
      <4>2. BlockItem(a, cs, t) = ResultItem(a, cs, k)
        BY <4>1 DEF BlockItem
      <4> HIDE DEF k
      <4>3. z[1 + t] = ResultItem(a, cs, k)
        BY <1>5, <2>2, <4>1
      <4> QED BY <4>2, <4>3
    <3> QED BY <1>1, <3>1, <3>2, <3>3
  <2> QED BY <1>6, <2>1, <2>2, <2>3, <2>4
<1> HIDE DEF z
<1>13. w \in Seq(WireItem) /\ Len(w) \in Nat
  BY DEF Good
<1>14. /\ v \in Seq(WireItem) /\ Len(v) = Len(w) + 1 + 2 * n
       /\ \A j \in 1 .. Len(w) : v[j] = w[j]
       /\ v[Len(w) + 1] = y
       /\ \A t \in 1 .. 2 * n : v[Len(w) + 1 + t] = BlockItem(a, cs, t)
  <2> DEFINE L == Len(w)
             N == 2 * n
  <2>0. v = w \o z
    OBVIOUS
  <2> HIDE DEF v
  <2>1. /\ v \in Seq(WireItem) /\ Len(v) = L + Len(z)
        /\ \A j \in 1..L : v[j] = w[j]
        /\ \A j \in 1 .. Len(z) : v[L + j] = z[j]
    <3>1. w \in Seq(WireItem) /\ z \in Seq(WireItem)
      BY <1>12, <1>13
    <3>2. v \in Seq(WireItem) /\ Len(v) = L + Len(z)
      BY <2>0, <3>1, ConcatIs
    <3>3. \A j \in 1..L : v[j] = w[j]
      BY <2>0, <3>1, ConcatIs
    <3>4. \A j \in 1 .. Len(z) : v[L + j] = z[j]
      BY <2>0, <3>1, ConcatIs
    <3> QED BY <3>2, <3>3, <3>4
  <2>2. N \in Nat /\ L \in Nat /\ Len(z) = 1 + N /\ z[1] = y
    BY <1>1, <1>12, <1>13
  <2>3. \A t \in 1..N : z[1 + t] = BlockItem(a, cs, t)
    BY <1>12
  <2> HIDE DEF L, N
  <2>4. Len(v) = L + 1 + N /\ 1 \in 1 .. Len(z)
    BY <2>1, <2>2
  <2>5. v[L + 1] = y
    BY <2>1, <2>2, <2>4
  <2>6. ASSUME NEW t \in 1..N PROVE v[L + 1 + t] = BlockItem(a, cs, t)
    <3>1. 1 + t \in 1 .. Len(z) /\ L + (1 + t) = L + 1 + t
      BY <2>2
    <3>2. v[L + (1 + t)] = z[1 + t]
      BY <2>1, <3>1
    <3> QED BY <2>3, <3>1, <3>2
  <2> QED BY <2>1, <2>4, <2>5, <2>6 DEF L, N
<1> HIDE DEF v
<1>15. Extends(w, v, 2 * n)
  BY <1>14 DEF Extends, y
<1>16. /\ h[0] = << >> /\ h[2 * n] = << >>
       /\ \A t \in 1 .. 2 * n : h[t] = Left(a, cs, t) /\ h[t - 1] = Left(a, cs, t - 1)
  <2>1. Left(a, cs, 0) = << >>
    <3>1. 0 <= n /\ 1..0 = {}
      BY <1>1
    <3> QED BY <3>1 DEF Left
  <2>2. Left(a, cs, 2 * n) = << >>
    <3>1. 2 * n \in Nat /\ 2 * n >= n /\ 2 * n <= 2 * n /\ 2 * n - 2 * n = 0
      BY <1>1
    <3>2. Left(a, cs, 2 * n) \in Seq(WireItem) /\ Len(Left(a, cs, 2 * n)) = 0
      BY <1>1, <3>1, LeftIs
    <3> QED BY <3>2
  <2>3. 0 \in 0 .. 2 * n /\ 2 * n \in 0 .. 2 * n
    BY <1>1
  <2>4. \A t \in 1 .. 2 * n : t \in 0 .. 2 * n /\ t - 1 \in 0 .. 2 * n
    BY <1>1
  <2> QED BY <2>1, <2>2, <2>3, <2>4
<1> HIDE DEF h
<1>17. ASSUME NEW t \in 1 .. 2 * n
       PROVE  /\ BlockItem(a, cs, t).kind # "message"
              /\ Left(a, cs, t) = Wires!Read(Left(a, cs, t - 1), BlockItem(a, cs, t))
              /\ BlockItem(a, cs, t).kind = "result" => Hits(Left(a, cs, t - 1), BlockItem(a, cs, t))
  <2>0. t \in Nat
    OBVIOUS
  <2>1. Left(a, cs, t) = Wires!Read(Left(a, cs, t - 1), BlockItem(a, cs, t))
    BY <1>1, BlockReads
  <2>2. CASE t <= n
    <3>1. BlockItem(a, cs, t).kind = "call"
      <4>1. t \in 1..n
        BY <1>1, <2>0, <2>2
      <4> QED BY <1>2, <2>2, <4>1 DEF BlockItem
    <3> QED BY <2>1, <3>1
  <2>3. CASE t > n
    <3> DEFINE open == Left(a, cs, t - 1)
               x == BlockItem(a, cs, t)
               l == 2 * n - (t - 1)
    <3>1. /\ t - n \in 1..n /\ ~(t <= n) /\ t - 1 \in Nat /\ t - 1 >= n /\ t - 1 <= 2 * n
          /\ 1 \in 1..l /\ 1 + (t - 1) - n = t - n
      BY <1>1, <2>0, <2>3
    <3>2. x = ResultItem(a, cs, t - n)
      BY <3>1 DEF BlockItem
    <3>3. /\ open \in Seq(WireItem) /\ Len(open) = l
          /\ \A k \in 1..l : open[k] = CallItem(a, cs, k + (t - 1) - n)
      BY <1>1, <3>1, LeftIs
    <3> HIDE DEF open, x, l
    <3>4. open # << >> /\ open[1] = CallItem(a, cs, t - n)
      BY <3>1, <3>3
    <3>5. x.kind = "result" /\ x.key = open[1].key /\ x.n = t - n /\ open[1].n = t - n
      BY <1>2, <3>1, <3>2, <3>4
    <3>6. Hits(open, x)
      <4>1. FirstOf(open, x) # {} /\ Wires!Min(FirstOf(open, x)) = 1
        BY <3>3, <3>4, <3>5, FirstIsFirst
      <4> QED BY <3>5, <4>1 DEF Hits
    <3> QED BY <2>1, <3>5, <3>6 DEF open, x
  <2> QED BY <1>1, <2>0, <2>2, <2>3
<1>18. Good(v)
  <2>1. 2 * n \in Nat
    BY <1>1
  <2>2. \A t \in 1 .. 2 * n : /\ v[Len(w) + 1 + t].kind # "message"
                              /\ h[t] = Wires!Read(h[t - 1], v[Len(w) + 1 + t])
                              /\ v[Len(w) + 1 + t].kind = "result" => Hits(h[t - 1], v[Len(w) + 1 + t])
    BY <1>14, <1>16, <1>17
  <2> DEFINE N == 2 * n
  <2>3. N \in Nat /\ Extends(w, v, N) /\ h[0] = << >> /\ h[N] = << >>
    BY <1>15, <1>16, <2>1
  <2>4. \A t \in 1..N : /\ v[Len(w) + 1 + t].kind # "message"
                        /\ h[t] = Wires!Read(h[t - 1], v[Len(w) + 1 + t])
                        /\ v[Len(w) + 1 + t].kind = "result" => Hits(h[t - 1], v[Len(w) + 1 + t])
    BY <2>2
  <2> HIDE DEF N
  <2> QED BY <2>3, <2>4, MessageIsGood
<1>19. Converted(a, p) \in Seq(Seq(WireItem))
  BY <1>8, <1>9
<1> QED BY <1>11, <1>18, <1>19 DEF v, z

LEMMA GroupIsGood ==
    ASSUME NEW a \in Wires!Adapters, NEW w, Good(w), NEW p, Group(p)
    PROVE  /\ Converted(a, p) \in Seq(Seq(WireItem))
           /\ Good(w \o FlattenSeq(Converted(a, p)))
<1>1. CASE p = << >>
  <2>1. Converted(a, << >>) = << >>
    <3>1. DOMAIN << >> = 1..0 /\ 1..0 = {}
      OBVIOUS
    <3> QED BY <3>1 DEF Converted
  <2>2. w \o << >> = w
    BY ConcatEmptySeq DEF Good
  <2>3. << >> \in Seq(Seq(WireItem))
    OBVIOUS
  <2> QED BY <1>1, <2>1, <2>2, <2>3, FlattenEmpty
<1>2. CASE p = <<Wires!User>>
  BY <1>2, TextIsGood
<1>3. CASE p = <<Wires!Assistant(<< >>)>>
  BY <1>3, TextIsGood
<1>4. CASE \E cs : CallsAre(cs) /\ cs # << >> /\ p = <<Wires!Assistant(cs)>> \o Results(cs)
  BY <1>4, CallsAreGood
<1> QED BY <1>1, <1>2, <1>3, <1>4 DEF Group

LEMMA ConvertedConcat ==
    ASSUME NEW a, NEW D, NEW p \in Seq(Msgs), NEW q \in Seq(Msgs),
           Converted(a, p) \in Seq(D), Converted(a, q) \in Seq(D)
    PROVE  Converted(a, p \o q) = Converted(a, p) \o Converted(a, q)
<1> DEFINE z == p \o q
           x == Converted(a, p)
           y == Converted(a, q)
           u == x \o y
           t == Converted(a, z)
           k == Len(p)
           l == Len(q)
<1>1. z = p \o q /\ u = x \o y
  OBVIOUS
<1>2. /\ x = [i \in 1..k |-> Wires!Convert(a, p[i])]
      /\ y = [i \in 1..l |-> Wires!Convert(a, q[i])]
      /\ k \in Nat /\ l \in Nat
  <2>1. DOMAIN p = 1..k /\ DOMAIN q = 1..l /\ k \in Nat /\ l \in Nat
    OBVIOUS
  <2> QED BY <2>1 DEF Converted
<1>3. x \in Seq(D) /\ y \in Seq(D)
  OBVIOUS
<1> HIDE DEF x, y, u, z
<1>4. z \in Seq(Msgs) /\ Len(z) = k + l
  BY <1>1, ConcatIs
<1>5. \A j \in 1..k : z[j] = p[j]
  BY <1>1, ConcatIs
<1>6. \A j \in 1..l : z[k + j] = q[j]
  BY <1>1, ConcatIs
<1>7. Len(x) = k /\ Len(y) = l
  BY <1>2
<1>8. u \in Seq(D) /\ Len(u) = k + l
  <2>1. Len(u) = Len(x) + Len(y) /\ u \in Seq(D)
    BY <1>1, <1>3, ConcatIs
  <2> QED BY <1>7, <2>1
<1>9. \A j \in 1..k : u[j] = x[j]
  <2>1. \A j \in 1 .. Len(x) : u[j] = x[j]
    BY <1>1, <1>3, ConcatIs
  <2> QED BY <1>7, <2>1
<1>10. \A j \in 1..l : u[k + j] = y[j]
  <2>1. \A j \in 1 .. Len(y) : u[Len(x) + j] = y[j]
    BY <1>1, <1>3, ConcatIs
  <2> QED BY <1>7, <2>1
<1>11. t = [i \in 1 .. k + l |-> Wires!Convert(a, z[i])]
  <2>1. DOMAIN z = 1 .. k + l
    BY <1>4
  <2> QED BY <2>1 DEF Converted
<1>12. ASSUME NEW i \in 1 .. k + l PROVE Wires!Convert(a, z[i]) = u[i]
  <2>1. CASE i \in 1..k
    BY <1>2, <1>5, <1>9, <2>1
  <2>2. CASE i \notin 1..k
    <3> DEFINE j == i - k
    <3>1. j \in 1..l /\ k + j = i
      BY <1>2, <2>2
    <3> HIDE DEF j, k, l
    <3>2. z[i] = q[j] /\ u[i] = y[j]
      BY <1>6, <1>10, <3>1
    <3> QED BY <1>2, <3>1, <3>2
  <2> QED BY <2>1, <2>2
<1>13. u = [i \in 1 .. k + l |-> u[i]]
  BY <1>8
<1> HIDE DEF t, k, l
<1>14. t = u
  BY <1>11, <1>12, <1>13
<1> QED BY <1>14 DEF t, u, x, y, z

LEMMA RequestIs ==
    ASSUME NEW a \in Wires!Adapters, TranscriptIs(messages)
    PROVE  Good(Wires!Request(a))
<1> DEFINE ms == messages
           n == Len(ms)
           C == Seq(Msgs)
           D == Seq(WireItem)
           parts == [i \in 1..n |-> Kept(ms, i)]
           N(m) == FlattenSeq(SubSeq(parts, 1, m))
           Sent(m) == Converted(a, N(m))
           Fine(m) == Sent(m) \in Seq(D) /\ Good(FlattenSeq(Sent(m)))
           X == {m \in 0..n : ~Fine(m)}
<1>1. n \in Nat /\ DOMAIN ms = 1..n
  BY DEF TranscriptIs
<1>2. \A i \in 1..n : Group(Kept(ms, i)) /\ Kept(ms, i) \in C
  BY KeptIsGroup
<1>3. Closed(C)
  BY SeqIsClosed
<1> HIDE DEF C
<1>4. parts \in Seq(C) /\ Len(parts) = n /\ \A i \in 1..n : parts[i] = Kept(ms, i)
  BY <1>1, <1>2
<1> HIDE DEF parts, n, ms
<1>5. N(0) = << >>
  <2>1. SubSeq(parts, 1, 0) = << >>
    BY SubSeqEmpty
  <2> QED BY <2>1, FlattenEmpty
<1>6. \A m \in 0..n : SubSeq(parts, 1, m) \in Seq(C) /\ N(m) \in C
  <2> TAKE m \in 0..n
  <2>1. \A i \in 1..m : parts[i] \in C
    BY <1>1, <1>2, <1>4
  <2>2. SubSeq(parts, 1, m) \in Seq(C)
    BY <2>1, SubSeqProperties
  <2> QED BY <1>3, <2>2, FlattenTyped
<1>7. ASSUME NEW m \in 1..n PROVE N(m) = N(m - 1) \o Kept(ms, m)
  <2>1. m - 1 \in 0..n /\ 1 \in 1 .. Len(parts) /\ m \in 1 .. Len(parts) /\ parts[m] = Kept(ms, m) /\ Kept(ms, m) \in C
    BY <1>1, <1>2, <1>4
  <2> DEFINE before == SubSeq(parts, 1, m - 1)
  <2>2. before \in Seq(C)
    BY <1>6, <2>1
  <2>3. SubSeq(parts, 1, m) = before \o <<parts[m]>>
    BY <1>4, <2>1, SubSeqRecursiveSecond
  <2> HIDE DEF before
  <2>4. before \o <<parts[m]>> = Append(before, Kept(ms, m))
    BY <2>1, <2>2
  <2>5. FlattenSeq(Append(before, Kept(ms, m))) = FlattenSeq(before) \o Kept(ms, m)
    BY <1>3, <2>1, <2>2, FlattenAppend
  <2> QED BY <2>3, <2>4, <2>5 DEF before
<1> HIDE DEF N
<1>8. Fine(0)
  <2>1. Sent(0) = << >>
    <3>1. DOMAIN << >> = 1..0 /\ 1..0 = {}
      OBVIOUS
    <3> QED BY <1>5, <3>1 DEF Converted
  <2>2. << >> \in Seq(D) /\ << >> \in D
    OBVIOUS
  <2>3. Good(<< >>)
    BY <2>2 DEF Good
  <2> QED BY <2>1, <2>2, <2>3, FlattenEmpty
<1>9. ASSUME NEW m \in 1..n, Fine(m - 1) PROVE Fine(m)
  <2> DEFINE p == Kept(ms, m)
             w == FlattenSeq(Sent(m - 1))
  <2>1. Group(p) /\ p \in C /\ N(m - 1) \in C /\ N(m) = N(m - 1) \o p
    <3>1. m - 1 \in 0..n
      BY <1>1
    <3> QED BY <1>2, <1>6, <1>7, <3>1
  <2> HIDE DEF p
  <2>2. Good(w) /\ Sent(m - 1) \in Seq(D)
    BY <1>9
  <2>3. Converted(a, p) \in Seq(D) /\ Good(w \o FlattenSeq(Converted(a, p)))
    <3> HIDE DEF w
    <3> QED BY <2>1, <2>2, GroupIsGood
  <2>4. Sent(m) = Sent(m - 1) \o Converted(a, p)
    <3>1. p \in Seq(Msgs) /\ N(m - 1) \in Seq(Msgs)
      BY <2>1 DEF C
    <3> HIDE DEF D
    <3>2. Converted(a, N(m - 1) \o p) = Converted(a, N(m - 1)) \o Converted(a, p)
      BY <2>2, <2>3, <3>1, ConvertedConcat
    <3> QED BY <2>1, <3>2
  <2> DEFINE s == Sent(m - 1)
             t == Converted(a, p)
  <2>5. s \in Seq(Seq(WireItem)) /\ t \in Seq(Seq(WireItem)) /\ w = FlattenSeq(s)
    BY <2>2, <2>3
  <2> HIDE DEF s, t, w
  <2>6. FlattenSeq(s \o t) = w \o FlattenSeq(t)
    BY <2>5, FlattenConcat
  <2>7. s \o t \in Seq(Seq(WireItem))
    <3> DEFINE E == Seq(WireItem)
    <3>1. s \in Seq(E) /\ t \in Seq(E)
      BY <2>5
    <3> HIDE DEF E
    <3>2. s \o t \in Seq(E)
      BY <3>1
    <3> QED BY <3>2 DEF E
  <2>8. Sent(m) = s \o t /\ Good(w \o FlattenSeq(t))
    BY <2>3, <2>4 DEF s, t
  <2> HIDE DEF Sent
  <2> QED BY <2>6, <2>7, <2>8
<1> HIDE DEF Fine
<1>10. ASSUME X # {} PROVE FALSE
  <2>1. PICK m \in X : \A l \in X : m <= l
    <3>1. X \in SUBSET (0..n)
      OBVIOUS
    <3> HIDE DEF X
    <3> QED BY <1>1, <1>10, <3>1, Least
  <2>2. m \in 0..n /\ ~Fine(m)
    OBVIOUS
  <2>3. m # 0
    BY <1>8, <2>2
  <2>4. m - 1 \in 0..n /\ m \in 1..n /\ ~(m <= m - 1)
    BY <1>1, <2>2, <2>3
  <2>5. Fine(m - 1)
    BY <2>1, <2>4
  <2> QED BY <1>9, <2>2, <2>4, <2>5
<1>11. Fine(n)
  BY <1>1, <1>10
<1>12. N(n) = Wires!T!normalizeToolTranscript(messages)
  <2>1. SubSeq(parts, 1, n) = parts
    BY <1>4, SubSeqFull
  <2>2. Wires!T!normalizeToolTranscript(messages) = FlattenSeq([i \in DOMAIN messages |-> Kept(messages, i)])
    BY NormalizedIs
  <2>3. [i \in DOMAIN messages |-> Kept(messages, i)] = parts
    BY <1>1 DEF parts, ms
  <2> QED BY <2>1, <2>2, <2>3 DEF N
<1>13. Wires!Request(a) = FlattenSeq(Sent(n))
  <2>1. \A s : Wires!FlattenSeq(s) = FlattenSeq(s)
    BY Zenon DEF Wires!FlattenSeq, FlattenSeq
  <2>2. Wires!Request(a) = Wires!FlattenSeq(Converted(a, Wires!T!normalizeToolTranscript(messages)))
    BY Zenon DEF Wires!Request, Converted
  <2> QED BY <1>12, <2>1, <2>2
<1> QED BY <1>11, <1>13 DEF Fine

\* Whatever names the tools have and however many calls a reply makes, in what
\* any adapter sends every result is read as the result of its own call, and
\* no call is left without one (toWireMessages, buildRequest, toWireRequest and
\* their like, on what normalizeToolTranscript leaves).
THEOREM EveryResultIsItsCalls == ASSUME Wires!ConstantsOK PROVE DataSpec => []ResultsReachTheirCalls
<1>1. DataInit => WireInv
  BY WireInit DEF DataInit
<1>2. WireInv /\ [DataNext]_dataVars => WireInv'
  <2>1. [DataNext]_dataVars => [Wires!Next]_(Wires!vars)
    BY DEF DataNext, StreamNext, StoreNext, OutputNext, CostsNext, WiresNext, FilterNext, dataVars,
           wireVars, Wires!vars
  <2> QED BY <2>1, WireStep
<1>3. WireInv => ResultsReachTheirCalls
  <2> SUFFICES ASSUME WireInv PROVE Wires!TypeOK /\ Wires!ResultsReachTheirCalls
    BY DEF ResultsReachTheirCalls
  <2>1. TranscriptIs(messages) /\ Wires!TypeOK
    BY DEF WireInv
  <2>2. ASSUME NEW a \in Wires!Adapters, NEW w, w = Wires!Request(a), NEW i \in DOMAIN w
        PROVE  /\ w[i].kind = "result" => Wires!AnsweredBy(w, i) = w[i].n
               /\ w[i].kind = "message" /\ i > 1 => Wires!Pending(w, i) = << >>
    <3>1. Good(w)
      BY <2>1, <2>2, RequestIs
    <3>2. i \in 1 .. Len(w) /\ i \in Nat /\ w # << >>
      BY <3>1 DEF Good
    <3>3. CASE i > 1 /\ w[i].kind \in {"result", "message"}
      <4>1. PICK b, g : /\ Opens(w, i, b, g)
                        /\ w[i].kind = "result" => Hits(g[i - 1], w[i])
                        /\ w[i].kind = "message" => g[i - 1] = << >>
        BY <3>1, <3>2, <3>3 DEF Good, Settled
      <4>2. Wires!Pending(w, i) = g[i - 1]
        BY <3>2, <4>1, PendingIs
      <4>3. Wires!AnsweredBy(w, i) =
              IF FirstOf(Wires!Pending(w, i), w[i]) = {} THEN 0
              ELSE Wires!Pending(w, i)[Wires!Min(FirstOf(Wires!Pending(w, i), w[i]))].n
        BY Zenon DEF Wires!AnsweredBy, FirstOf
      <4>4. w[i].kind = "result" => Wires!AnsweredBy(w, i) = w[i].n
        BY <4>1, <4>2, <4>3 DEF Hits
      <4> QED BY <4>1, <4>2, <4>4
    <3>4. CASE i = 1
      <4>1. w[i].kind = "message"
        BY <3>1, <3>2, <3>4 DEF Good
      <4> QED BY <3>4, <4>1
    <3> QED BY <3>2, <3>3, <3>4
  <2> QED BY <2>1, <2>2, Zenon DEF Wires!ResultsReachTheirCalls
<1> QED BY <1>1, <1>2, <1>3, PTL DEF DataSpec

=============================================================================
