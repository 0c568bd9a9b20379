-------------------------- MODULE DocumentVaultProofs --------------------------
(***************************************************************************)
(* Proofs about DocumentVault, for any number of documents, calls, keys,   *)
(* rotations and restarts.                                                 *)
(***************************************************************************)
EXTENDS DocumentVault, TLAPS

Files == [content : {"none", "damaged", "json"}, currentVersion : Nat, keks : Seq(Nat)]

Events == [eventType : EventTypes, document : Documents, envelope : Envelopes]

CallStates ==
  [records : EventTypes \cup {"nothing"},
   at : {"idle", "putObject", "save", "getObject", "decryptDocument", "recordEvent"},
   document : Documents \cup {None}, envelope : Envelopes]

-----------------------------------------------------------------------------
(***************************************************************************)
(* The key store alone                                                     *)
(***************************************************************************)

\* The keys that the service has, or will have if it starts from the file.
Kept == IF running THEN keks ELSE file.keks

\* What a process has saved is what it has; a file that is not one of ours, or
\* not a whole one, has no keys.
KeysSound ==
  /\ running \in BOOLEAN /\ unsaved \in BOOLEAN /\ lost \in BOOLEAN
  /\ generated \in Nat
  /\ keks \in Seq(Nat) /\ currentVersion \in Nat /\ file \in Files
  /\ running => currentVersion \in 1..Len(keks)
  /\ running /\ ~unsaved => file.keks = keks
  /\ file.currentVersion # Undefined => file.currentVersion \in 1..Len(file.keks)
  /\ file.content # "json" => file.keks = <<>>

LEMMA NoKeysTyped == <<>> \in Seq(Nat) /\ Len(<<>>) = 0
  OBVIOUS

LEMMA FilesTyped ==
  /\ NoFile \in Files /\ Damaged \in Files
  /\ \A v \in Nat, keys \in Seq(Nat) : Written(v, keys) \in Files
  BY NoKeysTyped DEF NoFile, Damaged, Written, Files, Undefined

LEMMA AppendGrows ==
  ASSUME NEW keys \in Seq(Nat), NEW k \in Nat
  PROVE  /\ Append(keys, k) \in Seq(Nat)
         /\ Len(keys) \in Nat /\ Len(Append(keys, k)) = Len(keys) + 1
         /\ \A i \in 1..Len(keys) : Append(keys, k)[i] = keys[i]
  OBVIOUS

KeyNext ==
  CreateKeyStore \/ LoadKeyStore \/ RotateKek \/ DeleteKeyStore \/ ProcessEnds

LEMMA KeysStaySound == KeysSound /\ (KeyNext \/ UNCHANGED keyVars) => KeysSound'
  <1> SUFFICES ASSUME KeysSound, KeyNext \/ UNCHANGED keyVars
               PROVE  KeysSound'
    OBVIOUS
  <1> USE DEF Undefined
  <1>1. CASE CreateKeyStore
    <2>1. NewKey \in Nat /\ <<NewKey>> \in Seq(Nat) /\ Len(<<NewKey>>) = 1
      BY DEF KeysSound, NewKey
    <2>2. CASE file' = Written(Undefined, <<NewKey>>) /\ running' = TRUE
               /\ keks' = <<NewKey>> /\ currentVersion' = 1
      <3>1. file' \in Files /\ file'.content = "json" /\ file'.keks = keks'
            /\ file'.currentVersion = 0
        BY <2>1, <2>2, FilesTyped DEF Written
      <3>2. keks' \in Seq(Nat) /\ currentVersion' \in 1..Len(keks')
        BY <2>1, <2>2
      <3> QED
        BY <1>1, <2>1, <2>2, <3>1, <3>2 DEF CreateKeyStore, KeysSound
    <2>3. CASE file' \in {file, Damaged} /\ UNCHANGED <<running, keks, currentVersion>>
      BY <1>1, <2>1, <2>3, FilesTyped DEF CreateKeyStore, KeysSound, Damaged
    <2> QED
      BY <1>1, <2>2, <2>3 DEF CreateKeyStore
  <1>2. CASE LoadKeyStore
    BY <1>2 DEF LoadKeyStore, Loadable, KeysSound, Files
  <1>3. CASE RotateKek
    <2>1. NewKey \in Nat
      BY DEF KeysSound, NewKey
    <2>2. keks' \in Seq(Nat) /\ Len(keks') = Len(keks) + 1 /\ Len(keks) \in Nat
      BY <1>3, <2>1, AppendGrows DEF KeysSound, RotateKek
    <2>3. currentVersion' \in Nat /\ currentVersion' \in 1..Len(keks')
      BY <1>3, <2>2 DEF RotateKek
    <2>4. CASE file' = Written(currentVersion', keks') /\ unsaved' = FALSE
      BY <1>3, <2>1, <2>2, <2>3, <2>4, FilesTyped DEF RotateKek, KeysSound, Written
    <2>5. CASE WriteFails
      BY <1>3, <2>1, <2>2, <2>3, <2>5, FilesTyped
      DEF RotateKek, KeysSound, WriteFails, Damaged
    <2> QED
      BY <1>3, <2>4, <2>5 DEF RotateKek
  <1>4. CASE DeleteKeyStore
    BY <1>4, FilesTyped DEF DeleteKeyStore, KeysSound, NoFile
  <1>5. CASE ProcessEnds
    BY <1>5, NoKeysTyped DEF ProcessEnds, KeysSound
  <1>6. CASE UNCHANGED keyVars
    BY <1>6 DEF keyVars, KeysSound
  <1> QED
    BY <1>1, <1>2, <1>3, <1>4, <1>5, <1>6 DEF KeyNext

\* As long as no key is lost, what could be opened can be opened: now, or after
\* the next start.
LEMMA OpenStaysOpen ==
  ASSUME KeysSound, KeyNext \/ UNCHANGED keyVars, ~lost',
         NEW envelope \in Envelopes, OpensWith(Kept, envelope)
  PROVE  ~lost /\ OpensWith(Kept, envelope)'
  <1>1. CASE CreateKeyStore
    BY <1>1 DEF CreateKeyStore, KeysSound, Kept, OpensWith, Envelopes
  <1>2. CASE LoadKeyStore
    BY <1>2 DEF LoadKeyStore, KeysSound, Kept, OpensWith
  <1>3. CASE RotateKek
    <2>1. Kept = keks /\ Kept' = Append(keks, NewKey) /\ NewKey \in Nat
      BY <1>3 DEF RotateKek, KeysSound, Kept, NewKey
    <2> QED
      BY <1>3, <2>1, AppendGrows DEF RotateKek, KeysSound, OpensWith
  <1>4. CASE DeleteKeyStore
    BY <1>4 DEF DeleteKeyStore
  <1>5. CASE ProcessEnds
    BY <1>5 DEF ProcessEnds, KeysSound, Kept, OpensWith
  <1>6. CASE UNCHANGED keyVars
    BY <1>6 DEF keyVars, Kept, OpensWith
  <1> QED
    BY <1>1, <1>2, <1>3, <1>4, <1>5, <1>6 DEF KeyNext

\* What is encrypted now can be opened.
LEMMA WrappedOpens ==
  ASSUME KeysSound, running
  PROVE  WrapDek \in Envelopes /\ OpensWith(Kept, WrapDek)
  BY DEF KeysSound, WrapDek, Envelopes, Kept, OpensWith

-----------------------------------------------------------------------------
(***************************************************************************)
(* The vault                                                               *)
(***************************************************************************)

\* The places that an operation passes through.
PlacesOf(eventType) ==
  CASE eventType = "DocumentUploaded" -> {"putObject", "save", "recordEvent"}
    [] eventType = "DocumentDecrypted" -> {"getObject", "decryptDocument", "recordEvent"}
    [] eventType = "DocumentMetadataViewed" -> {"recordEvent"}
    [] OTHER -> {"save", "recordEvent"}

\* A call that is under way: what it has done, and what its envelope is worth.
CallSound(c) ==
  LET d == call[c].document IN
  call[c] # Idle =>
    /\ running
    /\ call[c].records \in EventTypes /\ d \in Documents
    /\ call[c].at \in PlacesOf(call[c].records)
    /\ call[c].records = "DocumentUploaded" =>
         /\ call[c].at # "recordEvent" => rows[d] = None
         /\ call[c].at = "save" => d \in objects
         /\ \A b \in Calls : call[b].records = "DocumentUploaded" /\ call[b].document = d
              => b = c
    /\ call[c].records = "DocumentUploaded" /\ ~lost => OpensWith(Kept, call[c].envelope)
    /\ call[c].records # "DocumentUploaded" \/ call[c].at = "recordEvent" => rows[d] # None
    /\ call[c].records = "DocumentDeactivated" /\ call[c].at = "recordEvent"
         => ~rows[d].isActive

VaultSound ==
  /\ objects \subseteq Documents /\ forgotten \subseteq Documents
  /\ rows \in [Documents -> Rows \cup {None}]
  /\ trail \subseteq Events
  /\ call \in [Calls -> CallStates]
  /\ \A c \in Calls : CallSound(c)
  /\ RowHasObject /\ TrailIsTruthful

StoredOpens ==
  ~lost =>
    /\ \A d \in Documents : rows[d] # None => OpensWith(Kept, rows[d].envelope)
    /\ \A e \in trail : OpensWith(Kept, e.envelope)

IInv == KeysSound /\ VaultSound /\ StoredOpens

LEMMA IInvImplies == IInv => VaultTypeOK /\ EnvelopesOpen /\ RowHasObject /\ TrailIsTruthful
  <1> SUFFICES ASSUME IInv
               PROVE  VaultTypeOK /\ EnvelopesOpen /\ RowHasObject /\ TrailIsTruthful
    OBVIOUS
  <1>1. VaultTypeOK
    BY DEF IInv, KeysSound, VaultSound, VaultTypeOK, Files, Events, CallStates
  <1>2. EnvelopesOpen
    BY DEF IInv, StoredOpens, EnvelopesOpen, Kept, Opens
  <1> QED
    BY <1>1, <1>2 DEF IInv, VaultSound

LEMMA InitIInv == VaultInit => IInv
  <1> SUFFICES ASSUME VaultInit
               PROVE  IInv
    OBVIOUS
  <1>1. KeysSound
    BY FilesTyped, NoKeysTyped DEF VaultInit, KeyStoreInit, KeysSound, NoFile, Undefined
  <1>2. Idle \in CallStates
    BY DEF Idle, CallStates, NoEnvelope, Envelopes
  <1>3. VaultSound
    BY <1>2 DEF VaultInit, VaultSound, CallSound, RowHasObject, TrailIsTruthful
  <1> QED
    BY <1>1, <1>3 DEF IInv, VaultInit, StoredOpens

-----------------------------------------------------------------------------
(***************************************************************************)
(* Steps                                                                   *)
(***************************************************************************)

LEMMA IdleTyped == Idle \in CallStates /\ Idle.records = "nothing" /\ Idle.document = None
  BY DEF Idle, CallStates, NoEnvelope, Envelopes

\* The start, the rotation and the loss of the key store leave the calls alone.
LEMMA KeyStepsSound ==
  ASSUME IInv, KeySteps
  PROVE  IInv'
  <1>1. KeyNext /\ UNCHANGED <<objects, rows, trail, call, forgotten>>
    BY DEF KeySteps, KeyNext
  <1>2. KeysSound /\ KeysSound'
    BY <1>1, KeysStaySound DEF IInv
  <1>3. \A envelope \in Envelopes :
          ~lost' /\ OpensWith(Kept, envelope) => ~lost /\ OpensWith(Kept, envelope)'
    BY <1>1, <1>2, OpenStaysOpen
  <1>4. running => running'
    BY DEF KeySteps, CreateKeyStore, LoadKeyStore, RotateKek, DeleteKeyStore
  <1>5. lost => lost'
    BY <1>2 DEF KeySteps, CreateKeyStore, LoadKeyStore, RotateKek, DeleteKeyStore
  <1>6. ASSUME NEW c \in Calls
        PROVE  CallSound(c)'
    <2>1. call[c] \in CallStates /\ CallSound(c)
      BY DEF IInv, VaultSound
    <2>2. call[c].envelope \in Envelopes
      BY <2>1 DEF CallStates
    <2> QED
      BY <1>1, <1>3, <1>4, <1>5, <2>1, <2>2 DEF CallSound
  <1>7. VaultSound'
    BY <1>1, <1>6 DEF IInv, VaultSound, RowHasObject, TrailIsTruthful
  <1>8. StoredOpens'
    <2>1. \A d \in Documents : rows[d] # None => rows[d].envelope \in Envelopes
      BY DEF IInv, VaultSound, Rows
    <2>2. \A e \in trail : e.envelope \in Envelopes
      BY DEF IInv, VaultSound, Events
    <2> QED
      BY <1>1, <1>3, <1>5, <2>1, <2>2 DEF IInv, StoredOpens
  <1> QED
    BY <1>2, <1>7, <1>8 DEF IInv

LEMMA CrashSound ==
  ASSUME IInv, Crash
  PROVE  IInv'
  <1>1. KeysSound /\ KeysSound' /\ KeyNext
    BY KeysStaySound DEF IInv, Crash, KeyNext
  <1>2. \A envelope \in Envelopes :
          ~lost' /\ OpensWith(Kept, envelope) => ~lost /\ OpensWith(Kept, envelope)'
    BY <1>1, OpenStaysOpen
  <1>3. VaultSound'
    BY IdleTyped DEF IInv, Crash, VaultSound, CallSound, RowHasObject, TrailIsTruthful
  <1>4. StoredOpens'
    <2>1. \A d \in Documents : rows[d] # None => rows[d].envelope \in Envelopes
      BY DEF IInv, VaultSound, Rows
    <2>2. \A e \in trail : e.envelope \in Envelopes
      BY DEF IInv, VaultSound, Events
    <2>3. lost => lost'
      BY <1>1 DEF Crash, ProcessEnds
    <2> QED
      BY <1>2, <2>1, <2>2, <2>3 DEF IInv, StoredOpens, Crash
  <1> QED
    BY <1>1, <1>3, <1>4 DEF IInv

\* A step of one call: the key store stays, the other calls stay sound when
\* documents and objects do not go away, nothing becomes active again, and no
\* row appears for a document that another call is uploading.
LEMMA CallStep ==
  ASSUME IInv, NEW c \in Calls, UNCHANGED <<keyVars, forgotten>>,
         NEW next \in CallStates, call' = [call EXCEPT ![c] = next],
         objects \subseteq objects', objects' \subseteq Documents,
         rows' \in [Documents -> Rows \cup {None}], trail' \subseteq Events,
         \A d \in Documents :
           rows[d] # None => rows'[d] # None /\ (~rows[d].isActive => ~rows'[d].isActive),
         \A d \in Documents : rows[d] = None /\ rows'[d] # None =>
           call[c].records = "DocumentUploaded" /\ call[c].document = d,
         next.records = "DocumentUploaded" =>
           \A b \in Calls : b # c =>
             ~(call[b].records = "DocumentUploaded" /\ call[b].document = next.document),
         CallSound(c)', RowHasObject', TrailIsTruthful', StoredOpens'
  PROVE  IInv'
  <1>1. UNCHANGED keyVars /\ KeysSound'
    BY KeysStaySound DEF IInv
  <1>2. Kept' = Kept /\ lost' = lost /\ running' = running
    BY DEF keyVars, Kept
  <1>3. call' \in [Calls -> CallStates] /\ call'[c] = next
    BY DEF IInv, VaultSound
  <1>4. ASSUME NEW b \in Calls, b # c
        PROVE  CallSound(b)'
    <2>1. call'[b] = call[b] /\ CallSound(b) /\ CallSound(c)
      BY <1>3, <1>4 DEF IInv, VaultSound
    <2>2. CASE call[b] = Idle
      BY <2>1, <2>2 DEF CallSound
    <2>3. CASE call[b] # Idle
      <3> DEFINE d == call[b].document
      <3>1. d \in Documents /\ call[b].records \in EventTypes
            /\ call[b].at \in PlacesOf(call[b].records)
        BY <2>1, <2>3 DEF CallSound
      <3>2. call[b].records = "DocumentUploaded" =>
              \A a \in Calls :
                call'[a].records = "DocumentUploaded" /\ call'[a].document = d => a = b
        BY <1>3, <2>1, <2>3 DEF CallSound, IInv, VaultSound
      <3>3. call[b].records = "DocumentUploaded" /\ rows[d] = None => rows'[d] = None
        BY <1>4, <2>1, <2>3, <3>1, IdleTyped DEF CallSound
      <3>4. rows[d] # None => rows'[d] # None /\ (~rows[d].isActive => ~rows'[d].isActive)
        BY <3>1
      <3>5. OpensWith(Kept, call[b].envelope)' = OpensWith(Kept, call[b].envelope)
        BY <1>2, <2>1 DEF OpensWith
      <3> QED
        BY <1>2, <2>1, <2>3, <3>1, <3>2, <3>3, <3>4, <3>5 DEF CallSound
    <2> QED
      BY <2>2, <2>3
  <1>5. \A b \in Calls : CallSound(b)'
    BY <1>4
  <1>6. forgotten' \subseteq Documents
    BY DEF IInv, VaultSound
  <1>7. VaultSound'
    BY <1>3, <1>5, <1>6 DEF VaultSound
  <1> QED
    BY <1>1, <1>7 DEF IInv

\* What is known before a step of a call.
LEMMA BeforeStep ==
  ASSUME IInv, NEW c \in Calls
  PROVE  /\ call \in [Calls -> CallStates] /\ call[c] \in CallStates /\ CallSound(c)
         /\ objects \subseteq Documents /\ rows \in [Documents -> Rows \cup {None}]
         /\ trail \subseteq Events
         /\ RowHasObject /\ TrailIsTruthful /\ StoredOpens /\ KeysSound
  BY DEF IInv, VaultSound

\* When only the call changes, what is stored stays as it is.
LEMMA StoredUnchanged ==
  ASSUME IInv, UNCHANGED <<keyVars, objects, rows, trail, forgotten>>
  PROVE  RowHasObject' /\ TrailIsTruthful' /\ StoredOpens'
  BY DEF IInv, VaultSound, RowHasObject, TrailIsTruthful, StoredOpens, keyVars, Kept, OpensWith

LEMMA BeginSound ==
  ASSUME IInv, NEW c \in Calls, NEW d \in Documents,
         \/ StartUpload(c, d) \/ StartRead(c, d) \/ StartMetadata(c, d) \/ StartDeactivate(c, d)
  PROVE  IInv'
  <1>1. PICK eventType \in EventTypes, envelope \in Envelopes,
              at \in {"putObject", "getObject", "recordEvent", "save"} :
          /\ at \in PlacesOf(eventType) /\ Begin(c, eventType, at, d, envelope)
          /\ eventType = "DocumentUploaded" =>
               /\ at = "putObject" /\ rows[d] = None /\ OpensWith(Kept, envelope)
               /\ \A b \in Calls : call[b].document # d
          /\ eventType # "DocumentUploaded" => rows[d] # None
          /\ eventType = "DocumentDeactivated" => at = "save"
    <2> USE DEF EventTypes, PlacesOf
    <2>1. CASE StartUpload(c, d)
      <3>1. running /\ KeysSound
        BY <2>1, BeforeStep DEF StartUpload, Begin
      <3> QED
        BY <2>1, <3>1, WrappedOpens DEF StartUpload, EncryptDocument
    <2>2. CASE StartRead(c, d)
      <3>1. rows[d] # None /\ rows[d] \in Rows
        BY <2>2, BeforeStep DEF StartRead
      <3> QED
        BY <2>2, <3>1 DEF StartRead, Rows
    <2>3. CASE StartMetadata(c, d)
      BY <2>3 DEF StartMetadata, NoEnvelope, Envelopes
    <2>4. CASE StartDeactivate(c, d)
      <3>1. rows[d] # None /\ rows[d] \in Rows
        BY <2>4, BeforeStep DEF StartDeactivate
      <3> QED
        BY <2>4, <3>1 DEF StartDeactivate, Rows
    <2> QED
      BY <2>1, <2>2, <2>3, <2>4
  <1> DEFINE next == [records |-> eventType, at |-> at, document |-> d, envelope |-> envelope]
  <1>2. /\ running /\ call[c] = Idle /\ call' = [call EXCEPT ![c] = next]
        /\ UNCHANGED <<keyVars, objects, rows, trail, forgotten>>
    BY <1>1 DEF Begin
  <1>3. next \in CallStates
    BY <1>1 DEF CallStates, PlacesOf
  <1>4. Kept' = Kept /\ lost' = lost /\ running' = running
    BY <1>2 DEF keyVars, Kept
  <1>5. call'[c] = next
    BY <1>2, BeforeStep
  <1>6. OpensWith(Kept, envelope)' = OpensWith(Kept, envelope)
    BY <1>4 DEF OpensWith
  <1>7. \A b \in Calls : b # c => call'[b] = call[b]
    BY <1>2, BeforeStep
  <1>8. CallSound(c)'
    BY <1>1, <1>2, <1>4, <1>5, <1>6, <1>7 DEF CallSound
  <1>9. RowHasObject' /\ TrailIsTruthful' /\ StoredOpens'
    BY <1>2, StoredUnchanged
  <1> QED
    BY <1>1, <1>2, <1>3, <1>8, <1>9, BeforeStep, CallStep

LEMMA CallEnds ==
  ASSUME IInv, NEW c \in Calls, CallFails(c)
  PROVE  IInv'
  <1>1. call'[c] = Idle
    BY BeforeStep DEF CallFails
  <1>2. CallSound(c)'
    BY <1>1 DEF CallSound
  <1>3. RowHasObject' /\ TrailIsTruthful' /\ StoredOpens'
    BY StoredUnchanged DEF CallFails
  <1> QED
    BY <1>2, <1>3, BeforeStep, CallStep, IdleTyped DEF CallFails

\* A call that goes on from a place is a call that is under way.
LEMMA UnderWay ==
  ASSUME IInv, NEW c \in Calls, call[c].at # "idle"
  PROVE  call[c] # Idle /\ running /\ call[c].document \in Documents
  BY BeforeStep DEF CallSound, Idle

\* Going on changes nothing but the place.
LEMMA GoesOnTo ==
  ASSUME IInv, NEW c \in Calls, NEW place \in {"save", "decryptDocument", "recordEvent"},
         GoesOn(c, place)
  PROVE  \E next \in CallStates :
           /\ call' = [call EXCEPT ![c] = next] /\ call'[c] = next
           /\ next.records = call[c].records /\ next.document = call[c].document
           /\ next.envelope = call[c].envelope /\ next.at = place
  <1> DEFINE next == [call[c] EXCEPT !.at = place]
  <1>1. next \in CallStates /\ next.records = call[c].records
        /\ next.document = call[c].document /\ next.envelope = call[c].envelope
        /\ next.at = place
    BY BeforeStep DEF CallStates
  <1>2. call' = [call EXCEPT ![c] = next]
    BY DEF GoesOn
  <1>3. call'[c] = next
    BY <1>2, BeforeStep
  <1> QED
    BY <1>1, <1>2, <1>3

LEMMA PutObjectSound ==
  ASSUME IInv, NEW c \in Calls, PutObject(c)
  PROVE  IInv'
  <1> DEFINE d == call[c].document
  <1>1. call[c] # Idle /\ running /\ d \in Documents
    BY UnderWay DEF PutObject, At
  <1>2. PICK next \in CallStates :
          /\ call' = [call EXCEPT ![c] = next] /\ call'[c] = next
          /\ next.records = call[c].records /\ next.document = d
          /\ next.envelope = call[c].envelope /\ next.at = "save"
    BY GoesOnTo DEF PutObject
  <1>3. /\ objects' = objects \cup {d} /\ UNCHANGED <<keyVars, rows, trail, forgotten>>
        /\ call[c].at = "putObject"
    BY DEF PutObject, At
  <1>4. call[c].records = "DocumentUploaded" /\ CallSound(c)
    BY <1>1, <1>3, BeforeStep DEF CallSound, PlacesOf, EventTypes
  <1>5. Kept' = Kept /\ lost' = lost /\ running' = running
    BY <1>3 DEF keyVars, Kept
  <1>6. \A b \in Calls : b # c => call'[b] = call[b]
    BY <1>2, BeforeStep
  <1>7. \A b \in Calls : b # c => ~(call[b].records = "DocumentUploaded" /\ call[b].document = d)
    BY <1>1, <1>4 DEF CallSound
  <1>8. CallSound(c)'
    BY <1>1, <1>2, <1>3, <1>4, <1>5, <1>6, <1>7 DEF CallSound, PlacesOf, OpensWith
  <1>9. RowHasObject' /\ TrailIsTruthful' /\ StoredOpens'
    BY <1>3, <1>5, BeforeStep DEF RowHasObject, TrailIsTruthful, StoredOpens, OpensWith
  <1> QED
    BY <1>1, <1>2, <1>3, <1>7, <1>8, <1>9, BeforeStep, CallStep

\* The steps of a read.
LEMMA ReadSound ==
  ASSUME IInv, NEW c \in Calls, GetObject(c) \/ DecryptDocument(c)
  PROVE  IInv'
  <1> DEFINE d == call[c].document
  <1>1. /\ call[c].at \in {"getObject", "decryptDocument"}
        /\ UNCHANGED <<keyVars, objects, rows, trail, forgotten>>
    BY DEF GetObject, DecryptDocument, At
  <1>2. call[c] # Idle /\ running /\ d \in Documents
    BY <1>1, UnderWay
  <1>3. PICK place \in {"decryptDocument", "recordEvent"} : GoesOn(c, place)
    BY DEF GetObject, DecryptDocument
  <1>4. PICK next \in CallStates :
          /\ call' = [call EXCEPT ![c] = next] /\ call'[c] = next
          /\ next.records = call[c].records /\ next.document = d
          /\ next.envelope = call[c].envelope /\ next.at = place
    BY <1>3, GoesOnTo
  <1>5. call[c].records = "DocumentDecrypted" /\ rows[d] # None
    BY <1>1, <1>2, BeforeStep DEF CallSound, PlacesOf, EventTypes
  <1>6. Kept' = Kept /\ lost' = lost /\ running' = running
    BY <1>1 DEF keyVars, Kept
  <1>7. CallSound(c)'
    BY <1>1, <1>2, <1>4, <1>5, <1>6 DEF CallSound, PlacesOf, EventTypes
  <1>8. RowHasObject' /\ TrailIsTruthful' /\ StoredOpens'
    BY <1>1, StoredUnchanged
  <1> QED
    BY <1>1, <1>4, <1>5, <1>7, <1>8, BeforeStep, CallStep

LEMMA SaveDocumentSound ==
  ASSUME IInv, NEW c \in Calls, SaveDocument(c)
  PROVE  IInv'
  <1> DEFINE d == call[c].document
  <1>1. /\ call[c].at = "save" /\ UNCHANGED <<keyVars, objects, trail, forgotten>>
    BY DEF SaveDocument, At
  <1>2. call[c] # Idle /\ running /\ d \in Documents
    BY <1>1, UnderWay
  <1>3. PICK next \in CallStates :
          /\ call' = [call EXCEPT ![c] = next] /\ call'[c] = next
          /\ next.records = call[c].records /\ next.document = d
          /\ next.envelope = call[c].envelope /\ next.at = "recordEvent"
    BY GoesOnTo DEF SaveDocument
  <1>4. CallSound(c) /\ call[c].records \in {"DocumentUploaded", "DocumentDeactivated"}
    BY <1>1, <1>2, BeforeStep DEF CallSound, PlacesOf, EventTypes
  <1>5. Kept' = Kept /\ lost' = lost /\ running' = running
    BY <1>1 DEF keyVars, Kept
  <1>6. \A b \in Calls : b # c => call'[b] = call[b]
    BY <1>3, BeforeStep
  <1>7. call[c].envelope \in Envelopes
    BY BeforeStep DEF CallStates
  <1>8. CASE call[c].records = "DocumentUploaded"
    <2> DEFINE row == [isActive |-> TRUE, envelope |-> call[c].envelope]
    <2>1. rows[d] = None /\ d \in objects /\ (~lost => OpensWith(Kept, call[c].envelope))
          /\ \A b \in Calls : b # c =>
               ~(call[b].records = "DocumentUploaded" /\ call[b].document = d)
      BY <1>1, <1>2, <1>4, <1>8 DEF CallSound
    <2>2. rows' = [rows EXCEPT ![d] = row] /\ row \in Rows
      BY <1>7, <2>1 DEF SaveDocument, Rows
    <2>3. rows'[d] = row /\ row # None
      BY <1>2, <2>2, BeforeStep, VaultAssumption
    <2>4. \A e \in Documents : e # d => rows'[e] = rows[e]
      BY <2>2, BeforeStep
    <2>5. CallSound(c)'
      BY <1>2, <1>3, <1>5, <1>6, <1>8, <2>1, <2>3 DEF CallSound, PlacesOf, EventTypes, OpensWith
    <2>6. RowHasObject'
      BY <1>1, <2>1, <2>4, BeforeStep DEF RowHasObject
    <2>7. TrailIsTruthful'
      BY <1>1, <2>1, <2>4, BeforeStep DEF TrailIsTruthful, Events
    <2>8. StoredOpens'
      BY <1>1, <1>5, <2>1, <2>3, <2>4, BeforeStep DEF StoredOpens, OpensWith
    <2> QED
      <3>1. rows' \in [Documents -> Rows \cup {None}]
        BY <2>2, BeforeStep
      <3>2. \A e \in Documents :
              rows[e] # None => rows'[e] # None /\ (~rows[e].isActive => ~rows'[e].isActive)
        BY <2>1, <2>4
      <3>3. \A e \in Documents : rows[e] = None /\ rows'[e] # None => e = d
        BY <2>4
      <3> HIDE DEF row
      <3> QED
        BY <1>1, <1>2, <1>3, <1>8, <2>1, <2>5, <2>6, <2>7, <2>8, <3>1, <3>2, <3>3,
           BeforeStep, CallStep
  <1>9. CASE call[c].records = "DocumentDeactivated"
    <2>1. rows[d] # None /\ rows[d] \in Rows
      BY <1>1, <1>2, <1>4, <1>9, BeforeStep DEF CallSound
    <2> DEFINE row == [rows[d] EXCEPT !.isActive = FALSE]
    <2>2. rows' = [rows EXCEPT ![d] = row]
      BY <2>1 DEF SaveDocument
    <2>3. row \in Rows /\ row.isActive = FALSE /\ row.envelope = rows[d].envelope
      BY <2>1 DEF Rows
    <2>4. rows'[d] = row /\ row # None
      BY <1>2, <2>2, <2>3, BeforeStep, VaultAssumption
    <2> HIDE DEF row
    <2>5. \A e \in Documents : e # d => rows'[e] = rows[e]
      BY <2>2, BeforeStep
    <2>6. CallSound(c)'
      BY <1>2, <1>3, <1>5, <1>9, <2>3, <2>4 DEF CallSound, PlacesOf, EventTypes
    <2>7. RowHasObject'
      BY <1>1, <2>1, <2>5, BeforeStep DEF RowHasObject
    <2>8. TrailIsTruthful'
      BY <1>1, <2>3, <2>4, <2>5, BeforeStep DEF TrailIsTruthful, Events
    <2>9. StoredOpens'
      BY <1>1, <1>5, <2>1, <2>3, <2>4, <2>5, BeforeStep DEF StoredOpens, OpensWith
    <2> QED
      <3>1. rows' \in [Documents -> Rows \cup {None}]
        BY <2>2, <2>3, BeforeStep
      <3>2. \A e \in Documents :
              rows[e] # None => rows'[e] # None /\ (~rows[e].isActive => ~rows'[e].isActive)
        BY <2>3, <2>4, <2>5
      <3>3. \A e \in Documents : ~(rows[e] = None /\ rows'[e] # None)
        BY <2>1, <2>5
      <3> QED
        BY <1>1, <1>3, <1>9, <2>6, <2>7, <2>8, <2>9, <3>1, <3>2, <3>3, BeforeStep, CallStep
  <1> QED
    BY <1>4, <1>8, <1>9

LEMMA RecordEventSound ==
  ASSUME IInv, NEW c \in Calls, RecordEvent(c)
  PROVE  IInv'
  <1> DEFINE d == call[c].document
             event == [eventType |-> call[c].records, document |-> d, envelope |-> WrapDek]
  <1>1. /\ call[c].at = "recordEvent" /\ UNCHANGED <<keyVars, objects, rows, forgotten>>
        /\ trail' = trail \cup {event} /\ call' = [call EXCEPT ![c] = Idle]
    BY DEF RecordEvent, At, EncryptDocument
  <1>2. call[c] # Idle /\ running /\ d \in Documents
    BY <1>1, UnderWay
  <1>3. /\ call[c].records \in EventTypes /\ rows[d] # None
        /\ call[c].records = "DocumentDeactivated" => ~rows[d].isActive
    BY <1>1, <1>2, BeforeStep DEF CallSound
  <1>4. WrapDek \in Envelopes /\ OpensWith(Kept, WrapDek)
    BY <1>2, BeforeStep, WrappedOpens
  <1>5. event \in Events
    BY <1>2, <1>3, <1>4 DEF Events
  <1>6. Kept' = Kept /\ lost' = lost
    BY <1>1 DEF keyVars, Kept
  <1>7. call'[c] = Idle
    BY <1>1, BeforeStep
  <1>8. CallSound(c)'
    BY <1>7 DEF CallSound
  <1>9. RowHasObject'
    BY <1>1, BeforeStep DEF RowHasObject
  <1>10. TrailIsTruthful'
    BY <1>1, <1>3, BeforeStep DEF TrailIsTruthful
  <1>11. StoredOpens'
    BY <1>1, <1>4, <1>6, BeforeStep DEF StoredOpens, OpensWith
  <1> HIDE DEF event
  <1> QED
    BY <1>1, <1>5, <1>8, <1>9, <1>10, <1>11, BeforeStep, CallStep, IdleTyped

LEMMA NextIInv == IInv /\ [VaultNext]_vaultVars => IInv'
  <1> SUFFICES ASSUME IInv, [VaultNext]_vaultVars
               PROVE  IInv'
    OBVIOUS
  <1>1. ASSUME NEW c \in Calls, NEW d \in Documents,
               \/ StartUpload(c, d) \/ StartRead(c, d)
               \/ StartMetadata(c, d) \/ StartDeactivate(c, d)
        PROVE  IInv'
    BY <1>1, BeginSound
  <1>2. ASSUME NEW c \in Calls,
               \/ PutObject(c) \/ SaveDocument(c) \/ GetObject(c) \/ DecryptDocument(c)
               \/ RecordEvent(c) \/ CallFails(c)
        PROVE  IInv'
    BY <1>2, PutObjectSound, SaveDocumentSound, ReadSound, RecordEventSound, CallEnds
  <1>3. CASE KeySteps
    BY <1>3, KeyStepsSound
  <1>4. CASE Crash
    BY <1>4, CrashSound
  <1>5. CASE UNCHANGED vaultVars
    <2>1. UNCHANGED keyVars /\ UNCHANGED <<objects, rows, trail, call, forgotten>>
      BY <1>5 DEF vaultVars
    <2>2. KeysSound'
      BY <2>1, KeysStaySound DEF IInv
    <2>3. RowHasObject' /\ TrailIsTruthful' /\ StoredOpens'
      BY <2>1, StoredUnchanged
    <2>4. VaultSound'
      BY <2>1, <2>3 DEF IInv, VaultSound, CallSound, keyVars, Kept, OpensWith
    <2> QED
      BY <2>2, <2>3, <2>4 DEF IInv
  <1> QED
    BY <1>1, <1>2, <1>3, <1>4, <1>5 DEF VaultNext

-----------------------------------------------------------------------------
(***************************************************************************)
(* Theorems                                                                *)
(***************************************************************************)

\* The keys, what is stored and the calls keep their types, and a process that
\* runs has a current key, whichever file it started from.
THEOREM VaultTypeCorrect == VaultSpec => []VaultTypeOK
  BY InitIInv, NextIInv, IInvImplies, PTL DEF VaultSpec

\* However often keys are rotated, writes of the key file fail and processes
\* end: unless one ended with a key that it could not save, or the file was
\* deleted, a process can open every document and audit event in the database.
THEOREM NothingBecomesUnreadable == VaultSpec => []EnvelopesOpen
  BY InitIInv, NextIInv, IInvImplies, PTL DEF VaultSpec

\* Wherever uploads fail, a row that the running process saved has its object.
THEOREM RowsHaveObjects == VaultSpec => []RowHasObject
  BY InitIInv, NextIInv, IInvImplies, PTL DEF VaultSpec

\* Wherever operations fail, the audit trail tells only what has happened.
THEOREM TrailStaysTruthful == VaultSpec => []TrailIsTruthful
  BY InitIInv, NextIInv, IInvImplies, PTL DEF VaultSpec

=============================================================================
