------------------------------ MODULE FilesProofs ------------------------------
(***************************************************************************)
(* Theorems about what the system keeps on disk: the store, the app that   *)
(* the updater swaps, the settings of the llm module, and the files that   *)
(* are fetched; for any keys, values, slots, providers, versions, blocks   *)
(* and number of callers, retries and crashes.                             *)
(*                                                                         *)
(* Each part has an inductive invariant of its own: it says at each step   *)
(* of an operation which file holds what, so that a crash between any two  *)
(* of them finds a state to go on from.                                    *)
(***************************************************************************)
EXTENDS Store, Updater, LlmSettings, Download, SequenceTheorems, TLAPS

-----------------------------------------------------------------------------
(* The store.  The read lock keeps the map as it is while any save is      *)
(* under way, so every save writes the same bytes.  Hence the file is what *)
(* a save last reported, or is torn: because one is about to fill it, or   *)
(* because one failed, and then the map has what the file has not.         *)

\* A save under way writes the map, and none is when the module is down.
SameImage ==
  /\ \A w \in Saving : image[w] = data
  /\ ~loaded => \A w \in Writers : writer[w] = "idle"

\* The file is torn or holds what was last reported, and when it is torn somebody is
\* about to fill it, or one that was to do so failed.
FileInv ==
  /\ onDisk = Torn \/ onDisk = promised
  /\ onDisk = Torn => lost \/ (broke /\ loaded) \/ \E w \in Writers : writer[w] = "writing"

\* What was reported is in the map, but for the keys changed since.
MapInv == loaded /\ ~lost => \A k \in StoreKeys \ unsaved : data[k] = promised[k]

StoreInv == StoreTypeOK /\ SameImage /\ FileInv /\ MapInv

LEMMA InitStoreInv == StoreInit => StoreInv
  <1> SUFFICES ASSUME StoreInit PROVE StoreInv
    OBVIOUS
  <1> USE StoreAssumption DEF StoreInit
  <1>1. Empty \in Maps /\ Torn \notin Maps
    BY DEF Empty, Maps
  <1>2. StoreTypeOK
    BY <1>1 DEF StoreTypeOK
  <1>3. SameImage /\ FileInv /\ MapInv
    BY <1>1 DEF SameImage, FileInv, MapInv, Saving
  <1> QED
    BY <1>2, <1>3 DEF StoreInv

LEMMA StepStoreType == StoreTypeOK /\ [StoreNext]_storeVars => StoreTypeOK'
  <1> SUFFICES ASSUME StoreTypeOK, [StoreNext]_storeVars PROVE StoreTypeOK'
    OBVIOUS
  <1> USE DEF StoreTypeOK, WGoes, historyVars
  <1>1. CASE UNCHANGED storeVars
    BY <1>1 DEF storeVars
  <1>2. Empty \in Maps
    BY DEF Empty, Maps
  <1>3. CASE StopStore
    BY <1>2, <1>3 DEF StopStore
  <1>4. CASE LoadStore
    BY <1>2, <1>4 DEF LoadStore
  <1>5. ASSUME NEW w \in Writers, NEW k \in StoreKeys, NEW v \in StoreValues \cup {Absent}, Change(w, k, v)
        PROVE  StoreTypeOK'
    <2>1. data' \in Maps
      BY <1>5 DEF Change, Maps
    <2> QED
      BY <1>5, <2>1 DEF Change
  <1>6. ASSUME NEW w \in Writers, Marshal(w) \/ Truncate(w) \/ WriteBytes(w) \/ SaveError(w)
        PROVE  StoreTypeOK'
    <2>1. CASE Marshal(w)
      BY <2>1 DEF Marshal
    <2>2. CASE Truncate(w)
      BY <2>2 DEF Truncate
    <2>3. CASE WriteBytes(w)
      BY <2>3 DEF WriteBytes
    <2>4. CASE SaveError(w)
      BY <2>4 DEF SaveError
    <2> QED
      BY <1>6, <2>1, <2>2, <2>3, <2>4
  <1> QED
    BY <1>1, <1>3, <1>4, <1>5, <1>6 DEF StoreNext

LEMMA StepStoreInv == StoreInv /\ [StoreNext]_storeVars => StoreInv'
  <1> SUFFICES ASSUME StoreInv, [StoreNext]_storeVars PROVE StoreInv'
    OBVIOUS
  <1>0. StoreTypeOK'
    BY StepStoreType DEF StoreInv
  <1>00. Torn \notin Maps
    BY StoreAssumption DEF Maps
  <1> SUFFICES SameImage' /\ FileInv' /\ MapInv'
    BY <1>0 DEF StoreInv
  <1> USE DEF StoreInv, StoreTypeOK, SameImage, FileInv, MapInv, Saving, WGoes
  <1>1. CASE UNCHANGED storeVars
    BY <1>1 DEF storeVars, historyVars
  <1>3. CASE StopStore
    <2>1. \A w \in Writers : writer'[w] = "idle"
      BY <1>3 DEF StopStore
    <2>2. ~loaded' /\ SameImage' /\ MapInv'
      BY <1>3, <2>1 DEF StopStore
    <2>3. FileInv'
      BY <1>3, <1>00, <2>2 DEF StopStore
    <2> QED
      BY <2>2, <2>3
  <1>4. CASE LoadStore
    <2>1. ~lost => onDisk # Torn /\ onDisk = promised
      BY <1>4 DEF LoadStore
    <2>2. SameImage' /\ FileInv'
      BY <1>4 DEF LoadStore, historyVars
    <2>3. MapInv'
      BY <1>4, <2>1 DEF LoadStore, historyVars
    <2> QED
      BY <2>2, <2>3
  <1>5. ASSUME NEW w \in Writers, NEW k \in StoreKeys, NEW v \in StoreValues \cup {Absent}, Change(w, k, v)
        PROVE  SameImage' /\ FileInv' /\ MapInv'
    <2>1. SameImage' /\ FileInv'
      BY <1>5 DEF Change
    <2>2. MapInv'
      BY <1>5 DEF Change, Maps
    <2> QED
      BY <2>1, <2>2
  <1>6. ASSUME NEW w \in Writers, Marshal(w)
        PROVE  SameImage' /\ FileInv' /\ MapInv'
    BY <1>6 DEF Marshal, historyVars
  <1>7. ASSUME NEW w \in Writers, Truncate(w)
        PROVE  SameImage' /\ FileInv' /\ MapInv'
    BY <1>7 DEF Truncate, historyVars
  <1>8. ASSUME NEW w \in Writers, WriteBytes(w)
        PROVE  SameImage' /\ FileInv' /\ MapInv'
    <2>1. image[w] = data
      BY <1>8 DEF WriteBytes
    <2> QED
      BY <1>8, <1>00, <2>1 DEF WriteBytes
  <1>9. ASSUME NEW w \in Writers, SaveError(w)
        PROVE  SameImage' /\ FileInv' /\ MapInv'
    <2>1. loaded
      BY <1>9 DEF SaveError
    <2> QED
      BY <1>9, <2>1 DEF SaveError
  <1> QED
    BY <1>1, <1>3, <1>4, <1>5, <1>6, <1>7, <1>8, <1>9 DEF StoreNext

\* StoreInv is an invariant of the store.
THEOREM StoreInductive == StoreSpec => []StoreInv
  BY InitStoreInv, StepStoreInv, PTL DEF StoreSpec

\* Until a process ends and leaves a torn file, what Set and Delete answered "ok"
\* for is in the file whenever no save is under way, or, where a save failed half
\* way, still in the map that the next one writes (store/module.go, saveToFile).
THEOREM SavesAreKept == StoreSpec => []SavedIsKept
  <1>1. StoreInv => SavedIsKept
    BY DEF StoreInv, FileInv, MapInv, SavedIsKept, Saving
  <1> QED
    BY <1>1, StoreInductive, PTL

-----------------------------------------------------------------------------
(* The updater.  Until the old app is moved aside it is in its place, then *)
(* it is under the backup name, and what is installed is newer than what   *)
(* runs; the floor is never above both what runs and what is offered.      *)

\* Whole and not older than what runs.
Runnable(place) == place \in Versions /\ place >= running

Untouched == {"idle", "download", "floor", "stage", "clear", "aside", "undo"}
Offered == {"download", "floor", "stage", "clear", "aside", "install", "copy", "drop", "relaunch"}
Raised == {"stage", "clear", "aside", "install", "copy", "undo", "drop", "relaunch"}

\* Where the whole app is at each step.
DiskInv ==
  /\ updPc \in Untouched => Runnable(target)
  /\ updPc \in {"install", "copy"} => target \notin Versions /\ Runnable(backup)
  /\ updPc \in {"drop", "relaunch"} => target = offer
  /\ updPc = "down" => Runnable(target) \/ (target \notin Versions /\ Runnable(backup))

\* What is installed is newer than what runs, and staged first on macOS.
OfferInv ==
  /\ updPc \in Offered => offer \in Versions /\ offer > running
  /\ mac /\ updPc \in {"clear", "aside", "install"} => staged = offer
  /\ updPc = "copy" => ~mac

\* What the floor is raised from, and to.
FloorInv ==
  \/ crashed \/ unrestored
  \/ /\ updPc # "down"
     /\ updPc \in {"idle", "download", "floor"} => floor <= running
     /\ updPc \in Raised => before <= running /\ (floor = offer \/ floor <= running)

UpdInv == UpdTypeOK /\ DiskInv /\ OfferInv /\ FloorInv

LEMMA InitUpdInv == UpdInit => UpdInv
  <1> SUFFICES ASSUME UpdInit PROVE UpdInv
    OBVIOUS
  <1> USE UpdaterAssumption DEF UpdInit
  <1>0. crashed \in BOOLEAN /\ unrestored \in BOOLEAN
    BY Zenon
  <1>1. 1 \in 1..MaxVersion /\ 0 \in 0..MaxVersion
    OBVIOUS
  <1>2. UpdTypeOK
    BY <1>0, <1>1 DEF UpdTypeOK, Places, Versions
  <1>3. DiskInv /\ OfferInv /\ FloorInv
    BY <1>1 DEF DiskInv, OfferInv, FloorInv, Runnable, Untouched, Offered, Raised, Versions
  <1> QED
    BY <1>2, <1>3 DEF UpdInv

LEMMA StepUpdInv == UpdInv /\ [UpdNext]_updVars => UpdInv'
  <1> SUFFICES ASSUME UpdInv, [UpdNext]_updVars PROVE UpdInv'
    OBVIOUS
  <1> USE UpdaterAssumption
      DEF UpdInv, UpdTypeOK, DiskInv, OfferInv, FloorInv, Runnable, Untouched, Offered, Raised,
          Places, Versions, UGoes, disk
  <1>1. CASE CheckForUpdate
    BY <1>1 DEF CheckForUpdate, rollbackFloor
  <1>2. CASE Download
    BY <1>2 DEF Download
  <1>3. CASE RaiseFloor
    BY <1>3 DEF RaiseFloor, FloorAfter
  <1>4. CASE Stage
    BY <1>4 DEF Stage
  <1>5. CASE ClearBackup
    BY <1>5 DEF ClearBackup
  <1>6. CASE MoveAside
    BY <1>6 DEF MoveAside
  <1>7. CASE Install
    BY <1>7 DEF Install
  <1>8. CASE Copy
    BY <1>8 DEF Copy
  <1>9. CASE RestoreFloor
    <2>1. unrestored' \in BOOLEAN /\ (~unrestored' => ~unrestored /\ floor' \in {before, 0})
      BY <1>9, Zenon DEF RestoreFloor
    <2>2. /\ UNCHANGED <<running, offer, before, target, backup, staged, mac, crashed>>
          /\ updPc = "undo" /\ updPc' = "idle" /\ floor' \in {before, floor, 0}
      BY <1>9 DEF RestoreFloor, FloorAfter
    <2> QED
      BY <2>1, <2>2
  <1>10. CASE DropBackup
    BY <1>10 DEF DropBackup
  <1>11. CASE Relaunch
    BY <1>11 DEF Relaunch
  <1>12. CASE Ends
    BY <1>12 DEF Ends
  <1>13. CASE PutBack
    BY <1>13 DEF PutBack
  <1>14. CASE UNCHANGED updVars
    BY <1>14 DEF updVars
  <1> QED
    BY <1>1, <1>2, <1>3, <1>4, <1>5, <1>6, <1>7, <1>8, <1>9, <1>10, <1>11, <1>12, <1>13, <1>14
    DEF UpdNext

\* The app is whole where each step of an update expects it.
THEOREM UpdInductive == UpdSpec => []UpdInv
  BY InitUpdInv, StepUpdInv, PTL DEF UpdSpec

\* Whatever step a crash cuts short, there is a whole app, not older than the one
\* that ran, under its own name or the one that PutBack restores it from; and where
\* no crash came between and every floor could be put back, no version is refused
\* for having been tried (module.go).
THEOREM AppSurvives == UpdSpec => []AlwaysAnApp
  <1>1. UpdInv => AlwaysAnApp
    BY UpdaterAssumption
    DEF UpdInv, UpdTypeOK, DiskInv, OfferInv, FloorInv, Runnable, Untouched, Offered, AlwaysAnApp, Versions
  <1> QED
    BY <1>1, UpdInductive, PTL

-----------------------------------------------------------------------------
(* The settings of the llm module.  What is in memory is what was saved,   *)
(* and rebind and resync give a slot what it wants or nothing.             *)

\* The bindings b are the wanted ones as far as the providers r allow: a slot is
\* bound to what it wants or to nothing, and to what it wants when that fits.
Follows(r, b, wanted) ==
  \A s \in Slots : /\ b[s] \in {Nothing, wanted[s]}
                   /\ Fits(r, s, wanted[s]) => b[s] = wanted[s]

\* A provider that the app does not run is the saved one, unless it did not open.
RegFits ==
  \A i \in Ids \ app : reg[i] = IF i \in openErr THEN Nothing ELSE saved.providers[i]

LiveInv == saved = file /\ RegFits /\ Follows(reg, bound, saved.bindings)
LlmInv == LlmTypeOK /\ (up => LiveInv)

\* rebind never leaves a slot bound to anything but what is wanted ...
LEMMA RebindFollows ==
  ASSUME NEW r, NEW w \in Bindings, NEW b \in Bindings, \A s \in Slots : b[s] \in {Nothing, w[s]}
  PROVE  Rebind(r, b, w) \in Bindings /\ Follows(r, Rebind(r, b, w), w)
  BY DEF Rebind, Bindings, Follows

\* ... and resync gets there from any bindings.
LEMMA ResyncFollows ==
  ASSUME NEW r, NEW b, NEW w \in Bindings
  PROVE  Resync(r, b, w) \in Bindings /\ Follows(r, Resync(r, b, w), w)
  BY DEF Resync, Rebind, NoBindings, Bindings, Follows

LEMMA SettingsParts ==
  ASSUME LlmTypeOK
  PROVE  /\ saved.providers \in Providers /\ saved.bindings \in Bindings
         /\ file.providers \in Providers /\ file.bindings \in Bindings
  BY DEF LlmTypeOK, Settings

\* One saved provider, or one saved binding, is replaced and the rest stays.
LEMMA NextProvider ==
  ASSUME LlmTypeOK, NEW i \in Ids, NEW w \in Where \cup {Nothing}
  PROVE  LET next == [saved EXCEPT !.providers[i] = w]
         IN  /\ next \in Settings /\ next.bindings = saved.bindings
             /\ next.providers[i] = w
             /\ \A j \in Ids \ {i} : next.providers[j] = saved.providers[j]
  BY DEF LlmTypeOK, Settings, Providers

LEMMA NextBinding ==
  ASSUME LlmTypeOK, NEW s \in Slots, NEW i \in Ids \cup {Nothing}
  PROVE  LET next == [saved EXCEPT !.bindings[s] = i]
         IN  /\ next \in Settings /\ next.providers = saved.providers
             /\ next.bindings[s] = i
             /\ \A t \in Slots \ {s} : next.bindings[t] = saved.bindings[t]
  BY DEF LlmTypeOK, Settings, Bindings

LEMMA InitLlmInv == LlmInit => LlmInv
  <1> SUFFICES ASSUME LlmInit PROVE LlmInv
    OBVIOUS
  <1> USE DEF LlmInit
  <1>1. file \in Settings /\ reg \in Providers /\ bound \in Bindings
    BY DEF Settings, NoProviders, NoBindings, Providers, Bindings
  <1>2. frozen \in BOOLEAN /\ up \in BOOLEAN /\ ~up
    OBVIOUS
  <1> QED
    BY <1>1, <1>2 DEF LlmInv, LlmTypeOK

LEMMA LoadInv == LlmInv /\ Load => LlmInv'
  <1> SUFFICES ASSUME LlmInv, Load PROVE LlmInv'
    OBVIOUS
  <1>1. PICK own \in SUBSET Ids, broken \in SUBSET Ids, r \in [Ids -> Where] :
          /\ \A i \in Ids \ own : file.providers[i] # Nothing => r[i] = file.providers[i]
          /\ broken \subseteq {i \in Ids \ own : file.providers[i] # Nothing}
          /\ app' = own
          /\ openErr' = broken \cup {i \in own : file.providers[i] # Nothing}
          /\ reg' = [i \in Ids |-> IF i \in own \/ (file.providers[i] # Nothing /\ i \notin broken)
                                   THEN r[i] ELSE Nothing]
    BY DEF Load
  <1>2. /\ saved' = file /\ file' = file /\ frozen' = frozen
        /\ bound' = Rebind(reg', NoBindings, file.bindings)
    BY DEF Load
  <1>3. up' \in BOOLEAN
    BY DEF Load
  <1>4. LlmTypeOK
    BY DEF LlmInv
  <1>5. NoBindings \in Bindings /\ \A s \in Slots : NoBindings[s] = Nothing
    BY DEF NoBindings, Bindings
  <1>6. bound' \in Bindings /\ Follows(reg', bound', saved'.bindings)
    BY <1>2, <1>4, <1>5, RebindFollows, SettingsParts
  <1>7. reg' \in Providers /\ RegFits'
    BY <1>1, <1>2 DEF RegFits, Providers
  <1>8. LlmTypeOK'
    BY <1>1, <1>2, <1>3, <1>4, <1>6, <1>7 DEF LlmTypeOK
  <1> QED
    BY <1>2, <1>6, <1>7, <1>8 DEF LlmInv, LiveInv

\* What every operation of a running module leaves alone.
LEMMA StepRunning ==
  ASSUME LlmInv, up, UNCHANGED <<frozen, up>>, saved' = file', saved' \in Settings,
         reg' \in Providers, app' \subseteq Ids, openErr' \subseteq Ids, RegFits',
         bound' \in Bindings, Follows(reg', bound', saved'.bindings)
  PROVE  LlmInv'
  BY DEF LlmInv, LlmTypeOK, LiveInv

LEMMA StepLlmInv == LlmInv /\ [LlmNext]_llmVars => LlmInv'
  <1> SUFFICES ASSUME LlmInv, [LlmNext]_llmVars PROVE LlmInv'
    OBVIOUS
  <1>0. LlmTypeOK /\ (up => LiveInv)
    BY DEF LlmInv
  <1>p. saved.providers \in Providers /\ saved.bindings \in Bindings
    BY <1>0, SettingsParts
  <1>b. up => /\ \A s \in Slots : bound[s] \in {Nothing, saved.bindings[s]}
              /\ bound \in Bindings /\ reg \in Providers /\ saved \in Settings
              /\ app \subseteq Ids /\ openErr \subseteq Ids
    BY <1>0 DEF LiveInv, Follows, LlmTypeOK
  <1>1. CASE Edited
    BY <1>0, <1>1 DEF Edited, LlmInv, LlmTypeOK
  <1>2. CASE Down
    <2>1. reg' \in Providers /\ bound' \in Bindings
      BY <1>2 DEF Down, NoProviders, NoBindings, Providers, Bindings
    <2>2. up' \in BOOLEAN /\ ~up'
      BY <1>2 DEF Down
    <2> QED
      BY <1>0, <1>2, <2>1, <2>2 DEF Down, LlmInv, LlmTypeOK
  <1>3. CASE Load
    BY <1>3, LoadInv
  <1>4. ASSUME NEW i \in Ids, NEW w \in Where, SaveProvider(i, w) PROVE LlmInv'
    <2> DEFINE r == [reg EXCEPT ![i] = w]
               b == Rebind(r, bound, saved.bindings)
    <2>0. up /\ i \notin app /\ UNCHANGED <<frozen, up, app>>
      BY <1>4 DEF SaveProvider
    <2>1. r \in Providers /\ b \in Bindings /\ Follows(r, b, saved.bindings)
      BY <1>b, <1>p, <2>0, RebindFollows DEF Providers
    <2>2. CASE /\ Saves([saved EXCEPT !.providers[i] = w])
               /\ reg' = r /\ openErr' = openErr \ {i} /\ bound' = b
      <3>1. /\ saved' = file' /\ saved' \in Settings /\ saved'.bindings = saved.bindings
            /\ saved'.providers[i] = w
            /\ \A j \in Ids \ {i} : saved'.providers[j] = saved.providers[j]
        BY <1>0, <2>2, NextProvider DEF Saves
      <3>2. RegFits'
        BY <1>0, <1>b, <2>0, <2>2, <3>1 DEF LiveInv, RegFits, Providers
      <3> QED
        BY <1>b, <2>0, <2>1, <2>2, <3>1, <3>2, StepRunning
    <2>3. CASE /\ SaveFails /\ UNCHANGED <<reg, openErr>>
               /\ bound' = Resync(reg, b, saved.bindings)
      <3>1. RegFits'
        BY <1>0, <2>0, <2>3 DEF LiveInv, RegFits, SaveFails
      <3>2. bound' \in Bindings /\ Follows(reg', bound', saved'.bindings)
        BY <1>p, <2>3, ResyncFollows DEF SaveFails
      <3> QED
        BY <1>0, <1>b, <2>0, <2>3, <3>1, <3>2, StepRunning DEF SaveFails, LiveInv
    <2> QED
      BY <1>4, <2>2, <2>3 DEF SaveProvider
  <1>5. ASSUME NEW i \in Ids, DeleteProvider(i) PROVE LlmInv'
    <2>0. up /\ UNCHANGED <<frozen, up, app>>
      BY <1>5 DEF DeleteProvider
    <2>1. CASE /\ Saves([saved EXCEPT !.providers[i] = Nothing])
               /\ reg' = [reg EXCEPT ![i] = Nothing] /\ openErr' = openErr \ {i}
               /\ UNCHANGED bound
      <3>1. /\ saved' = file' /\ saved' \in Settings /\ saved'.bindings = saved.bindings
            /\ saved'.providers[i] = Nothing
            /\ \A j \in Ids \ {i} : saved'.providers[j] = saved.providers[j]
        BY <1>0, <2>1, NextProvider DEF Saves
      <3>2. RegFits' /\ reg' \in Providers
        BY <1>0, <1>b, <2>0, <2>1, <3>1 DEF LiveInv, RegFits, Providers
      <3>3. Follows(reg', bound', saved'.bindings)
        BY <1>0, <1>b, <1>p, <2>0, <2>1, <3>1 DEF LiveInv, Follows, Fits, Providers, Bindings
      <3> QED
        BY <1>b, <2>0, <2>1, <3>1, <3>2, <3>3, StepRunning
    <2>2. CASE SaveFails /\ UNCHANGED <<reg, openErr>> /\ bound' = Resync(reg, bound, saved.bindings)
      <3>1. RegFits'
        BY <1>0, <2>0, <2>2 DEF LiveInv, RegFits, SaveFails
      <3>2. bound' \in Bindings /\ Follows(reg', bound', saved'.bindings)
        BY <1>p, <2>2, ResyncFollows DEF SaveFails
      <3> QED
        BY <1>0, <1>b, <2>0, <2>2, <3>1, <3>2, StepRunning DEF SaveFails, LiveInv
    <2> QED
      BY <1>5, <2>1, <2>2 DEF DeleteProvider
  <1>6. ASSUME NEW s \in Slots, NEW i \in Ids \cup {Nothing}, up,
               UNCHANGED <<frozen, up, reg, app, openErr>>,
               i = Nothing \/ Fits(reg, s, i),
               \/ /\ Saves([saved EXCEPT !.bindings[s] = i])
                  /\ bound' = [bound EXCEPT ![s] = i]
               \/ SaveFails /\ bound' = Resync(reg, [bound EXCEPT ![s] = i], saved.bindings)
        PROVE  LlmInv'
    <2>1. CASE /\ Saves([saved EXCEPT !.bindings[s] = i])
               /\ bound' = [bound EXCEPT ![s] = i]
      <3>1. /\ saved' = file' /\ saved' \in Settings /\ saved'.providers = saved.providers
            /\ saved'.bindings[s] = i
            /\ \A t \in Slots \ {s} : saved'.bindings[t] = saved.bindings[t]
        BY <1>0, <2>1, NextBinding DEF Saves
      <3>2. RegFits'
        BY <1>0, <1>6, <3>1 DEF LiveInv, RegFits
      <3>3. bound' \in Bindings /\ bound'[s] = i /\ \A t \in Slots \ {s} : bound'[t] = bound[t]
        BY <1>b, <1>6, <2>1 DEF Bindings
      <3>4. Follows(reg', bound', saved'.bindings)
        BY <1>0, <1>6, <3>1, <3>3 DEF LiveInv, Follows
      <3> QED
        BY <1>b, <1>6, <3>1, <3>2, <3>3, <3>4, StepRunning
    <2>2. CASE SaveFails /\ bound' = Resync(reg, [bound EXCEPT ![s] = i], saved.bindings)
      <3>1. RegFits'
        BY <1>0, <1>6, <2>2 DEF LiveInv, RegFits, SaveFails
      <3>2. bound' \in Bindings /\ Follows(reg', bound', saved'.bindings)
        BY <1>p, <1>6, <2>2, ResyncFollows DEF SaveFails
      <3> QED
        BY <1>0, <1>b, <1>6, <2>2, <3>1, <3>2, StepRunning DEF SaveFails, LiveInv
    <2> QED
      BY <1>6, <2>1, <2>2
  <1>7. ASSUME NEW s \in Slots, NEW i \in Ids, Bind(s, i) PROVE LlmInv'
    BY <1>6, <1>7 DEF Bind
  <1>8. ASSUME NEW s \in Slots, Unbind(s) PROVE LlmInv'
    BY <1>6, <1>8 DEF Unbind
  <1>9. ASSUME NEW i \in Ids, NEW w \in Where, Register(i, w) PROVE LlmInv'
    <2>0. /\ up /\ UNCHANGED <<file, frozen, up, saved, openErr>>
          /\ reg' = [reg EXCEPT ![i] = w] /\ app' = app \cup {i}
          /\ bound' = Rebind(reg', bound, saved.bindings)
      BY <1>9 DEF Register
    <2>1. bound' \in Bindings /\ Follows(reg', bound', saved'.bindings)
      BY <1>b, <1>p, <2>0, RebindFollows
    <2>2. reg' \in Providers /\ RegFits'
      BY <1>0, <1>b, <2>0 DEF LiveInv, RegFits, Providers
    <2> QED
      BY <1>0, <1>b, <2>0, <2>1, <2>2, StepRunning DEF LiveInv
  <1>10. ASSUME NEW i \in Ids, Unregister(i) PROVE LlmInv'
    <2>0. up /\ UNCHANGED <<file, frozen, up, saved>> /\ app' = app \ {i}
      BY <1>10 DEF Unregister
    <2>1. CASE /\ saved.providers[i] = Nothing
               /\ reg' = [reg EXCEPT ![i] = Nothing] /\ openErr' = openErr \ {i}
               /\ UNCHANGED bound
      <3>1. reg' \in Providers /\ RegFits'
        BY <1>0, <1>b, <2>0, <2>1 DEF LiveInv, RegFits, Providers
      <3>2. Follows(reg', bound', saved'.bindings)
        BY <1>0, <1>b, <1>p, <2>0, <2>1 DEF LiveInv, Follows, Fits, Providers, Bindings
      <3> QED
        BY <1>0, <1>b, <2>0, <2>1, <3>1, <3>2, StepRunning DEF LiveInv
    <2>2. ASSUME NEW opens \in BOOLEAN,
                 reg' = [reg EXCEPT ![i] = IF opens THEN saved.providers[i] ELSE Nothing],
                 openErr' = IF opens THEN openErr \ {i} ELSE openErr \cup {i},
                 bound' = Resync(reg', bound, saved.bindings)
          PROVE  LlmInv'
      <3>1. reg' \in Providers /\ RegFits'
        BY <1>0, <1>b, <1>p, <2>0, <2>2 DEF LiveInv, RegFits, Providers
      <3>2. bound' \in Bindings /\ Follows(reg', bound', saved'.bindings)
        BY <1>p, <2>0, <2>2, ResyncFollows
      <3>3. app' \subseteq Ids /\ openErr' \subseteq Ids
        BY <1>b, <2>0, <2>2
      <3> QED
        BY <1>0, <1>b, <2>0, <2>2, <3>1, <3>2, <3>3, StepRunning DEF LiveInv
    <2> QED
      BY <1>10, <2>1, <2>2 DEF Unregister
  <1>11. CASE UNCHANGED llmVars
    BY <1>0, <1>11 DEF llmVars, LlmInv, LlmTypeOK, LiveInv, RegFits, Follows, Fits
  <1> QED
    BY <1>1, <1>2, <1>3, <1>4, <1>5, <1>7, <1>8, <1>9, <1>10, <1>11 DEF LlmNext

\* Registry, bindings and file agree at every step.
THEOREM LlmInductive == LlmSpec => []LlmInv
  BY InitLlmInv, StepLlmInv, PTL DEF LlmSpec

\* What a slot resolves to while the module runs is what the saved settings say.
THEOREM LiveIsWhatWasSaved == LlmSpec => []LiveIsSaved
  <1>1. LlmInv => LiveIsSaved
    BY DEF LlmInv, LiveInv, RegFits, Follows, LiveIsSaved, Resolve
  <1> QED
    BY <1>1, LlmInductive, PTL

-----------------------------------------------------------------------------
(* Fetched files.  The hash has seen the blocks of the partial file, each  *)
(* in its place, but for one that a write left behind when it failed; so   *)
(* what verify accepts is what is renamed, unless that one is past the end *)
(* of the file, where nothing overwrites it.                               *)

Piece == [at : 1 .. Blocks + 1, good : BOOLEAN]
Pieces == Seq(Piece)
InPlace(f) == \A i \in DOMAIN f : f[i].at = i

\* The blocks on disk, wherever they came from, are the first blocks of a file,
\* each in its place: NoFile stands for none.
FilesInv ==
  /\ hashed \in Pieces /\ InPlace(hashed)
  /\ part = NoFile \/ (part \in Pieces /\ InPlace(part))
  /\ stored = NoFile \/ (stored \in Pieces /\ InPlace(stored))

\* A block that a write left behind what the hash has seen.
Tailed(f, g, over) ==
  \E b \in Piece : /\ b.at = Len(g) + 1 /\ f = Append(g, b)
                   /\ b.at > Blocks => over

\* From Open to the rename the hash has seen what is on disk, but for such a block;
\* and the next block of a body belongs where that one is.
HashInv ==
  /\ getPc \in {"request", "read", "retry", "verify", "rename"} =>
       part = hashed \/ Tailed(part, hashed, overran)
  /\ getPc = "read" => answer.at = Len(hashed) + 1

\* What is renamed was verified, and what is stored was renamed.
Described(f) == /\ spec.size => Len(f) = Blocks
                /\ spec.digest => f = Genuine
VerifiedInv ==
  /\ getPc = "rename" => Described(hashed)
  /\ stored # NoFile /\ ~overran => Described(stored)

RestInv ==
  /\ getPc \in {"idle", "fetch", "request", "read", "retry", "verify", "rename", "failed"}
  /\ total \in 0 .. Unknown /\ attempt \in 0 .. Retries + 1
  /\ answer \in [at : 1 .. Blocks + 2, good : BOOLEAN]
  /\ spec \in [size : BOOLEAN, digest : BOOLEAN] /\ overran \in BOOLEAN
  /\ getPc = "retry" => attempt <= Retries
  /\ getPc \in {"request", "read"} => attempt <= Retries

GetInv == RestInv /\ FilesInv /\ HashInv /\ VerifiedInv

\* Blocks in their places are as many as the last of them says.
LEMMA AtMostOneMore ==
  ASSUME NEW f \in Pieces, InPlace(f)
  PROVE  Len(f) <= Blocks + 1
  <1>1. Blocks \in Nat /\ Len(f) \in Nat
    BY DownloadAssumption DEF Pieces
  <1>2. CASE Len(f) = 0
    BY <1>1, <1>2
  <1>3. CASE Len(f) > 0
    <2>1. Len(f) \in DOMAIN f /\ f[Len(f)] \in Piece
      BY <1>1, <1>3 DEF Pieces
    <2>2. f[Len(f)].at = Len(f) /\ f[Len(f)].at \in 1 .. Blocks + 1
      BY <2>1 DEF InPlace, Piece
    <2> QED
      BY <1>1, <2>2
  <1> QED
    BY <1>1, <1>2, <1>3

\* The empty file, and one more block behind those that are there.
LEMMA EmptyInPlace == <<>> \in Pieces /\ InPlace(<<>>) /\ Len(<<>>) = 0
  BY DEF Pieces, InPlace

LEMMA AppendInPlace ==
  ASSUME NEW f \in Pieces, InPlace(f), NEW a \in Piece, a.at = Len(f) + 1
  PROVE  Append(f, a) \in Pieces /\ InPlace(Append(f, a)) /\ Len(Append(f, a)) = Len(f) + 1
  BY DEF Pieces, InPlace

\* Writing behind what the hash has seen is appending to that.
LEMMA WriteAtEnd ==
  ASSUME NEW f \in Pieces, NEW g \in Pieces, NEW a \in Piece,
         f = g \/ \E b \in Piece : f = Append(g, b)
  PROVE  SubSeq(f, 1, Len(g)) \o <<a>> \o SubSeq(f, Len(g) + 2, Len(f)) = Append(g, a)
  <1>1. Len(g) \in Nat /\ (Len(f) = Len(g) \/ Len(f) = Len(g) + 1)
    BY DEF Pieces
  <1>2. SubSeq(f, 1, Len(g)) = g
    BY DEF Pieces
  <1>3. SubSeq(f, Len(g) + 2, Len(f)) = <<>>
    BY <1>1 DEF Pieces
  <1>4. <<a>> \in Pieces /\ g \o <<a>> \in Pieces
    BY DEF Pieces
  <1>5. (g \o <<a>>) \o <<>> = g \o <<a>>
    BY <1>4 DEF Pieces
  <1>6. g \o <<a>> = Append(g, a)
    BY DEF Pieces
  <1> QED
    BY <1>2, <1>3, <1>5, <1>6

LEMMA InitGetInv == DownloadInit => GetInv
  <1> SUFFICES ASSUME DownloadInit PROVE GetInv
    OBVIOUS
  <1> USE DownloadAssumption DEF DownloadInit
  <1>1. FilesInv
    BY EmptyInPlace DEF FilesInv
  <1>2. HashInv /\ VerifiedInv
    BY DEF HashInv, VerifiedInv
  <1>3. RestInv
    <2>1. overran \in BOOLEAN
      BY Zenon
    <2> QED
      BY <2>1 DEF RestInv, Block, Unknown
  <1> QED
    BY <1>1, <1>2, <1>3 DEF GetInv

LEMMA StepGetInv == GetInv /\ [DownloadNext]_getVars => GetInv'
  <1> SUFFICES ASSUME GetInv, [DownloadNext]_getVars PROVE GetInv'
    OBVIOUS
  <1>0. Blocks \in Nat \ {0} /\ Retries \in Nat
    BY DownloadAssumption
  <1>e. <<>> \in Pieces /\ InPlace(<<>>) /\ Len(<<>>) = 0
    BY EmptyInPlace
  <1>l. Len(hashed) \in Nat /\ Len(hashed) <= Blocks + 1
    BY AtMostOneMore DEF GetInv, FilesInv, Pieces
  <1> USE DEF GetInv, RestInv, FilesInv, HashInv, VerifiedInv, Described, offset, Unknown, Again,
              Restart, GivesUp, Lengths, Block
  <1>w. ASSUME MoreBody
        PROVE  /\ answer \in Piece /\ answer.at = Len(hashed) + 1
               /\ Written = Append(hashed, answer)
               /\ Append(hashed, answer) \in Pieces /\ InPlace(Append(hashed, answer))
    <2>1. answer \in Piece /\ answer.at = Len(hashed) + 1 /\ hashed \in Pieces
      <3>1. answer.at <= Blocks + 1 /\ answer \in [at : 1 .. Blocks + 2, good : BOOLEAN]
        BY <1>w DEF MoreBody
      <3>2. answer \in Piece
        BY <1>0, <3>1 DEF Piece
      <3> QED
        BY <1>w, <3>2 DEF MoreBody
    <2>2. part = hashed \/ \E b \in Piece : part = Append(hashed, b)
      BY <1>w DEF MoreBody, Tailed
    <2>3. part \in Pieces
      <3>1. ASSUME NEW b \in Piece, part = Append(hashed, b) PROVE part \in Pieces
        BY <2>1, <3>1 DEF Pieces
      <3> QED
        BY <2>1, <2>2, <3>1
    <2> QED
      BY <1>w, <2>1, <2>2, <2>3, WriteAtEnd, AppendInPlace DEF Written
  <1>1. CASE Get
    BY <1>1 DEF Get
  <1>2. CASE Open
    BY <1>0, <1>e, <1>2 DEF Open
  <1>3. CASE Partial
    BY <1>0, <1>e, <1>l, <1>3 DEF Partial, Reads
  <1>4. CASE Full
    BY <1>0, <1>e, <1>l, <1>4 DEF Full, Reads
  <1>5. CASE WrongLength
    BY <1>e, <1>5 DEF WrongLength
  <1>6. CASE NotSatisfiable
    BY <1>e, <1>6 DEF NotSatisfiable
  <1>7. CASE Refused
    BY <1>e, <1>7 DEF Refused
  <1>8. CASE Read
    <2>1. getPc = "read" /\ Len(hashed) <= Blocks
      BY <1>8 DEF Read, MoreBody
    <2>2. hashed' = Append(hashed, answer) /\ part' = Append(hashed, answer)
      BY <1>8, <1>w DEF Read
    <2>9. answer \in Piece /\ answer.at = Len(hashed) + 1
      BY <1>8, <1>w DEF Read
    <2>3. hashed' \in Pieces /\ InPlace(hashed') /\ Len(hashed') = Len(hashed) + 1
      BY <2>2, <2>9, AppendInPlace
    <2>4. answer' \in [at : 1 .. Blocks + 2, good : BOOLEAN] /\ answer'.at = answer.at + 1
      <3>1. answer.at \in Nat /\ answer.at + 1 \in 1 .. Blocks + 2
        BY <1>0, <1>l, <2>1, <2>9
      <3>2. answer' = [answer EXCEPT !.at = answer.at + 1]
        BY <1>8 DEF Read
      <3>3. answer \in [at : Nat, good : BOOLEAN]
        BY <2>9 DEF Piece
      <3> QED
        BY <3>1, <3>2, <3>3
    <2>5. UNCHANGED <<getPc, total, attempt, stored, spec, overran>>
      BY <1>8 DEF Read
    <2>6. FilesInv'
      BY <2>2, <2>3, <2>5
    <2>8. RestInv'
      BY <2>1, <2>4, <2>5 DEF RestInv
    <2>7. HashInv' /\ VerifiedInv'
      BY <1>l, <2>1, <2>2, <2>3, <2>4, <2>5, <2>9
    <2> QED
      BY <2>6, <2>7, <2>8
  <1>16. CASE WriteBreaks
    <2>1. /\ MoreBody /\ overran' = (overran \/ Len(hashed) >= Blocks)
          /\ UNCHANGED <<total, answer, attempt, stored, spec>>
      BY <1>16 DEF WriteBreaks
    <2>2. CASE part' = Written /\ UNCHANGED hashed /\ getPc' = "retry"
      <3>1. answer.at > Blocks => overran'
        <4>1. answer.at > Blocks => Len(hashed) >= Blocks
          BY <1>w, <1>l, <1>0, <2>1
        <4> QED
          BY <2>1, <4>1, Zenon
      <3>2. Tailed(part', hashed', overran')
        <4>1. answer \in Piece /\ answer.at = Len(hashed') + 1 /\ part' = Append(hashed', answer)
          BY <1>w, <2>1, <2>2
        <4> QED
          BY <3>1, <4>1, Zenon DEF Tailed
      <3> QED
        BY <1>w, <2>1, <2>2, <3>2 DEF MoreBody
    <2>3. CASE getPc' = "failed" /\ hashed' = <<>> /\ part' \in {NoFile, Written}
      BY <1>e, <1>w, <2>1, <2>3
    <2> QED
      BY <1>16, <2>2, <2>3 DEF WriteBreaks
  <1>9. CASE EndOfFile
    BY <1>9 DEF EndOfFile
  <1>10. CASE BodyBreaks
    BY <1>e, <1>10 DEF BodyBreaks
  <1>11. CASE Retry
    BY <1>0, <1>e, <1>11 DEF Retry
  <1>12. CASE Verify
    BY <1>12 DEF Verify
  <1>13. CASE Rename
    <2>1. ~overran => Described(part)
      <3>1. ASSUME ~overran, part # hashed PROVE ~spec.size /\ ~spec.digest
        <4>1. Len(hashed) < Blocks
          BY <1>0, <1>l, <1>13, <3>1 DEF Rename, Tailed, Piece
        <4>2. Len(Genuine) = Blocks
          BY <1>0 DEF Genuine
        <4> QED
          BY <1>13, <4>1, <4>2 DEF Rename
      <3> QED
        BY <1>13, <3>1 DEF Rename
    <2> QED
      BY <1>e, <1>13, <2>1 DEF Rename
  <1>14. CASE AnotherDay
    BY <1>e, <1>14 DEF AnotherDay
  <1>15. CASE UNCHANGED getVars
    BY <1>15 DEF getVars
  <1> QED
    BY <1>1, <1>2, <1>3, <1>4, <1>5, <1>6, <1>7, <1>8, <1>9, <1>10, <1>11, <1>12, <1>13, <1>14, <1>15,
       <1>16
    DEF DownloadNext

\* Partial file, hash and stored file agree at every step.
THEOREM GetInductive == DownloadSpec => []GetInv
  BY InitGetInv, StepGetInv, PTL DEF DownloadSpec

\* What is found under the name of the file is what its source described, however
\* many bodies it was put together from, unless a write past the end of the file
\* failed half way (fetch.go).
THEOREM StoredIsVerified == DownloadSpec => []OnlyVerified
  <1>1. GetInv => OnlyVerified
    BY DEF GetInv, FilesInv, VerifiedInv, Described, InPlace, OnlyVerified
  <1> QED
    BY <1>1, GetInductive, PTL

\* The invariant has the type of the state in it.
LEMMA GetTypes == GetInv => DownloadTypeOK
  <1> SUFFICES ASSUME GetInv PROVE DownloadTypeOK
    OBVIOUS
  <1>1. ASSUME NEW f \in Pieces PROVE IsFile(f)
    <2>1. \A i \in DOMAIN f : f[i] \in Piece
      BY DEF Pieces
    <2> QED
      BY <2>1 DEF Piece, IsFile
  <1>2. IsFile(part) /\ IsFile(hashed) /\ IsFile(stored)
    BY <1>1 DEF GetInv, FilesInv, IsFile
  <1> QED
    BY <1>2 DEF GetInv, RestInv, DownloadTypeOK
================================================================================
