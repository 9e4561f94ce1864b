---------------------------------- MODULE Store ----------------------------------
(***************************************************************************)
(* The store module (src/module/store/module.go): a map and the JSON file  *)
(* it is saved to.  Set and Delete change the map under the write lock,    *)
(* let it go, and save under the read lock, which several may hold; a save *)
(* overwrites the file in place, so a crash in it leaves one that does not *)
(* parse.  A Delete is a Set to Absent.                                    *)
(***************************************************************************)
CONSTANTS StoreKeys, StoreValues,
          Absent,   \* no value
          Torn,     \* a file that does not parse
          Writers   \* concurrent calls of Set and Delete

ASSUME StoreAssumption ==
  /\ Absent \notin StoreValues
  /\ Torn \notin [StoreKeys -> StoreValues \cup {Absent}]

VARIABLES data,      \* m.data
          onDisk,    \* what the file holds; no file is an empty one
          writer,    \* where each call is
          image,     \* the bytes it writes
          loaded,    \* the module is up
          promised,  \* history: m.data when a save last returned "ok"
          unsaved,   \* history: the keys changed since
          broke,     \* history: since then a write failed half way
          lost       \* history: the process once ended and left a torn file

historyVars == <<promised, unsaved, broke, lost>>
storeVars == <<data, onDisk, writer, image, loaded, historyVars>>

Maps == [StoreKeys -> StoreValues \cup {Absent}]
Empty == [k \in StoreKeys |-> Absent]

StoreTypeOK ==
  /\ data \in Maps /\ promised \in Maps
  /\ onDisk = Torn \/ onDisk \in Maps
  /\ writer \in [Writers -> {"idle", "changed", "open", "writing"}]
  /\ image \in [Writers -> Maps]
  /\ unsaved \subseteq StoreKeys
  /\ {loaded, broke, lost} \subseteq BOOLEAN

StoreInit ==
  /\ data = Empty /\ onDisk = Empty /\ promised = Empty
  /\ writer = [w \in Writers |-> "idle"]
  /\ image = [w \in Writers |-> Empty]
  /\ loaded = TRUE /\ unsaved = {} /\ broke = FALSE /\ lost = FALSE

WGoes(w, from, to) == writer[w] = from /\ writer' = [writer EXCEPT ![w] = to]
Saving == {w \in Writers : writer[w] \in {"open", "writing"}}   \* hold m.mu.RLock

\* Set, Delete: m.mu.Lock waits for every save.
Change_Unlocked(w, k, v) ==
  /\ loaded /\ WGoes(w, "idle", "changed")
  /\ data' = [data EXCEPT ![k] = v] /\ unsaved' = unsaved \cup {k}
  /\ UNCHANGED <<onDisk, image, loaded, promised, broke, lost>>
Change(w, k, v) ==
  /\ loaded /\ Saving = {} /\ WGoes(w, "idle", "changed")
  /\ data' = [data EXCEPT ![k] = v] /\ unsaved' = unsaved \cup {k}
  /\ UNCHANGED <<onDisk, image, loaded, promised, broke, lost>>

\* saveToFile: the map is marshalled under the read lock, held to the end.
Marshal(w) ==
  /\ WGoes(w, "changed", "open") /\ image' = [image EXCEPT ![w] = data]
  /\ UNCHANGED <<data, onDisk, loaded, historyVars>>

\* os.WriteFile empties the file first.
Truncate(w) ==
  /\ WGoes(w, "open", "writing") /\ onDisk' = Torn
  /\ UNCHANGED <<data, image, loaded, historyVars>>

WriteBytes(w) ==
  /\ WGoes(w, "writing", "idle")
  /\ onDisk' = image[w] /\ promised' = data /\ unsaved' = {} /\ broke' = FALSE
  /\ UNCHANGED <<data, image, loaded, lost>>

\* The caller gets the error; the map keeps the change.
SaveError(w) ==
  /\ \/ (WGoes(w, "changed", "idle") \/ WGoes(w, "open", "idle")) /\ UNCHANGED broke
     \/ WGoes(w, "writing", "idle") /\ broke' = TRUE
  /\ UNCHANGED <<data, onDisk, image, loaded, promised, unsaved, lost>>

\* OnStop saves, with no call left, which may fail like any save; or the process
\* dies at any moment.
StopStore ==
  /\ loaded /\ loaded' = FALSE
  /\ writer' = [w \in Writers |-> "idle"]
  /\ \/ /\ writer' = writer
        /\ onDisk' = data /\ promised' = data /\ UNCHANGED lost
     \/ /\ onDisk' = onDisk \/ (writer' = writer /\ onDisk' = Torn)
        /\ lost' = (lost \/ onDisk' = Torn) /\ UNCHANGED promised
  /\ data' = Empty /\ unsaved' = {} /\ broke' = FALSE
  /\ UNCHANGED image

\* OnLoad: a file that does not parse is logged, and the store starts empty.
LoadStore ==
  /\ ~loaded /\ loaded' = TRUE
  /\ data' = IF onDisk = Torn THEN Empty ELSE onDisk
  /\ UNCHANGED <<onDisk, writer, image, historyVars>>

StoreNext ==
  \/ StopStore \/ LoadStore
  \/ \E w \in Writers : \/ \E k \in StoreKeys, v \in StoreValues \cup {Absent} : Change(w, k, v)
                        \/ Marshal(w) \/ Truncate(w) \/ WriteBytes(w) \/ SaveError(w)

StoreSpec == StoreInit /\ [][StoreNext]_storeVars
-----------------------------------------------------------------------------
\* Until a process ends and leaves a torn file: whenever no save is under way the
\* file holds what the last call to return "ok" was told is saved, changes of the
\* calls before it included, whichever of the concurrent saves wrote last, and so
\* after a restart or a crash between two saves.  Or a write failed half way, and
\* then the map still holds all that was reported as saved, for the next save to
\* write: a failed save alone loses nothing.
SavedIsKept ==
  ~lost =>
    /\ Saving = {} => onDisk = promised \/ (onDisk = Torn /\ broke /\ loaded)
    /\ loaded => \A k \in StoreKeys \ unsaved : data[k] = promised[k]
=============================================================================
