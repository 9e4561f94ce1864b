------------------------------ MODULE LlmSettings ------------------------------
(***************************************************************************)
(* The llm module's providers and slots (src/module/llm/module.go) over    *)
(* the registry that chats resolve in (src/llm/registry.go): every change  *)
(* is made live, then saved, and undone when the file refuses it.  The     *)
(* app registers providers of its own beside the user's.  Every operation  *)
(* holds m.mu from its first look to its return, and a save lands by one   *)
(* rename, so an operation is one step.                                    *)
(***************************************************************************)
CONSTANTS Ids,        \* provider ids
          Slots,      \* the slots that the app declares
          LocalSlots, \* those of them that are LocalOnly
          Nothing     \* no provider

ASSUME LlmAssumption == LocalSlots \subseteq Slots /\ Nothing \notin Ids

VARIABLES file,     \* what llm.json says
          frozen,   \* m.frozen: the file was written by a newer build
          up,       \* the module is loaded
          saved,    \* m.saved
          reg,      \* the provider registered under an id, by where it runs
          bound,    \* the registry's binding of a slot
          app,      \* m.app: ids that the app registered
          openErr   \* ids whose saved provider did not open

llmVars == <<file, frozen, up, saved, reg, bound, app, openErr>>

Where == {"local", "remote"}
Providers == [Ids -> Where \cup {Nothing}]
Bindings == [Slots -> Ids \cup {Nothing}]
Settings == [providers : Providers, bindings : Bindings]

NoProviders == [i \in Ids |-> Nothing]
NoBindings == [s \in Slots |-> Nothing]

LlmTypeOK ==
  /\ file \in Settings /\ saved \in Settings
  /\ frozen \in BOOLEAN /\ up \in BOOLEAN
  /\ reg \in Providers /\ bound \in Bindings
  /\ app \subseteq Ids /\ openErr \subseteq Ids
-----------------------------------------------------------------------------
(* llm.Registry *)

\* Bind, and resolve again: the provider is there, and local where it must be.
Fits(r, s, id) ==
  /\ id # Nothing /\ r[id] # Nothing
  /\ s \in LocalSlots => r[id] = "local"

Resolve(r, b, s) == IF b[s] # Nothing /\ Fits(r, s, b[s]) THEN b[s] ELSE Nothing

\* rebind only adds to the live bindings b; resync clears every slot first.
Rebind(r, b, wanted) ==
  [s \in Slots |-> IF Fits(r, s, wanted[s]) THEN wanted[s] ELSE b[s]]
Resync_OnlyAdds(r, b, wanted) == Rebind(r, b, wanted)
Resync(r, b, wanted) == Rebind(r, NoBindings, wanted)
-----------------------------------------------------------------------------
(* llm.Module *)

LlmInit ==
  /\ file = [providers |-> NoProviders, bindings |-> NoBindings] /\ frozen \in BOOLEAN
  /\ up = FALSE /\ saved = file
  /\ reg = NoProviders /\ bound = NoBindings /\ app = {} /\ openErr = {}

\* A newer build, or a hand, writes the file while the app does not run.
Edited ==
  /\ ~up /\ file' \in Settings
  /\ UNCHANGED <<frozen, up, saved, reg, bound, app, openErr>>

\* The app registers what it runs before the file is read, then load opens
\* every record that the app does not shadow; one that fails keeps its place.
Load ==
  /\ ~up /\ up' = TRUE /\ saved' = file
  /\ \E own \in SUBSET Ids, broken \in SUBSET Ids, r \in [Ids -> Where] :
       /\ \A i \in Ids \ own : file.providers[i] # Nothing => r[i] = file.providers[i]
       /\ broken \subseteq {i \in Ids \ own : file.providers[i] # Nothing}
       /\ app' = own
       /\ openErr' = broken \cup {i \in own : file.providers[i] # Nothing}
       /\ reg' = [i \in Ids |-> IF i \in own \/ (file.providers[i] # Nothing /\ i \notin broken)
                                THEN r[i] ELSE Nothing]
  /\ bound' = Rebind(reg', NoBindings, file.bindings)
  /\ UNCHANGED <<file, frozen>>

\* A stop or a crash: only the file is left.
Down ==
  /\ up /\ up' = FALSE
  /\ saved' = file /\ reg' = NoProviders /\ bound' = NoBindings
  /\ app' = {} /\ openErr' = {}
  /\ UNCHANGED <<file, frozen>>

\* save, then commit's undo when it fails: always for a file that is left to
\* a newer build.
Saves(next) == ~frozen /\ file' = next /\ saved' = next
SaveFails == UNCHANGED <<file, saved>>

SaveProvider(i, w) ==
  LET next == [saved EXCEPT !.providers[i] = w]
      r == [reg EXCEPT ![i] = w]
  IN  /\ up /\ i \notin app
      /\ \/ /\ Saves(next) /\ reg' = r /\ openErr' = openErr \ {i}
            /\ bound' = Rebind(r, bound, saved.bindings)
         \/ /\ SaveFails /\ UNCHANGED <<reg, openErr>>
            /\ bound' = Resync(reg, Rebind(r, bound, saved.bindings), saved.bindings)
      /\ UNCHANGED <<frozen, up, app>>

\* The record goes with whatever is registered under its id.
DeleteProvider(i) ==
  /\ up /\ saved.providers[i] # Nothing
  /\ \/ /\ Saves([saved EXCEPT !.providers[i] = Nothing])
        /\ reg' = [reg EXCEPT ![i] = Nothing] /\ openErr' = openErr \ {i}
        /\ UNCHANGED bound
     \/ SaveFails /\ UNCHANGED <<reg, openErr>> /\ bound' = Resync(reg, bound, saved.bindings)
  /\ UNCHANGED <<frozen, up, app>>

Bind(s, i) ==
  /\ up /\ Fits(reg, s, i)
  /\ \/ /\ Saves([saved EXCEPT !.bindings[s] = i])
        /\ bound' = [bound EXCEPT ![s] = i]
     \/ SaveFails /\ bound' = Resync(reg, [bound EXCEPT ![s] = i], saved.bindings)
  /\ UNCHANGED <<frozen, up, reg, app, openErr>>

Unbind(s) ==
  /\ up
  /\ \/ /\ Saves([saved EXCEPT !.bindings[s] = Nothing])
        /\ bound' = [bound EXCEPT ![s] = Nothing]
     \/ SaveFails /\ bound' = Resync(reg, [bound EXCEPT ![s] = Nothing], saved.bindings)
  /\ UNCHANGED <<frozen, up, reg, app, openErr>>

\* Register and Unregister, for the providers that the app runs itself.
Register(i, w) ==
  /\ up /\ saved.providers[i] = Nothing /\ reg[i] = Nothing
  /\ reg' = [reg EXCEPT ![i] = w] /\ app' = app \cup {i}
  /\ bound' = Rebind(reg', bound, saved.bindings)
  /\ UNCHANGED <<file, frozen, up, saved, openErr>>

\* A record saved under the id takes its place.
Unregister(i) ==
  /\ up /\ i \in app
  /\ app' = app \ {i}
  /\ \/ /\ saved.providers[i] = Nothing
        /\ reg' = [reg EXCEPT ![i] = Nothing] /\ openErr' = openErr \ {i}
        /\ UNCHANGED bound
     \/ /\ saved.providers[i] # Nothing
        /\ \E opens \in BOOLEAN :
             /\ reg' = [reg EXCEPT ![i] = IF opens THEN saved.providers[i] ELSE Nothing]
             /\ openErr' = IF opens THEN openErr \ {i} ELSE openErr \cup {i}
        /\ bound' = Resync(reg', bound, saved.bindings)
  /\ UNCHANGED <<file, frozen, up, saved>>

LlmNext ==
  \/ Edited \/ Load \/ Down
  \/ \E i \in Ids, w \in Where : SaveProvider(i, w) \/ Register(i, w)
  \/ \E i \in Ids : DeleteProvider(i) \/ Unregister(i)
  \/ \E s \in Slots, i \in Ids : Bind(s, i)
  \/ \E s \in Slots : Unbind(s)

LlmSpec == LlmInit /\ [][LlmNext]_llmVars
-----------------------------------------------------------------------------
\* While the module runs, what chats resolve to is what the file says: memory
\* and file agree, each saved provider that opened is the registered one, and
\* every slot resolves to the provider its saved binding names, or to none
\* when that one is missing or may not serve it.  A change that the file
\* refused is not live (module.go:694).
LiveIsSaved == up =>
  /\ saved = file
  /\ \A i \in Ids \ app : reg[i] = IF i \in openErr THEN Nothing ELSE saved.providers[i]
  /\ \A s \in Slots : Resolve(reg, bound, s) = Resolve(reg, saved.bindings, s)
===============================================================================
