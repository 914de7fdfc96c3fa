-------------------------------- MODULE Profiles --------------------------------
(***************************************************************************)
(* The profiles of the GUI: config.toml and the system keyring (config.rs), *)
(* the copy each main window keeps and its dropdown (ui/window.rs), and the *)
(* profile editor (ui/profile_editor.rs), a modal dialog of its window.     *)
(*                                                                          *)
(* A profile is its name and its password; the fields that are copied from  *)
(* the editor to the file and back are left out.  Launching the GUI again   *)
(* opens another window of the same process.  A handler runs to its end on  *)
(* the GTK thread; the file can be read and written, the keyring may refuse.*)
(***************************************************************************)
EXTENDS Naturals, SequencesExt

CONSTANTS
    Windows,
    Names, Passwords,
    Empty, NoEntry, \* the empty password; the keyring has nothing
    MaxProfiles,    \* profiles in a window, at most
    Legacy,         \* TRUE: the first file may come from a version that kept passwords
    RingFails       \* TRUE: a call to the keyring may fail

ASSUME ProfileConstants ==
    /\ {Empty, NoEntry} \cap Passwords = {} /\ Empty # NoEntry
    /\ MaxProfiles \in Nat \ {0} /\ Legacy \in BOOLEAN /\ RingFails \in BOOLEAN

\* given is an observer: the password the user last gave the profile.
ProfileConfig == [name : Names, password : Passwords \cup {Empty}, given : Passwords]

BoundedProfiles == UNION {[1 .. n -> ProfileConfig] : n \in 0 .. MaxProfiles}

\* last_selected counts from 1, 0 is None.
AppConfig == [profiles : BoundedProfiles, last_selected : 0 .. MaxProfiles]

VARIABLES
    file,       \* config.toml
    keyring,    \* the password kept for each name
    open,       \* the windows there are
    config,     \* app_config of each window
    shown,      \* the entry its dropdown shows, 0 for none
    dialog,     \* its profile editor
    mixed       \* observer: see Mix

profilesVars == <<file, keyring, open, config, shown, dialog, mixed>>

DefaultConfig == [profiles |-> <<>>, last_selected |-> 0]

Closed == [kind |-> "closed", idx |-> 0, name |-> NoEntry, password |-> Empty]
Editors == [kind : {"closed", "add", "edit"}, idx : 0 .. MaxProfiles,
            name : Names \cup {NoEntry}, password : Passwords \cup {Empty}]

-----------------------------------------------------------------------------
(* config.rs.                                                               *)

\* How a call to the keyring may go.
Granted == IF RingFails THEN BOOLEAN ELSE {TRUE}

store_password(ring, name, password, granted) ==
    IF granted THEN [ring EXCEPT ![name] = password] ELSE ring

delete_password(ring, name, granted) ==
    IF granted THEN [ring EXCEPT ![name] = NoEntry] ELSE ring

retrieve_password(name, granted) ==
    IF granted /\ keyring[name] # NoEntry THEN keyring[name] ELSE Empty

\* The password a connection uses: of the keyring, or the one in memory.
Connects(profile) ==
    IF keyring[profile.name] # NoEntry THEN keyring[profile.name] ELSE profile.password

\* The password is never written.
save_config(cfg) ==
    file' = [cfg EXCEPT !.profiles =
                [i \in DOMAIN @ |-> [@[i] EXCEPT !.password = Empty]]]

\* moved: the profiles whose legacy password the keyring took, in their order: of
\* one name the last one stays.  The file is saved if there is one.
migrate_passwords(w, moved) ==
    LET old == file.profiles
    IN  /\ config' = [config EXCEPT ![w] = [file EXCEPT !.profiles =
                        [i \in DOMAIN @ |-> IF i \in moved
                                            THEN [@[i] EXCEPT !.password = Empty] ELSE @[i]]]]
        /\ \E ring \in [Names -> Passwords \cup {Empty, NoEntry}] :
            /\ keyring' = ring
            /\ \A n \in Names :
                LET namesakes == {i \in moved : old[i].name = n}
                IN  \/ namesakes = {} /\ ring[n] = keyring[n]
                    \/ \E i \in namesakes : /\ \A j \in namesakes : j <= i
                                            /\ ring[n] = old[i].password
        /\ IF moved = {} THEN UNCHANGED file ELSE save_config(config'[w])

\* Profiles whose password the file still has.
Unmigrated == {i \in DOMAIN file.profiles : file.profiles[i].password # Empty}

-----------------------------------------------------------------------------
(* The window.                                                              *)

\* What update_dropdown selects: a new model starts with its first entry.
Selected(cfg) ==
    IF cfg.last_selected \in DOMAIN cfg.profiles THEN cfg.last_selected
    ELSE IF cfg.profiles = <<>> THEN 0 ELSE 1

\* The handler of an editor ends: the window keeps cfg and saves it.
Commit(w, cfg) ==
    /\ config' = [config EXCEPT ![w] = cfg] /\ save_config(cfg)
    /\ shown' = [shown EXCEPT ![w] = Selected(cfg)]
    /\ dialog' = [dialog EXCEPT ![w] = Closed]

Free(w) == w \in open /\ dialog[w] = Closed

\* The names that two profiles have.  Nothing forbids them: neither the editor nor
\* the window compares a name with those there are.
Shared(profiles) ==
    {n \in Names : \E i, j \in DOMAIN profiles :
                      i # j /\ profiles[i].name = n /\ profiles[j].name = n}

\* The observer: names that two profiles have or had, and the names of profiles
\* whose password an editor took from such a name.
Mix(profiles, taken) == mixed' = mixed \cup Shared(profiles) \cup taken

\* A file of this version has no password in it, one of an older version has
\* them all and the keyring none.
ProfilesInit == /\ \/ file = DefaultConfig
                   \/ /\ Legacy /\ file \in AppConfig
                      /\ \A i \in DOMAIN file.profiles :
                             file.profiles[i].password = file.profiles[i].given
                /\ keyring = [n \in Names |-> NoEntry]
                /\ open = {} /\ config = [w \in Windows |-> DefaultConfig]
                /\ shown = [w \in Windows |-> 0] /\ dialog = [w \in Windows |-> Closed]
                /\ mixed = Shared(file.profiles)

\* load_config, migrate_passwords, update_dropdown.
OpenWindow(w) ==
    /\ w \notin open /\ open' = open \cup {w}
    /\ \E moved \in (IF RingFails THEN SUBSET Unmigrated ELSE {Unmigrated}) :
            migrate_passwords(w, moved)
    /\ shown' = [shown EXCEPT ![w] = Selected(config'[w])]
    /\ UNCHANGED <<dialog, mixed>>

\* Closing the last window ends the process.
CloseWindow(w) ==
    /\ w \in open /\ open' = open \ {w}
    /\ config' = [config EXCEPT ![w] = DefaultConfig] /\ shown' = [shown EXCEPT ![w] = 0]
    /\ dialog' = [dialog EXCEPT ![w] = Closed]
    /\ UNCHANGED <<file, keyring, mixed>>

\* Mutant: the selection is kept in memory.
Select_Unsaved(w, i) ==
    /\ Free(w) /\ i \in DOMAIN config[w].profiles /\ shown[w] # i
    /\ shown' = [shown EXCEPT ![w] = i]
    /\ config' = [config EXCEPT ![w].last_selected = i]
    /\ UNCHANGED <<file, keyring, open, dialog, mixed>>

\* The dropdown's selected-notify; it does nothing when update_dropdown changes
\* the selection.
Select(w, i) ==
    /\ Free(w) /\ i \in DOMAIN config[w].profiles /\ shown[w] # i
    /\ shown' = [shown EXCEPT ![w] = i]
    /\ config' = [config EXCEPT ![w].last_selected = i]
    /\ save_config(config'[w])
    /\ UNCHANGED <<keyring, open, dialog, mixed>>

OpenAdd(w) ==
    /\ Free(w) /\ Len(config[w].profiles) < MaxProfiles
    /\ dialog' = [dialog EXCEPT ![w].kind = "add"]
    /\ UNCHANGED <<file, keyring, open, config, shown, mixed>>

\* The editor shows what the keyring has, not what the window has.
OpenEdit(w) ==
    /\ Free(w) /\ shown[w] \in DOMAIN config[w].profiles
    /\ \E granted \in Granted :
        LET existing == config[w].profiles[shown[w]]
        IN  dialog' = [dialog EXCEPT ![w] =
                [kind |-> "edit", idx |-> shown[w], name |-> existing.name,
                 password |-> retrieve_password(existing.name, granted)]]
    /\ UNCHANGED <<file, keyring, open, config, shown, mixed>>

Cancel(w) ==
    /\ w \in open /\ dialog[w] # Closed /\ dialog' = [dialog EXCEPT ![w] = Closed]
    /\ UNCHANGED <<file, keyring, open, config, shown, mixed>>

SaveAdd(w, name, password) ==
    /\ w \in open /\ dialog[w].kind = "add"
    /\ \E granted \in Granted :
            keyring' = store_password(keyring, name, password, granted)
    /\ LET profile == [name |-> name, password |-> password, given |-> password]
           cfg == [profiles |-> Append(config[w].profiles, profile),
                   last_selected |-> Len(config[w].profiles) + 1]
       IN  Commit(w, cfg) /\ Mix(cfg.profiles, {})
    /\ UNCHANGED open

\* Mutant: the old entry stays.
Entries_Renamed(w, name, password) ==
    \E granted \in Granted : keyring' = store_password(keyring, name, password, granted)

\* Mutant: the old entry goes last, and whether or not the name changed.
Entries_DeletedLast(w, name, password) ==
    \E granted, granted2 \in Granted :
        keyring' = delete_password(store_password(keyring, name, password, granted2),
                                   dialog[w].name, granted)

\* The keyring after an edit: the old entry goes if the name changed.
Entries(w, name, password) ==
    \E granted, granted2 \in Granted :
        LET kept == IF name = dialog[w].name THEN keyring
                    ELSE delete_password(keyring, dialog[w].name, granted)
        IN  keyring' = store_password(kept, name, password, granted2)

\* The user leaves the password that is shown, or types another.
SaveEdit(w, name, typed) ==
    /\ w \in open /\ dialog[w].kind = "edit"
    /\ LET idx      == dialog[w].idx
           password == IF typed = NoEntry THEN dialog[w].password ELSE typed
           given    == IF typed = NoEntry THEN config[w].profiles[idx].given ELSE typed
           cfg == [config[w] EXCEPT !.profiles[idx] =
                    [name |-> name, password |-> password, given |-> given]]
       IN  /\ Entries(w, name, password) /\ Commit(w, cfg)
           /\ Mix(cfg.profiles,
                  IF typed = NoEntry /\ dialog[w].name \in mixed THEN {name} ELSE {})
    /\ UNCHANGED open

\* The Delete button of the editor, confirmed.
DeleteProfile(w) ==
    /\ w \in open /\ dialog[w].kind = "edit"
    /\ \E granted \in Granted : keyring' = delete_password(keyring, dialog[w].name, granted)
    /\ LET left == RemoveAt(config[w].profiles, dialog[w].idx)
       IN  Commit(w, [profiles |-> left, last_selected |-> IF left = <<>> THEN 0 ELSE 1])
    /\ UNCHANGED <<open, mixed>>

Editing(w) == \/ OpenAdd(w) \/ OpenEdit(w) \/ Cancel(w) \/ DeleteProfile(w)
              \/ \E name \in Names, password \in Passwords : SaveAdd(w, name, password)
              \/ \E name \in Names, typed \in Passwords \cup {NoEntry} :
                     SaveEdit(w, name, typed)

ProfilesNext == \E w \in Windows : \/ OpenWindow(w) \/ CloseWindow(w) \/ Editing(w)
                                   \/ \E i \in 1 .. MaxProfiles : Select(w, i)

ProfilesSpec == ProfilesInit /\ [][ProfilesNext]_profilesVars

-----------------------------------------------------------------------------
ProfilesTypeOK ==
    /\ file \in AppConfig /\ keyring \in [Names -> Passwords \cup {Empty, NoEntry}]
    /\ open \subseteq Windows /\ config \in [Windows -> AppConfig]
    /\ dialog \in [Windows -> Editors] /\ shown \in [Windows -> 0 .. MaxProfiles]
    /\ \A w \in Windows : shown[w] \in 0 .. Len(config[w].profiles)
    /\ mixed \subseteq Names

\* A profile whose name no other profile has had connects with the password its
\* user gave it last, now and after the next start, however it and the others were
\* added, renamed, edited, deleted and migrated from the old file (store_password,
\* delete_password, From<ProfileConfig>).  Profiles of one name share one entry of
\* the keyring: to save one of them changes the password of the other, and to
\* delete or rename one of them leaves the other without.
OwnPassword ==
    /\ \A p \in ToSet(file.profiles) : p.name \notin mixed => Connects(p) = p.given
    /\ \A w \in open : \A p \in ToSet(config[w].profiles) :
                            p.name \notin mixed => Connects(p) = p.given

\* The keyring keeps no password of a profile that is gone or has another name
\* (the deletions of the edit and delete handlers).
NoPasswordLeft == \A n \in Names : keyring[n] # NoEntry =>
                      \E p \in ToSet(file.profiles) : p.name = n

\* The next start shows the profile that the window shows (last_selected is saved
\* with every change and corrected by update_dropdown).
StartsAsLeft == \A w \in open : shown[w] = Selected(file)

\* "Password remains in config file." (config.rs:180): a legacy password the
\* keyring refused stays where it was.
PasswordRemains ==
    \A p \in ToSet(file.profiles) : p.given \in {keyring[p.name], p.password}

\* "Save selected profile on dropdown change" (window.rs:322): choosing another
\* profile saves the choice, and leaves the profiles of the file alone.
SelectionSaved ==
    [][(\E w \in Windows, i \in 1 .. MaxProfiles : Select(w, i))
       => {p.name : p \in ToSet(file'.profiles)} = {p.name : p \in ToSet(file.profiles)}]_profilesVars
=============================================================================
