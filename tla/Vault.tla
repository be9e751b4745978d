-------------------------------- MODULE Vault --------------------------------
(***************************************************************************)
(* The accounts of prototype-minimal and prototype-webassembly (app.js):   *)
(* a vault of encrypted user blobs in localStorage, which all tabs of the  *)
(* browser share, a saved session beside it, and in every tab a sign-in    *)
(* form, a signed-in user and the sign-in attempts that are still running. *)
(*                                                                         *)
(* A handler runs to its next await without interruption, so an await is   *)
(* where a step ends: between two steps of one attempt the user presses    *)
(* other buttons, other attempts move on, and other tabs write the vault.  *)
(* The WebAssembly build pauses once, before it reads anything, and then   *)
(* blocks its tab while it derives keys; other tabs have threads of their  *)
(* own and no lock keeps them from the vault meanwhile.  A read and a      *)
(* write of localStorage with no derivation in between are one step.       *)
(*                                                                         *)
(* A blob is its id, its salt (the salt and ciphertext, which differ for   *)
(* every encryption) and the name and password that open it.  The awaits   *)
(* of one search over the vault are one step: the list was read before     *)
(* the first of them.  A Mutant is a plausible bug in the definition after *)
(* it; no action uses one.                                                 *)
(***************************************************************************)
EXTENDS Naturals, FiniteSets, Sequences, SequencesExt

CONSTANTS
    Tab,        \* open tabs of the page
    Slot,       \* attempts that run at the same time in one tab
    MaxRunning, \* bound: attempts that run at the same time, over all tabs
    MaxPresses, \* bound: what the user does, over all tabs
    FreshId,    \* ids this browser may draw (newId)
    ForeignId,  \* ids of blobs made on other devices
    Cred,       \* the name and password pairs people type or have saved
    Pasted,     \* bound: the lists of records that may be pasted
    Build,      \* the programs to model: "webcrypto", "wasm" or both
    NoId, Nobody, None

Id == FreshId \cup ForeignId
Name == {c.name : c \in Cred}
Blob == [id : Id, salt : Id, name : Name, pw : {c.pw : c \in Cred}]
Ident == [id : Id, name : Name]
Deriving == [stage : {"yield", "search", "unlock", "create"},
             silent : BOOLEAN, cred : Cred, target : Id \cup {NoId},
             list : Seq(Blob), rec : Blob \cup {None}]
Storing == [stage : {"store"}, silent : BOOLEAN]
Attempt == Deriving \cup Storing

\* No attempt runs in a slot.
Idle == [stage |-> "idle"]

ASSUME IdAssumption == NoId \notin Id /\ FreshId \cap ForeignId = {}
ASSUME NobodyAssumption == Nobody \notin Ident
ASSUME PastedAssumption == Pasted \subseteq Seq(Blob)
ASSUME BuildAssumption == Build \subseteq {"webcrypto", "wasm"}

VARIABLES
    build,      \* which of the two programs runs
    vault,      \* LS_USERS: the blobs on this device
    session,    \* LS_SESSION: who is signed in after a reload
    used,       \* ids that have ever been drawn or pasted
    who,        \* state.userId and state.username of every tab
    open,       \* state.userData: does the tab hold the plaintext?
    view,       \* the visible view
    busy,       \* is the sign-in form locked?
    target,     \* unlockTargetId
    prefill,    \* tryPrefill: is the credential manager still being asked?
    run,        \* the running attemptSignIn calls of every tab
    presses     \* counts towards the bound

stored == <<vault, session, used>>
vars == <<build, vault, session, used, who, open, view, busy, target, prefill, run,
          presses>>

Ids(users) == {users[i].id : i \in DOMAIN users}
Fits(rec, c) == rec.name = c.name /\ rec.pw = c.pw
FindUser(users, c) == SelectInSeq(users, LAMBDA rec : Fits(rec, c))
FindUserById(users, id) == users[SelectInSeq(users, LAMBDA rec : rec.id = id)]

\* mergeRecords for one pasted record.
MergeRecord(users, rec) ==
    IF rec.id \in Ids(users)
    THEN [i \in DOMAIN users |-> IF users[i].id = rec.id THEN rec ELSE users[i]]
    ELSE IF \E i \in DOMAIN users : users[i].salt = rec.salt
    THEN users
    ELSE Append(users, rec)

MergeRecords(users, incoming) ==
    LET merged[n \in 0 .. Len(incoming)] ==
            IF n = 0 THEN users ELSE MergeRecord(merged[n - 1], incoming[n])
    IN merged[Len(incoming)]

\* The blobs with another id, in their order.
Without(users, id) ==
    LET kept[n \in 0 .. Len(users)] ==
            IF n = 0 THEN <<>>
            ELSE IF users[n].id = id THEN kept[n - 1]
            ELSE Append(kept[n - 1], users[n])
    IN kept[Len(users)]

NewRecord(c) ==
    LET id == CHOOSE id \in FreshId \ used : TRUE
    IN [id |-> id, salt |-> id, name |-> c.name, pw |-> c.pw]

Identity(rec) == [id |-> rec.id, name |-> rec.name]

\* Mutant: signing out forgets the saved session.
SignOutLocalKeepsSession(t) ==
    /\ who' = [who EXCEPT ![t] = Nobody]
    /\ open' = [open EXCEPT ![t] = FALSE]
    /\ UNCHANGED session

SignOutLocal(t) ==
    /\ who' = [who EXCEPT ![t] = Nobody]
    /\ open' = [open EXCEPT ![t] = FALSE]
    /\ session' = Nobody

ShowView(t, v) == view' = [view EXCEPT ![t] = v]

(***************************************************************************)
(* The sign-in attempt.                                                    *)
(***************************************************************************)
NewAttempt(stage, silent, c, id, list, rec) ==
    [stage |-> stage, silent |-> silent, cred |-> c, target |-> id,
     list |-> list, rec |-> rec]

\* The tabs of the WebAssembly build whose thread derives keys, or waits for the
\* user in confirm(): nothing else happens in them.
Blocked(t) ==
    /\ build = "wasm"
    /\ \E k \in Slot : run[t][k].stage \in {"search", "unlock", "create"}

Running == {x \in Tab \X Slot : run[x[1]][x[2]] # Idle}

\* attemptSignIn up to its first await, except the blob that is gone.
StartRun(t, a) ==
    /\ Cardinality(Running) < MaxRunning
    /\ \E k \in Slot : run[t][k] = Idle
    /\ LET k == CHOOSE k \in Slot : run[t][k] = Idle
       IN run' = [run EXCEPT ![t][k] = a]
    /\ busy' = [busy EXCEPT ![t] = TRUE]

\* The unlock target was deleted meanwhile: sign out instead of blaming the
\* password.
Gone(t) == SignOutLocal(t) /\ ShowView(t, "main")

\* Mutant: the early returns leave the form locked.
EndRunLocked(t, k) ==
    /\ run' = [run EXCEPT ![t][k] = Idle]
    /\ busy' = [busy EXCEPT ![t] = run[t][k].stage # "store"]

\* The finally block: whatever the outcome, the form is unlocked.
EndRun(t, k) ==
    /\ run' = [run EXCEPT ![t][k] = Idle]
    /\ busy' = [busy EXCEPT ![t] = FALSE]

Fail(t, k) == EndRun(t, k) /\ UNCHANGED <<stored, who, open, view, target>>

\* The tab is signed in and the session saved before the password manager is
\* awaited.
SignedIn(t, k, rec) ==
    /\ who' = [who EXCEPT ![t] = Identity(rec)]
    /\ open' = [open EXCEPT ![t] = TRUE]
    /\ session' = Identity(rec)
    /\ run' = [run EXCEPT ![t][k] = [stage |-> "store", silent |-> @.silent]]
    /\ UNCHANGED <<view, busy, target>>

Hit(t, k, rec) == SignedIn(t, k, rec) /\ UNCHANGED <<vault, used>>

\* Mutant: the new record joins the list that was read when the attempt began.
AddStale(t, k) ==
    LET rec == NewRecord(run[t][k].cred)
    IN /\ FreshId \ used # {}
       /\ used' = used \cup {rec.id}
       /\ vault' \in {vault, Append(run[t][k].list, rec)}
       /\ SignedIn(t, k, rec)

\* The new record joins the vault as it is now, or, in the WebAssembly build, as
\* it was before the keys were derived; the browser may refuse to store it, and
\* the user is signed in all the same.
AddCreated(t, k) ==
    LET rec == NewRecord(run[t][k].cred)
        users == IF build = "wasm" THEN run[t][k].list ELSE vault
    IN /\ FreshId \ used # {}
       /\ used' = used \cup {rec.id}
       /\ vault' \in {vault, Append(users, rec)}
       /\ SignedIn(t, k, rec)

\* findUser ends.  A miss offers to create the user, unless the attempt is
\* silent; the WebAssembly build reads the vault once more for that.
SearchEnds(t, k) ==
    LET a == run[t][k]
        i == FindUser(a.list, a.cred)
    IN /\ a.stage = "search"
       /\ \/ i > 0 /\ Hit(t, k, a.list[i])
          \/ i = 0 /\ Fail(t, k)
          \/ /\ i = 0 /\ ~a.silent
             /\ run' = [run EXCEPT ![t][k] =
                            [a EXCEPT !.stage = "create",
                                      !.list = IF build = "wasm" THEN vault ELSE a.list]]
             /\ UNCHANGED <<stored, who, open, view, busy, target>>

\* unlockRecord of the one blob the session names; the typed name is ignored.
UnlockEnds(t, k) ==
    LET a == run[t][k]
    IN /\ a.stage = "unlock"
       /\ IF a.rec.pw = a.cred.pw THEN Hit(t, k, a.rec) ELSE Fail(t, k)

\* createRecord ends, or WebCrypto throws.
CreateEnds(t, k) ==
    /\ run[t][k].stage = "create"
    /\ AddCreated(t, k) \/ Fail(t, k)

\* storeCredential ends: back to the main view.
StoreEnds(t, k) ==
    /\ run[t][k].stage = "store"
    /\ EndRun(t, k)
    /\ ShowView(t, "main")
    /\ target' = [target EXCEPT ![t] = IF run[t][k].silent THEN @ ELSE NoId]
    /\ UNCHANGED <<stored, who, open>>

\* The WebAssembly build, after the pause that lets the form repaint: the vault
\* is read for the one blob, or for all of them.
InlineUnlock(t, k) ==
    LET a == run[t][k]
    IN /\ a.stage = "yield" /\ a.target # NoId
       /\ IF a.target \notin Ids(vault)
          THEN Gone(t) /\ EndRun(t, k) /\ UNCHANGED <<vault, used, target>>
          ELSE /\ run' = [run EXCEPT ![t][k] =
                             [@ EXCEPT !.stage = "unlock",
                                       !.rec = FindUserById(vault, a.target)]]
               /\ UNCHANGED <<stored, who, open, view, busy, target>>

InlineSignIn(t, k) ==
    /\ run[t][k].stage = "yield" /\ run[t][k].target = NoId
    /\ run' = [run EXCEPT ![t][k] = [@ EXCEPT !.stage = "search", !.list = vault]]
    /\ UNCHANGED <<stored, who, open, view, busy, target>>

\* A step of an attempt: the one that blocks its tab, or any.
Continue(t, k) ==
    /\ run[t][k] # Idle
    /\ Blocked(t) => run[t][k].stage \in {"search", "unlock", "create"}
    /\ \/ SearchEnds(t, k) \/ UnlockEnds(t, k) \/ CreateEnds(t, k)
       \/ StoreEnds(t, k) \/ InlineUnlock(t, k) \/ InlineSignIn(t, k)
    /\ UNCHANGED <<build, prefill, presses>>

(***************************************************************************)
(* What starts an attempt: the form and the credential manager.            *)
(***************************************************************************)
Begin(t, silent, c, id) ==
    IF build = "wasm"
    THEN StartRun(t, NewAttempt("yield", silent, c, id, <<>>, None))
    ELSE StartRun(t, IF id = NoId
                     THEN NewAttempt("search", silent, c, id, vault, None)
                     ELSE NewAttempt("unlock", silent, c, id, <<>>,
                                     FindUserById(vault, id)))

Submit(t, c) ==
    /\ view[t] = "signin" /\ ~busy[t]
    /\ IF build = "webcrypto" /\ target[t] # NoId /\ target[t] \notin Ids(vault)
       THEN Gone(t) /\ UNCHANGED <<busy, run>>
       ELSE Begin(t, FALSE, c, target[t]) /\ UNCHANGED <<session, who, open, view>>
    /\ UNCHANGED <<build, vault, used, target, prefill>>

\* tryPrefill after its await.  A credential of somebody else than the
\* signed-in user is left alone; a fitting one starts a silent attempt.
CredentialArrives(t) ==
    /\ prefill[t] /\ ~Blocked(t)
    /\ prefill' = [prefill EXCEPT ![t] = FALSE]
    /\ \/ UNCHANGED <<busy, run>>
       \/ \E c \in Cred : /\ who[t] # Nobody => who[t].name = c.name
                          /\ vault # <<>>
                          /\ Begin(t, TRUE, c, NoId)
    /\ UNCHANGED <<build, stored, who, open, view, target, presses>>

(***************************************************************************)
(* The other buttons.                                                      *)
(***************************************************************************)
Cancel(t) ==
    /\ view[t] = "signin"
    /\ target' = [target EXCEPT ![t] = NoId]
    /\ ShowView(t, "main")
    /\ UNCHANGED <<build, stored, who, open, busy, prefill, run>>

Account(t) ==
    /\ view[t] = "main"
    /\ IF who[t] # Nobody
       THEN SignOutLocal(t) /\ UNCHANGED <<target, view>>
       ELSE /\ target' = [target EXCEPT ![t] = NoId]
            /\ ShowView(t, "signin")
            /\ UNCHANGED <<session, who, open>>
    /\ UNCHANGED <<build, vault, used, busy, prefill, run>>

\* Shown while the tab is signed in and holds no plaintext.
PlainUnlock(t) ==
    /\ view[t] = "main" /\ who[t] # Nobody /\ ~open[t]
    /\ target' = [target EXCEPT ![t] = who[t].id]
    /\ ShowView(t, "signin")
    /\ UNCHANGED <<build, stored, who, open, busy, prefill, run>>

DeleteUser(t) ==
    /\ view[t] = "main" /\ who[t] # Nobody
    /\ vault' = Without(vault, who[t].id)
    /\ SignOutLocal(t)
    /\ UNCHANGED <<build, used, view, busy, target, prefill, run>>

DeleteAll(t) ==
    /\ view[t] = "main" /\ vault # <<>>
    /\ vault' = <<>>
    /\ SignOutLocal(t)
    /\ UNCHANGED <<build, used, view, busy, target, prefill, run>>

\* ingestRecordText; the browser may refuse to store the merged vault.
PasteRecords(t, incoming) ==
    /\ view[t] = "main"
    /\ vault' \in {vault, MergeRecords(vault, incoming)}
    /\ used' = used \cup Ids(incoming)
    /\ UNCHANGED <<build, session, who, open, view, busy, target, prefill, run>>

(***************************************************************************)
(* A reload drops everything the tab held; boot restores the session when  *)
(* its blob is still there and asks the credential manager.                *)
(***************************************************************************)
RestoreSession(t) ==
    LET live == session # Nobody /\ session.id \in Ids(vault)
    IN /\ who' = [who EXCEPT ![t] = IF live THEN session ELSE Nobody]
       /\ session' = IF live THEN session ELSE Nobody

Load(t) ==
    /\ RestoreSession(t)
    /\ open' = [open EXCEPT ![t] = FALSE]
    /\ ShowView(t, "main")
    /\ busy' = [busy EXCEPT ![t] = FALSE]
    /\ target' = [target EXCEPT ![t] = NoId]
    /\ prefill' = [prefill EXCEPT ![t] = TRUE]
    /\ run' = [run EXCEPT ![t] = [k \in Slot |-> Idle]]
    /\ UNCHANGED <<build, vault, used>>

Init ==
    /\ build \in Build
    /\ vault = <<>> /\ session = Nobody /\ used = {}
    /\ who = [t \in Tab |-> Nobody]
    /\ open = [t \in Tab |-> FALSE]
    /\ view = [t \in Tab |-> "main"]
    /\ busy = [t \in Tab |-> FALSE]
    /\ target = [t \in Tab |-> NoId]
    /\ prefill = [t \in Tab |-> TRUE]
    /\ run = [t \in Tab |-> [k \in Slot |-> Idle]]
    /\ presses = 0

User(t) ==
    /\ ~Blocked(t)
    /\ presses < MaxPresses /\ presses' = presses + 1
    /\ \/ Cancel(t) \/ Account(t) \/ PlainUnlock(t) \/ DeleteUser(t) \/ DeleteAll(t)
       \/ \E c \in Cred : Submit(t, c)
       \/ \E incoming \in Pasted : PasteRecords(t, incoming)
       \/ Load(t)

Next ==
    \E t \in Tab :
        \/ User(t)
        \/ CredentialArrives(t)
        \/ \E k \in Slot : Continue(t, k)

Spec == Init /\ [][Next]_vars

(***************************************************************************)
(* Properties.                                                             *)
(***************************************************************************)
TypeOK ==
    /\ build \in Build
    /\ vault \in Seq(Blob)
    /\ session \in Ident \cup {Nobody}
    /\ used \subseteq Id
    /\ who \in [Tab -> Ident \cup {Nobody}]
    /\ open \in [Tab -> BOOLEAN]
    /\ view \in [Tab -> {"main", "signin"}]
    /\ busy \in [Tab -> BOOLEAN]
    /\ target \in [Tab -> Id \cup {NoId}]
    /\ prefill \in [Tab -> BOOLEAN]
    /\ run \in [Tab -> [Slot -> Attempt \cup {Idle}]]
    /\ presses \in Nat

VaultEdit ==
    /\ \A rec \in ToSet(vault) \ ToSet(vault') :
          \/ rec.id \in Ids(vault')
          \/ \E t \in Tab : DeleteAll(t) \/ (DeleteUser(t) /\ who[t].id = rec.id)
    /\ \A rec \in ToSet(vault') \ ToSet(vault) :
          rec.id \in used => \E incoming \in Pasted : rec \in ToSet(incoming)

\* An attempt of the WebAssembly build ends whose vault another tab has written
\* while it derived keys.
Overtaken ==
    \E t \in Tab, k \in Slot :
        /\ build = "wasm" /\ run[t][k].stage = "create"
        /\ run[t][k].list # vault
        /\ CreateEnds(t, k)

\* No blob is lost or brought back behind the user's back: it leaves the
\* vault by the delete buttons alone, or for a pasted blob of the same id, and
\* a deleted one returns by pasting alone.  An attempt that was deriving keys
\* while other attempts and other tabs added or deleted users must not write
\* back the list it started from (app.js 412-472, 995-1013).  The WebAssembly
\* build does so when another tab was faster, and only then.
NothingLost == [][Overtaken \/ VaultEdit]_vars

\* The saved session is the identity of a tab that is signed in: whatever the
\* order of sign-outs, late sign-ins, deletions and reloads, no session is
\* left behind that would sign somebody in at the next load (app.js 314-333,
\* 397-403, 457-461, 526-537).
SessionHasOwner == session # Nobody => \E t \in Tab : who[t] = session

\* The sign-in form is locked only while an attempt runs that will unlock it:
\* no way through an attempt, no overlap of two attempts and no deletion leaves
\* a form nobody can use (setSigninBusy and the finally block, app.js 388-393,
\* 412-425, 469-471).
LockedMeansRunning ==
    \A t \in Tab : busy[t] => \E k \in Slot : run[t][k] # Idle

=============================================================================
