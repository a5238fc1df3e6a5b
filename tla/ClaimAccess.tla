----------------------------- MODULE ClaimAccess -----------------------------
(***************************************************************************)
(* Who may use the claim service when.  It lives in a mutex.  The poll      *)
(* thread waits for it; the handlers of prepare, confirm and status only    *)
(* try it, and a status that finds it taken answers from a snapshot.  Every *)
(* holder refreshes the snapshot before it lets go, unless its operation    *)
(* panics: that poisons the mutex, which the others take all the same.      *)
(*                                                                         *)
(* What an operation does is in ClaimService; here it makes one more        *)
(* version of the service's state.                                         *)
(***************************************************************************)
EXTENDS Integers

CONSTANTS
    Clients,    \* connections
    MaxVersion, \* bound on the operations
    None        \* no service, no snapshot, no holder

ASSUME AccessAssumption ==
    /\ MaxVersion \in Nat \ {0}
    /\ None \notin Nat \cup Clients \cup {"main", "poll"}
    /\ Clients \cap {"main", "poll"} = {}

VARIABLES
    hit,        \* shared: hit, absent, pending or saved
    slot,       \* shared: claim, the version of the service in it
    snapshot,   \* shared: claim_snapshot, the version it shows
    holder,     \* who holds the claim mutex
    poisoned,   \* the mutex
    main,       \* where init_claim_service is
    poll,       \* where the poll thread is; "absent" before it is spawned
    at,         \* for each connection, where its handler is
    shown,      \* the version its answer shows
    known,      \* history: the newest version answered when its request came
    answered    \* history: the newest version whose operation was answered

sharedVars == <<hit, slot, snapshot, holder, poisoned>>
clientVars == <<at, shown, known>>
vars == <<sharedVars, main, poll, clientVars, answered>>

Versions == 0 .. MaxVersion
Places == {"idle", "read", "route", "selftest",
           "status", "look", "fallback", "answer", "gate", "try", "work", "refresh"}

\* A thread holds the mutex where it works on what is in it, and nowhere else.
HolderIsAtWork ==
    /\ main = "install" <=> holder = "main"
    /\ poll \in {"work", "refresh"} <=> holder = "poll"
    /\ \A c \in Clients : at[c] \in {"look", "work", "refresh"} <=> holder = c

TypeOK ==
    /\ hit \in {"absent", "pending", "saved"}
    /\ slot \in Versions \cup {None}
    /\ snapshot \in Versions \cup {None}
    /\ holder \in Clients \cup {"main", "poll", None}
    /\ poisoned \in BOOLEAN
    /\ main \in {"search", "failed", "persist", "lock", "install", "spawn", "done"}
    /\ poll \in {"absent", "sleep", "lock", "work", "refresh", "dead"}
    /\ at \in [Clients -> Places]
    /\ shown \in [Clients -> Versions \cup {None}]
    /\ known \in [Clients -> Versions \cup {None}]
    /\ answered \in Versions \cup {None}
    /\ HolderIsAtWork

\* The order of versions; no service comes before them all.
AtLeast(a, b) == b = None \/ (a # None /\ a >= b)

Newer(a, b) == IF AtLeast(a, b) THEN a ELSE b

Init ==
    /\ hit = "absent"
    /\ slot = None
    /\ snapshot = None
    /\ holder = None
    /\ poisoned = FALSE
    /\ main = "search"
    /\ poll = "absent"
    /\ at = [c \in Clients |-> "idle"]
    /\ shown = [c \in Clients |-> None]
    /\ known = [c \in Clients |-> None]
    /\ answered = None

Lock(t) == holder = None /\ holder' = t
Release == holder' = None

\* The operation ends the thread while it holds the lock; what it has changed
\* stays.
Panic(t) ==
    /\ holder = t
    /\ Release
    /\ poisoned' = TRUE
    /\ slot' \in {slot, slot + 1}
    /\ slot' \in Versions

Operate == slot < MaxVersion /\ slot' = slot + 1

-----------------------------------------------------------------------------
(* The main thread: find, persist, then init_claim_service *)

FindHit ==
    /\ main = "search"
    /\ main' = "persist"
    /\ hit' = "pending"
    /\ UNCHANGED <<slot, snapshot, holder, poisoned, poll, clientVars, answered>>

\* set_fatal_error: the search is over without a hit.
FailSearch ==
    /\ main = "search"
    /\ main' = "failed"
    /\ UNCHANGED <<sharedVars, poll, clientVars, answered>>

SaveHit ==
    /\ main = "persist"
    /\ main' = "lock"
    /\ hit' = "saved"
    /\ UNCHANGED <<slot, snapshot, holder, poisoned, poll, clientVars, answered>>

LockSlot ==
    /\ main = "lock"
    /\ Lock("main")
    /\ main' = "install"
    /\ UNCHANGED <<hit, slot, snapshot, poisoned, poll, clientVars, answered>>

\* The service and its first snapshot.
Install ==
    /\ main = "install"
    /\ slot' = 0
    /\ snapshot' = 0
    /\ Release
    /\ main' = "spawn"
    /\ UNCHANGED <<hit, poisoned, poll, clientVars, answered>>

Spawn ==
    /\ main = "spawn"
    /\ main' = "done"
    /\ poll' = "sleep"
    /\ UNCHANGED <<sharedVars, clientVars, answered>>

-----------------------------------------------------------------------------
(* The poll thread *)

PollWakes ==
    /\ poll = "sleep"
    /\ poll' = "lock"
    /\ UNCHANGED <<sharedVars, main, clientVars, answered>>

\* FAULT: a poisoned mutex is not taken any more.
PollLockUnlessPoisoned ==
    /\ poll = "lock"
    /\ Lock("poll")
    /\ ~poisoned
    /\ poll' = "work"
    /\ UNCHANGED <<hit, slot, snapshot, poisoned, main, clientVars, answered>>

PollLock ==
    /\ poll = "lock"
    /\ Lock("poll")
    /\ poll' = "work"
    /\ UNCHANGED <<hit, slot, snapshot, poisoned, main, clientVars, answered>>

\* A poll may change the service or not.
PollWork ==
    /\ poll = "work"
    /\ Operate \/ UNCHANGED slot
    /\ poll' = "refresh"
    /\ UNCHANGED <<hit, snapshot, holder, poisoned, main, clientVars, answered>>

PollRefresh ==
    /\ poll = "refresh"
    /\ snapshot' = slot
    /\ Release
    /\ poll' = "sleep"
    /\ UNCHANGED <<hit, slot, poisoned, main, clientVars, answered>>

PollPanics ==
    /\ poll = "work"
    /\ Panic("poll")
    /\ poll' = "dead"
    /\ UNCHANGED <<hit, snapshot, main, clientVars, answered>>

-----------------------------------------------------------------------------
(* The handlers.  Each connection is one request at a time; how it comes to its      *)
(* handler is in Dashboard.                                                          *)

Go(c, place) == at' = [at EXCEPT ![c] = place]

\* current_claim_snapshot takes a free mutex for one look, and brings the
\* snapshot up to date on the way.
StatusLock(c) ==
    /\ at[c] = "status"
    /\ Lock(c)
    /\ Go(c, "look")
    /\ UNCHANGED <<hit, slot, snapshot, poisoned, main, poll, shown, known, answered>>

StatusLook(c) ==
    /\ at[c] = "look"
    /\ snapshot' = slot
    /\ shown' = [shown EXCEPT ![c] = slot]
    /\ Release
    /\ Go(c, "answer")
    /\ UNCHANGED <<hit, slot, poisoned, main, poll, known, answered>>

\* FAULT: a status waits for a taken mutex.
StatusBusyWaits(c) ==
    /\ at[c] = "status"
    /\ holder # None
    /\ UNCHANGED vars

\* A taken mutex: "busy", with the snapshot instead.
StatusBusy(c) ==
    /\ at[c] = "status"
    /\ holder # None
    /\ Go(c, "fallback")
    /\ UNCHANGED <<sharedVars, main, poll, shown, known, answered>>

StatusFallback(c) ==
    /\ at[c] = "fallback"
    /\ shown' = [shown EXCEPT ![c] = snapshot]
    /\ Go(c, "answer")
    /\ UNCHANGED <<sharedVars, main, poll, known, answered>>

\* The answer is read: what it shows is known from then on.
Answer(c) ==
    /\ at[c] = "answer"
    /\ Go(c, "idle")
    /\ answered' = Newer(answered, shown[c])
    /\ shown' = [shown EXCEPT ![c] = None]
    /\ known' = [known EXCEPT ![c] = None]
    /\ UNCHANGED <<sharedVars, main, poll>>

\* with_claim_service: the hit must be saved; a taken mutex is "busy", an empty
\* one "no claim".
Gate(c) ==
    /\ at[c] = "gate"
    /\ Go(c, IF hit = "saved" THEN "try" ELSE "answer")
    /\ UNCHANGED <<sharedVars, main, poll, shown, known, answered>>

TryLock(c) ==
    /\ at[c] = "try"
    /\ IF holder = None /\ slot # None
       THEN Lock(c) /\ Go(c, "work")
       ELSE Go(c, "answer") /\ UNCHANGED holder
    /\ UNCHANGED <<hit, slot, snapshot, poisoned, main, poll, shown, known, answered>>

Work(c) ==
    /\ at[c] = "work"
    /\ Operate \/ UNCHANGED slot
    /\ Go(c, "refresh")
    /\ UNCHANGED <<hit, snapshot, holder, poisoned, main, poll, shown, known, answered>>

\* FAULT: the lock is released before the snapshot is refreshed.
RefreshUnlocked(c) ==
    /\ at[c] = "refresh"
    /\ IF holder = c
       THEN /\ Release
            /\ shown' = [shown EXCEPT ![c] = slot]
            /\ UNCHANGED <<at, snapshot>>
       ELSE /\ snapshot' = shown[c]
            /\ Go(c, "answer")
            /\ UNCHANGED <<holder, shown>>
    /\ UNCHANGED <<hit, slot, poisoned, main, poll, known, answered>>

\* The snapshot is taken under the lock, whether the operation failed or not.
Refresh(c) ==
    /\ at[c] = "refresh"
    /\ snapshot' = slot
    /\ shown' = [shown EXCEPT ![c] = slot]
    /\ Release
    /\ Go(c, "answer")
    /\ UNCHANGED <<hit, slot, poisoned, main, poll, known, answered>>

WorkPanics(c) ==
    /\ at[c] = "work"
    /\ Panic(c)
    /\ Go(c, "idle")
    /\ known' = [known EXCEPT ![c] = None]
    /\ UNCHANGED <<hit, snapshot, main, poll, shown, answered>>

-----------------------------------------------------------------------------

Main == FindHit \/ FailSearch \/ SaveHit \/ LockSlot \/ Install \/ Spawn

PollThread == PollWakes \/ PollLock \/ PollWork \/ PollRefresh

-----------------------------------------------------------------------------
(* Safety *)

\* A status never goes back: it shows what had been answered when its request
\* came, or something newer, also when it falls back on the snapshot, and also
\* after a panic.
StatusNeverGoesBack ==
    \A c \in Clients : at[c] = "answer" /\ shown[c] # None => AtLeast(shown[c], known[c])

=============================================================================
