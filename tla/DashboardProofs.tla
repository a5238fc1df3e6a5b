--------------------------- MODULE DashboardProofs ---------------------------
(***************************************************************************)
(* For every set of connections, every request they may send in whatever   *)
(* pieces, and any number of operations: a status never goes back, a       *)
(* handler gets exactly the requests that are whole and within the limits, *)
(* and an answer tells whether its request has changed anything.           *)
(***************************************************************************)
EXTENDS Dashboard, TLAPS

-----------------------------------------------------------------------------
(* The inductive invariant, in parts *)

\* The service is there, with a snapshot, once it is installed, and then only.
ServiceIsInstalled ==
    /\ slot # None <=> main \in {"spawn", "done"}
    /\ snapshot # None <=> slot # None
    /\ poll # "absent" => main = "done"
    /\ \A c \in Clients : at[c] \in {"work", "refresh"} => slot # None

\* What has been answered is not newer than the snapshot, and the snapshot not newer
\* than the service: after a panic the service may be ahead.
VersionsAreOrdered ==
    /\ AtLeast(slot, snapshot)
    /\ AtLeast(snapshot, answered)
    /\ \A c \in Clients :
         /\ AtLeast(answered, known[c])
         /\ AtLeast(snapshot, shown[c])
         /\ shown[c] # None => at[c] = "answer"

AccessInv ==
    TypeOK /\ ServiceIsInstalled /\ VersionsAreOrdered /\ StatusNeverGoesBack

WebTypeOK ==
    /\ request \in [Clients -> Request \cup {None}]
    /\ received \in [Clients -> Nat]
    /\ reply \in [Clients -> Errors \cup Refusals \cup {"ok", "selftest_failed", None}]
    /\ acted \subseteq Clients
    /\ \A c \in Clients :
         /\ request[c] = None <=> at[c] = "idle"
         /\ reply[c] # None <=> at[c] = "answer"

\* Where a request is in its handling tells how much of it has been read.
ReadingInv ==
    \A c \in Clients :
      LET r == request[c]
      IN  /\ at[c] = "idle" => received[c] = 0
          /\ at[c] # "idle" => received[c] <= Size(r)
          /\ at[c] = "read" => ~IsRefused(r, received[c]) /\ ~IsWhole(r, received[c])
          /\ at[c] \notin {"idle", "read"} /\ reply[c] # "unreadable" =>
               IsWhole(r, received[c])
          /\ reply[c] = "unreadable" =>
               /\ ~IsWhole(r, received[c])
               /\ IsRefused(r, received[c]) \/ r \in Slow \/ received[c] = Size(r)

\* Where a request is in its handling tells what it may do and what it has done.
ActingInv ==
    \A c \in Clients :
      /\ c \in acted => at[c] \in {"selftest", "refresh", "answer"}
      /\ at[c] \in {"selftest", "refresh"} => c \in acted
      /\ at[c] \in {"gate", "try", "work"} => MayAct(request[c])
      /\ at[c] \in {"status", "look", "fallback"} => request[c].method = "GET"

DashboardInv == AccessInv /\ WebTypeOK /\ ReadingInv /\ ActingInv /\ AnswersAreTrue

-----------------------------------------------------------------------------
(* What the server does to the state of ClaimAccess *)

\* A request comes.
Arrives(c) ==
    /\ at[c] = "idle"
    /\ Go(c, "read")
    /\ known' = [known EXCEPT ![c] = answered]
    /\ UNCHANGED <<sharedVars, main, poll, shown, answered>>

\* It is read, routed or answered by a handler that does not look at the claim.
Moves(c) ==
    /\ at[c] \in {"read", "route", "selftest"}
    /\ \E place \in {"route", "selftest", "status", "gate", "answer"} : Go(c, place)
    /\ UNCHANGED <<sharedVars, main, poll, shown, known, answered>>

ClaimHandler(c) ==
    \/ StatusLock(c) \/ StatusLook(c) \/ StatusBusy(c) \/ StatusFallback(c) \/ Answer(c)
    \/ Gate(c) \/ TryLock(c) \/ Work(c) \/ Refresh(c) \/ WorkPanics(c)

AccessNext ==
    \/ Main \/ PollThread \/ PollPanics
    \/ \E c \in Clients : Arrives(c) \/ Moves(c) \/ ClaimHandler(c)

\* A step of the server is one of these for the state of ClaimAccess.
LEMMA ServerSteps == [DashboardNext]_allVars => [AccessNext]_vars
<1>. SUFFICES ASSUME [DashboardNext]_allVars PROVE [AccessNext]_vars
  OBVIOUS
<1>. USE DEF Keep, Answers, Route, sharedVars, clientVars, vars
<1>1. CASE UNCHANGED allVars
  BY <1>1 DEF allVars
<1>2. CASE Main \/ PollThread \/ PollPanics
  BY <1>2 DEF AccessNext
<1>3. ASSUME NEW c \in Clients, NEW r \in Requests[c], Connect(c, r) PROVE Arrives(c)
  BY <1>3 DEF Connect, Arrives
<1>4. ASSUME NEW c \in Clients, Reading(c) PROVE Moves(c) \/ UNCHANGED vars
  <2>1. CASE Read(c)
    <3>1. PICK n \in 1 .. Buffer :
            CASE IsRefused(request[c], received[c] + n) ->
                   Go(c, "answer") /\ Reply(c, "unreadable")
              [] IsWhole(request[c], received[c] + n) -> Go(c, "route") /\ UNCHANGED reply
              [] OTHER -> UNCHANGED <<at, reply>>
      BY <2>1 DEF Read
    <3>. QED
      BY <2>1, <3>1 DEF Read, Moves
  <2>2. CASE ReadFails(c)
    BY <2>2 DEF ReadFails, Moves
  <2>. QED
    BY <1>4, <2>1, <2>2 DEF Reading
<1>5. ASSUME NEW c \in Clients, Routing(c) PROVE Moves(c)
  <2>1. CASE Refuse(c) \/ SendPage(c) \/ NotFound(c) \/ RouteStatus(c)
    BY <2>1 DEF Refuse, SendPage, NotFound, RouteStatus, Moves
  <2>2. CASE Start(c) \/ Stop(c) \/ SetMode(c)
    BY <2>2 DEF Start, Stop, SetMode, Moves
  <2>3. CASE StartSelfTest(c) \/ EndSelfTest(c) \/ RouteClaim(c)
    BY <2>3 DEF StartSelfTest, EndSelfTest, RouteClaim, Moves
  <2>. QED
    BY <1>5, <2>1, <2>2, <2>3 DEF Routing
<1>6. ASSUME NEW c \in Clients, Handling(c) \/ Working(c) \/ Breaks(c) PROVE ClaimHandler(c)
  BY <1>6 DEF Handling, StatusStep, ClaimGate, ClaimTryLock, ClaimRefresh, Close, Working,
       ClaimWork, Breaks, ClaimHandler
<1>. QED
  BY <1>1, <1>2, <1>3, <1>4, <1>5, <1>6 DEF DashboardNext, AccessNext

-----------------------------------------------------------------------------
(* The order of versions *)

Version == Versions \cup {None}

\* The versions, with no service before them all, are ordered.
LEMMA OrderOfVersions ==
    ASSUME NEW a \in Version, NEW b \in Version, NEW d \in Version
    PROVE  /\ AtLeast(a, a)
           /\ AtLeast(a, b) /\ AtLeast(b, d) => AtLeast(a, d)
           /\ Newer(a, b) \in Version
           /\ AtLeast(Newer(a, b), a) /\ AtLeast(Newer(a, b), b)
           /\ AtLeast(d, a) /\ AtLeast(d, b) => AtLeast(d, Newer(a, b))
           /\ AtLeast(a, None)
           /\ AtLeast(None, a) => a = None
BY AccessAssumption DEF Version, Versions, AtLeast, Newer

-----------------------------------------------------------------------------
(* Access to the claim *)

\* The mutex has one holder: what a thread does with it keeps the others out.
LEMMA OneHolder ==
    TypeOK /\ ServiceIsInstalled /\ [AccessNext]_vars => HolderIsAtWork'
<1>. SUFFICES ASSUME TypeOK, ServiceIsInstalled, [AccessNext]_vars PROVE HolderIsAtWork'
  OBVIOUS
<1>a. HolderIsAtWork /\ at \in [Clients -> Places]
  BY DEF TypeOK
<1>b. /\ None \notin Clients /\ None # "main" /\ None # "poll"
      /\ "main" \notin Clients /\ "poll" \notin Clients
  BY AccessAssumption
<1>. USE DEF HolderIsAtWork, sharedVars, clientVars, Lock, Release, Panic, Go
<1>1. CASE FindHit
  BY <1>1, <1>a, <1>b DEF FindHit
<1>2. CASE FailSearch
  BY <1>2, <1>a, <1>b DEF FailSearch
<1>3. CASE SaveHit
  BY <1>3, <1>a, <1>b DEF SaveHit
<1>4. CASE LockSlot
  BY <1>4, <1>a, <1>b DEF LockSlot
<1>5. CASE Install
  BY <1>5, <1>a, <1>b DEF Install
<1>6. CASE Spawn
  <2>1. ~(poll \in {"work", "refresh"})
    BY <1>6 DEF ServiceIsInstalled, Spawn
  <2>. QED
    BY <1>6, <2>1, <1>a, <1>b DEF Spawn
<1>7. CASE PollWakes
  BY <1>7, <1>a, <1>b DEF PollWakes
<1>8. CASE PollLock
  BY <1>8, <1>a, <1>b DEF PollLock
<1>9. CASE PollWork
  BY <1>9, <1>a, <1>b DEF PollWork
<1>10. CASE PollRefresh
  BY <1>10, <1>a, <1>b DEF PollRefresh
<1>11. CASE PollPanics
  BY <1>11, <1>a, <1>b DEF PollPanics
<1>12. ASSUME NEW c \in Clients, Arrives(c) PROVE HolderIsAtWork'
  BY <1>12, <1>a, <1>b DEF Arrives
<1>13. ASSUME NEW c \in Clients, Moves(c) PROVE HolderIsAtWork'
  BY <1>13, <1>a, <1>b DEF Moves
<1>14. ASSUME NEW c \in Clients, StatusLock(c) PROVE HolderIsAtWork'
  BY <1>14, <1>a, <1>b DEF StatusLock
<1>15. ASSUME NEW c \in Clients, StatusLook(c) PROVE HolderIsAtWork'
  BY <1>15, <1>a, <1>b DEF StatusLook
<1>16. ASSUME NEW c \in Clients, StatusBusy(c) PROVE HolderIsAtWork'
  BY <1>16, <1>a, <1>b DEF StatusBusy
<1>17. ASSUME NEW c \in Clients, StatusFallback(c) PROVE HolderIsAtWork'
  BY <1>17, <1>a, <1>b DEF StatusFallback
<1>18. ASSUME NEW c \in Clients, Answer(c) PROVE HolderIsAtWork'
  BY <1>18, <1>a, <1>b DEF Answer
<1>19. ASSUME NEW c \in Clients, Gate(c) PROVE HolderIsAtWork'
  BY <1>19, <1>a, <1>b DEF Gate
<1>20. ASSUME NEW c \in Clients, TryLock(c) PROVE HolderIsAtWork'
  BY <1>20, <1>a, <1>b DEF TryLock
<1>21. ASSUME NEW c \in Clients, Work(c) PROVE HolderIsAtWork'
  BY <1>21, <1>a, <1>b DEF Work
<1>22. ASSUME NEW c \in Clients, Refresh(c) PROVE HolderIsAtWork'
  BY <1>22, <1>a, <1>b DEF Refresh
<1>23. ASSUME NEW c \in Clients, WorkPanics(c) PROVE HolderIsAtWork'
  BY <1>23, <1>a, <1>b DEF WorkPanics
<1>24. CASE UNCHANGED vars
  BY <1>24, <1>a DEF vars
<1>. QED
  BY <1>1, <1>2, <1>3, <1>4, <1>5, <1>6, <1>7, <1>8, <1>9, <1>10, <1>11, <1>12,
     <1>13, <1>14, <1>15, <1>16, <1>17, <1>18, <1>19, <1>20, <1>21, <1>22, <1>23,
     <1>24
     DEF AccessNext, Main, PollThread, ClaimHandler

\* One holder at a time, and every version where it belongs.
THEOREM AccessStep == AccessInv /\ [AccessNext]_vars => AccessInv'
<1>. SUFFICES ASSUME AccessInv, [AccessNext]_vars PROVE AccessInv'
  OBVIOUS
<1>a. /\ None \notin Nat /\ None \notin Clients /\ None # "main" /\ None # "poll"
      /\ "main" \notin Clients /\ "poll" \notin Clients
      /\ MaxVersion \in Nat
  BY AccessAssumption
<1>b. HolderIsAtWork'
  BY OneHolder DEF AccessInv
<1>. USE DEF AccessInv, TypeOK, HolderIsAtWork, ServiceIsInstalled, VersionsAreOrdered,
     StatusNeverGoesBack, Versions, Places, sharedVars, clientVars, Lock, Release, Operate,
     Panic, Go, AtLeast
<1>1. CASE FindHit
  BY <1>1, <1>a DEF FindHit
<1>2. CASE FailSearch
  BY <1>2, <1>a DEF FailSearch
<1>3. CASE SaveHit
  BY <1>3, <1>a DEF SaveHit
<1>4. CASE LockSlot
  BY <1>4, <1>a DEF LockSlot
<1>5. CASE Install
  <2>1. TypeOK'
    <3>1. poisoned' \in BOOLEAN
      BY <1>5 DEF Install
    <3>. QED
      BY <1>5, <1>a, <1>b, <3>1 DEF Install
  <2>2. ServiceIsInstalled'
    BY <1>5, <1>a DEF Install
  <2>3. VersionsAreOrdered'
    BY <1>5, <1>a DEF Install
  <2>4. StatusNeverGoesBack'
    BY <1>5, <1>a DEF Install
  <2>. QED
    BY <2>1, <2>2, <2>3, <2>4
<1>6. CASE Spawn
  BY <1>6, <1>a DEF Spawn
<1>7. CASE PollWakes
  BY <1>7, <1>a DEF PollWakes
<1>8. CASE PollLock
  BY <1>8, <1>a DEF PollLock
<1>9. CASE PollWork
  BY <1>9, <1>a DEF PollWork
<1>10. CASE PollRefresh
  <2>1. TypeOK'
    <3>1. poisoned' \in BOOLEAN
      BY <1>10 DEF PollRefresh
    <3>. QED
      BY <1>10, <1>a, <1>b, <3>1 DEF PollRefresh
  <2>2. ServiceIsInstalled'
    BY <1>10, <1>a DEF PollRefresh
  <2>3. VersionsAreOrdered'
    BY <1>10, <1>a DEF PollRefresh
  <2>4. StatusNeverGoesBack'
    BY <1>10, <1>a DEF PollRefresh
  <2>. QED
    BY <2>1, <2>2, <2>3, <2>4
<1>11. CASE PollPanics
  <2>1. TypeOK'
    <3>1. poisoned' \in BOOLEAN
      BY <1>11 DEF PollPanics
    <3>. QED
      BY <1>11, <1>a, <1>b, <3>1 DEF PollPanics
  <2>2. ServiceIsInstalled'
    BY <1>11, <1>a DEF PollPanics
  <2>3. VersionsAreOrdered'
    BY <1>11, <1>a DEF PollPanics
  <2>4. StatusNeverGoesBack'
    BY <1>11, <1>a DEF PollPanics
  <2>. QED
    BY <2>1, <2>2, <2>3, <2>4
<1>12. ASSUME NEW c \in Clients, Arrives(c) PROVE AccessInv'
  BY <1>12, <1>a DEF Arrives
<1>13. ASSUME NEW c \in Clients, Moves(c) PROVE AccessInv'
  BY <1>13, <1>a DEF Moves
<1>14. ASSUME NEW c \in Clients, StatusLock(c) PROVE AccessInv'
  <2>1. TypeOK'
    <3>1. poisoned' \in BOOLEAN
      BY <1>14 DEF StatusLock
    <3>. QED
      BY <1>14, <1>a, <1>b, <3>1 DEF StatusLock
  <2>2. ServiceIsInstalled'
    BY <1>14, <1>a DEF StatusLock
  <2>3. VersionsAreOrdered'
    BY <1>14, <1>a DEF StatusLock
  <2>4. StatusNeverGoesBack'
    BY <1>14, <1>a DEF StatusLock
  <2>. QED
    BY <2>1, <2>2, <2>3, <2>4
<1>15. ASSUME NEW c \in Clients, StatusLook(c) PROVE AccessInv'
  <2>1. TypeOK'
    <3>1. poisoned' \in BOOLEAN
      BY <1>15 DEF StatusLook
    <3>. QED
      BY <1>15, <1>a, <1>b, <3>1 DEF StatusLook
  <2>2. ServiceIsInstalled'
    BY <1>15, <1>a DEF StatusLook
  <2>3. VersionsAreOrdered'
    BY <1>15, <1>a DEF StatusLook
  <2>4. StatusNeverGoesBack'
    BY <1>15, <1>a DEF StatusLook
  <2>. QED
    BY <2>1, <2>2, <2>3, <2>4
<1>16. ASSUME NEW c \in Clients, StatusBusy(c) PROVE AccessInv'
  BY <1>16, <1>a DEF StatusBusy
<1>17. ASSUME NEW c \in Clients, StatusFallback(c) PROVE AccessInv'
  BY <1>17, <1>a DEF StatusFallback
<1>18. ASSUME NEW c \in Clients, Answer(c) PROVE AccessInv'
  <2>1. TypeOK'
    <3>1. poisoned' \in BOOLEAN
      BY <1>18 DEF Answer
    <3>2. answered' \in Versions \cup {None}
      BY <1>18, <1>a DEF Answer, Newer
    <3>. QED
      BY <1>18, <1>a, <1>b, <3>1, <3>2 DEF Answer
  <2>2. ServiceIsInstalled'
    BY <1>18, <1>a DEF Answer
  <2>3. VersionsAreOrdered'
    <3>1. AtLeast(snapshot, shown[c]) /\ AtLeast(snapshot, answered)
      OBVIOUS
    <3>2. /\ AtLeast(answered', answered)
          /\ AtLeast(snapshot, answered')
      BY <1>18, <1>a, <3>1 DEF Answer, Newer
    <3>3. answered' \in Versions \cup {None}
      BY <1>18, <1>a DEF Answer, Newer
    <3>4. ASSUME NEW d \in Clients PROVE AtLeast(answered', known'[d])
      <4>1. /\ AtLeast(answered, known[d]) /\ AtLeast(answered', answered)
            /\ answered \in Version /\ known[d] \in Version /\ answered' \in Version
        BY <3>2, <3>3 DEF Version
      <4>. HIDE DEF AtLeast, AccessInv
      <4>2. AtLeast(answered', known[d])
        BY <4>1, OrderOfVersions
      <4>. QED
        BY <1>18, <3>3, <4>2, OrderOfVersions DEF Answer, Version
    <3>5. ASSUME NEW d \in Clients
          PROVE  AtLeast(snapshot', shown'[d]) /\ (shown'[d] # None => at'[d] = "answer")
      BY <1>18, <1>a DEF Answer
    <3>6. AtLeast(slot', snapshot') /\ AtLeast(snapshot', answered')
      BY <1>18, <3>2 DEF Answer
    <3>. QED
      BY <3>4, <3>5, <3>6
  <2>4. StatusNeverGoesBack'
    BY <1>18, <1>a DEF Answer
  <2>. QED
    BY <2>1, <2>2, <2>3, <2>4
<1>19. ASSUME NEW c \in Clients, Gate(c) PROVE AccessInv'
  BY <1>19, <1>a DEF Gate
<1>20. ASSUME NEW c \in Clients, TryLock(c) PROVE AccessInv'
  <2>1. TypeOK'
    <3>1. poisoned' \in BOOLEAN
      BY <1>20 DEF TryLock
    <3>. QED
      BY <1>20, <1>a, <1>b, <3>1 DEF TryLock
  <2>2. ServiceIsInstalled'
    BY <1>20, <1>a DEF TryLock
  <2>3. VersionsAreOrdered'
    BY <1>20, <1>a DEF TryLock
  <2>4. StatusNeverGoesBack'
    BY <1>20, <1>a DEF TryLock
  <2>. QED
    BY <2>1, <2>2, <2>3, <2>4
<1>21. ASSUME NEW c \in Clients, Work(c) PROVE AccessInv'
  BY <1>21, <1>a DEF Work
<1>22. ASSUME NEW c \in Clients, Refresh(c) PROVE AccessInv'
  <2>1. TypeOK'
    <3>1. poisoned' \in BOOLEAN
      BY <1>22 DEF Refresh
    <3>. QED
      BY <1>22, <1>a, <1>b, <3>1 DEF Refresh
  <2>2. ServiceIsInstalled'
    BY <1>22, <1>a DEF Refresh
  <2>3. VersionsAreOrdered'
    BY <1>22, <1>a DEF Refresh
  <2>4. StatusNeverGoesBack'
    BY <1>22, <1>a DEF Refresh
  <2>. QED
    BY <2>1, <2>2, <2>3, <2>4
<1>23. ASSUME NEW c \in Clients, WorkPanics(c) PROVE AccessInv'
  <2>1. TypeOK'
    <3>1. poisoned' \in BOOLEAN
      BY <1>23 DEF WorkPanics
    <3>. QED
      BY <1>23, <1>a, <1>b, <3>1 DEF WorkPanics
  <2>2. ServiceIsInstalled'
    BY <1>23, <1>a DEF WorkPanics
  <2>3. VersionsAreOrdered'
    BY <1>23, <1>a DEF WorkPanics
  <2>4. StatusNeverGoesBack'
    BY <1>23, <1>a DEF WorkPanics
  <2>. QED
    BY <2>1, <2>2, <2>3, <2>4
<1>24. CASE UNCHANGED vars
  BY <1>24 DEF vars
<1>. QED
  BY <1>1, <1>2, <1>3, <1>4, <1>5, <1>6, <1>7, <1>8, <1>9, <1>10, <1>11, <1>12,
     <1>13, <1>14, <1>15, <1>16, <1>17, <1>18, <1>19, <1>20, <1>21, <1>22, <1>23,
     <1>24
     DEF AccessNext, Main, PollThread, ClaimHandler

\* No claim, no connection, no version.
LEMMA AccessInit == Init => AccessInv
BY AccessAssumption DEF Init, AccessInv, TypeOK, HolderIsAtWork, ServiceIsInstalled,
   VersionsAreOrdered, StatusNeverGoesBack, AtLeast, Versions, Places

\* Whatever the connections ask for, a status shows what had been answered when its
\* request came, or something newer; and that, the types and the mutual exclusion hold in
\* every state.
THEOREM AccessIsSafe == DashboardSpec => []AccessInv
<1>1. DashboardInit => AccessInv
  BY AccessInit DEF DashboardInit
<1>2. AccessInv /\ [DashboardNext]_allVars => AccessInv'
  BY AccessStep, ServerSteps
<1>. QED
  BY <1>1, <1>2, PTL DEF DashboardSpec

\* A status never goes back, also when it falls back on the snapshot and after a panic.
THEOREM StatusIsMonotone == DashboardSpec => []StatusNeverGoesBack
<1>1. AccessInv => StatusNeverGoesBack
  BY DEF AccessInv
<1>. QED
  BY <1>1, AccessIsSafe, PTL

-----------------------------------------------------------------------------
(* Reading *)

\* Nothing is refused or taken before its first byte.
LEMMA NothingIsRead ==
    ASSUME NEW r \in Request PROVE ~IsRefused(r, 0) /\ ~IsWhole(r, 0) /\ 0 <= Size(r)
BY DashboardAssumption DEF Request, IsRefused, IsWhole, HeadersTooLarge, HeadersEnd, Size

\* What the loop decides is what a reader of the whole request would.
LEMMA Decision ==
    ASSUME NEW r \in Request, NEW n \in Nat, n <= Size(r)
    PROVE  /\ Declared(r) \in Nat \/ r.length = Malformed
           /\ IsWhole(r, n) => Acceptable(r) /\ n >= r.header + Blank + Declared(r)
           /\ ~IsWhole(r, n) /\ Acceptable(r) /\ r.header + Blank <= MaxHeader + 1 =>
                n < r.header + Blank + Declared(r) /\ ~IsRefused(r, n) /\ n # Size(r)
           /\ ~IsWhole(r, n) /\ ~IsRefused(r, n) => n < MaxHeader + Blank + MaxBody
<1>1. /\ r.header \in Nat /\ r.body \in Nat /\ r.length \in Nat \cup {None, Malformed}
      /\ MaxHeader \in Nat /\ MaxBody \in Nat /\ Blank \in Nat \ {0}
      /\ None \notin Nat /\ Malformed \notin Nat /\ Malformed # None
  BY DashboardAssumption, AccessAssumption DEF Request
<1>2. Declared(r) \in Nat \/ r.length = Malformed
  BY <1>1 DEF Declared
<1>. QED
  BY <1>1, <1>2 DEF IsWhole, IsRefused, HeadersTooLarge, HeadersEnd, BadLength, Acceptable,
     Size

\* What one read of the socket does.
LEMMA ReadStep ==
    ASSUME NEW c \in Clients, Read(c)
    PROVE  \E n \in 1 .. Buffer :
             LET got == received[c] + n
             IN  /\ at[c] = "read"
                 /\ got <= Size(request[c])
                 /\ received' = [received EXCEPT ![c] = got]
                 /\ \/ /\ IsRefused(request[c], got)
                       /\ Go(c, "answer") /\ Reply(c, "unreadable")
                    \/ /\ ~IsRefused(request[c], got) /\ IsWhole(request[c], got)
                       /\ Go(c, "route") /\ UNCHANGED reply
                    \/ /\ ~IsRefused(request[c], got) /\ ~IsWhole(request[c], got)
                       /\ UNCHANGED <<at, reply>>
                 /\ UNCHANGED <<sharedVars, main, poll, shown, known, answered, request,
                                selftest, acted>>
<1>1. PICK n \in 1 .. Buffer :
        LET got == received[c] + n
        IN  /\ got <= Size(request[c])
            /\ received' = [received EXCEPT ![c] = got]
            /\ CASE IsRefused(request[c], got) -> Go(c, "answer") /\ Reply(c, "unreadable")
                 [] IsWhole(request[c], got) -> Go(c, "route") /\ UNCHANGED reply
                 [] OTHER -> UNCHANGED <<at, reply>>
  BY DEF Read
<1>2. /\ at[c] = "read"
      /\ UNCHANGED <<sharedVars, main, poll, shown, known, answered, request, selftest, acted>>
  BY DEF Read
<1>3. ~IsRefused(request[c], received[c] + n) \/ ~IsWhole(request[c], received[c] + n)
  BY DEF IsWhole
<1>. QED
  BY <1>1, <1>2, <1>3

-----------------------------------------------------------------------------
(* The state of a connection *)

\* A connection without a request is idle, and one with an answer is about to end.
THEOREM WebTypeStep ==
    AccessInv /\ WebTypeOK /\ [DashboardNext]_allVars => WebTypeOK'
<1>. SUFFICES ASSUME AccessInv, WebTypeOK, [DashboardNext]_allVars PROVE WebTypeOK'
  OBVIOUS
<1>a. at \in [Clients -> Places]
  BY DEF AccessInv, TypeOK
<1>b. /\ None \notin Request /\ \A c \in Clients : Requests[c] \subseteq Request
      /\ None \notin Errors \cup Refusals \cup {"ok", "selftest_failed"}
      /\ Buffer \in Nat
  BY DashboardAssumption, ErrorsAssumption
<1>c. \A r \in Request : Admission(r) \in Refusals \cup {"ok"}
  BY DEF Admission, ClaimDecision, Refusals
<1>. USE DEF WebTypeOK, Places, Refusals, Keep, Answers, Route, Go, Reply, Acts, Unrouted,
     webVars, vars, sharedVars, clientVars
<1>1. CASE (Main \/ PollThread \/ PollPanics) /\ UNCHANGED webVars
  BY <1>1, <1>a, <1>b, <1>c DEF Main, FindHit, FailSearch, SaveHit, LockSlot, Install, Spawn,
       PollThread, PollWakes, PollLock, PollWork, PollRefresh, PollPanics
<1>2. ASSUME NEW c \in Clients, NEW r \in Requests[c], Connect(c, r) PROVE WebTypeOK'
  BY <1>2, <1>a, <1>b, <1>c DEF Connect
<1>3. ASSUME NEW c \in Clients, Read(c) PROVE WebTypeOK'
  <2>1. PICK n \in 1 .. Buffer :
          /\ at[c] = "read"
          /\ received' = [received EXCEPT ![c] = received[c] + n]
          /\ \/ Go(c, "answer") /\ Reply(c, "unreadable")
             \/ Go(c, "route") /\ UNCHANGED reply
             \/ UNCHANGED <<at, reply>>
          /\ UNCHANGED <<request, acted>>
    BY <1>3, ReadStep
  <2>2. received' \in [Clients -> Nat]
    BY <2>1, <1>b
  <2>. QED
    BY <2>1, <2>2, <1>a, <1>b
<1>4. ASSUME NEW c \in Clients, ReadFails(c) PROVE WebTypeOK'
  BY <1>4, <1>a, <1>b, <1>c DEF ReadFails
<1>5. ASSUME NEW c \in Clients, Refuse(c) PROVE WebTypeOK'
  BY <1>5, <1>a, <1>b, <1>c DEF Refuse
<1>6. ASSUME NEW c \in Clients, SendPage(c) PROVE WebTypeOK'
  BY <1>6, <1>a, <1>b, <1>c DEF SendPage
<1>7. ASSUME NEW c \in Clients, NotFound(c) PROVE WebTypeOK'
  BY <1>7, <1>a, <1>b, <1>c DEF NotFound
<1>8. ASSUME NEW c \in Clients, RouteStatus(c) PROVE WebTypeOK'
  BY <1>8, <1>a, <1>b, <1>c DEF RouteStatus
<1>9. ASSUME NEW c \in Clients, Start(c) PROVE WebTypeOK'
  BY <1>9, <1>a, <1>b, <1>c DEF Start
<1>10. ASSUME NEW c \in Clients, Stop(c) PROVE WebTypeOK'
  BY <1>10, <1>a, <1>b, <1>c DEF Stop
<1>11. ASSUME NEW c \in Clients, SetMode(c) PROVE WebTypeOK'
  BY <1>11, <1>a, <1>b, <1>c DEF SetMode
<1>12. ASSUME NEW c \in Clients, StartSelfTest(c) PROVE WebTypeOK'
  BY <1>12, <1>a, <1>b, <1>c DEF StartSelfTest
<1>13. ASSUME NEW c \in Clients, EndSelfTest(c) PROVE WebTypeOK'
  BY <1>13, <1>a, <1>b, <1>c DEF EndSelfTest
<1>14. ASSUME NEW c \in Clients, RouteClaim(c) PROVE WebTypeOK'
  BY <1>14, <1>a, <1>b, <1>c DEF RouteClaim
<1>15. ASSUME NEW c \in Clients, StatusStep(c) /\ Unrouted /\ UNCHANGED acted PROVE WebTypeOK'
  BY <1>15, <1>a, <1>b, <1>c DEF StatusStep, StatusLock, StatusBusy, StatusLook, StatusFallback
<1>16. ASSUME NEW c \in Clients, ClaimGate(c) /\ Unrouted PROVE WebTypeOK'
  BY <1>16, <1>a, <1>b, <1>c DEF ClaimGate, Gate
<1>17. ASSUME NEW c \in Clients, ClaimTryLock(c) /\ Unrouted PROVE WebTypeOK'
  BY <1>17, <1>a, <1>b, <1>c DEF ClaimTryLock, TryLock
<1>18. ASSUME NEW c \in Clients, ClaimRefresh(c) /\ Unrouted PROVE WebTypeOK'
  BY <1>18, <1>a, <1>b, <1>c DEF ClaimRefresh, Refresh
<1>19. ASSUME NEW c \in Clients, Close(c) PROVE WebTypeOK'
  BY <1>19, <1>a, <1>b, <1>c DEF Close, Answer
<1>20. ASSUME NEW c \in Clients, ClaimWork(c) /\ Unrouted PROVE WebTypeOK'
  BY <1>20, <1>a, <1>b, <1>c DEF ClaimWork, Work
<1>21. ASSUME NEW c \in Clients, Breaks(c) PROVE WebTypeOK'
  BY <1>21, <1>a, <1>b, <1>c DEF Breaks, WorkPanics
<1>22. CASE UNCHANGED allVars
  BY <1>22, <1>a, <1>b, <1>c DEF allVars
<1>. QED
  BY <1>1, <1>2, <1>3, <1>4, <1>5, <1>6, <1>7, <1>8, <1>9, <1>10, <1>11, <1>12,
     <1>13, <1>14, <1>15, <1>16, <1>17, <1>18, <1>19, <1>20, <1>21, <1>22
     DEF DashboardNext, Reading, Routing, Handling, Working

\* Only the steps that read touch what is known of a request, and the others leave the
\* reading when they move it on.
THEOREM ReadingSteps ==
    AccessInv /\ WebTypeOK /\ ReadingInv /\ [DashboardNext]_allVars => ReadingInv'
<1>. SUFFICES ASSUME AccessInv, WebTypeOK, ReadingInv, [DashboardNext]_allVars
              PROVE  ReadingInv'
  OBVIOUS
<1>a. at \in [Clients -> Places]
  BY DEF AccessInv, TypeOK
<1>b. /\ None \notin Request /\ \A c \in Clients : Requests[c] \subseteq Request
      /\ None \notin Errors \cup Refusals \cup {"ok", "selftest_failed"}
      /\ "unreadable" \notin Errors
      /\ Buffer \in Nat
  BY DashboardAssumption, ErrorsAssumption DEF Refusals
<1>c. \A r \in Request : Admission(r) \in Refusals \cup {"ok"} /\ Admission(r) # "unreadable"
  BY DEF Admission, ClaimDecision, Refusals
<1>. USE DEF WebTypeOK, ReadingInv, Refusals, Keep, Answers, Route, Go, Reply, Acts, Unrouted,
     webVars, vars, sharedVars, clientVars
<1>1. CASE (Main \/ PollThread \/ PollPanics) /\ UNCHANGED webVars
  BY <1>1, <1>a, <1>b, <1>c DEF Main, FindHit, FailSearch, SaveHit, LockSlot, Install, Spawn,
       PollThread, PollWakes, PollLock, PollWork, PollRefresh, PollPanics
<1>2. ASSUME NEW c \in Clients, NEW r \in Requests[c], Connect(c, r) PROVE ReadingInv'
  BY <1>2, <1>a, <1>b, NothingIsRead DEF Connect
<1>3. ASSUME NEW c \in Clients, Read(c) PROVE ReadingInv'
  <2>1. PICK n \in 1 .. Buffer :
             LET got == received[c] + n
             IN  /\ at[c] = "read"
                 /\ got <= Size(request[c])
                 /\ received' = [received EXCEPT ![c] = got]
                 /\ \/ /\ IsRefused(request[c], got)
                       /\ Go(c, "answer") /\ Reply(c, "unreadable")
                    \/ /\ ~IsRefused(request[c], got) /\ IsWhole(request[c], got)
                       /\ Go(c, "route") /\ UNCHANGED reply
                    \/ /\ ~IsRefused(request[c], got) /\ ~IsWhole(request[c], got)
                       /\ UNCHANGED <<at, reply>>
                 /\ UNCHANGED request
    BY <1>3, ReadStep
  <2>2. IsRefused(request[c], received[c] + n) => ~IsWhole(request[c], received[c] + n)
    BY DEF IsWhole
  <2>. QED
    BY <2>1, <2>2, <1>a, <1>b
<1>4. ASSUME NEW c \in Clients, ReadFails(c) PROVE ReadingInv'
  BY <1>4, <1>a, <1>b, <1>c DEF ReadFails
<1>5. ASSUME NEW c \in Clients, Refuse(c) PROVE ReadingInv'
  BY <1>5, <1>a, <1>b, <1>c DEF Refuse
<1>6. ASSUME NEW c \in Clients, SendPage(c) PROVE ReadingInv'
  BY <1>6, <1>a, <1>b, <1>c DEF SendPage
<1>7. ASSUME NEW c \in Clients, NotFound(c) PROVE ReadingInv'
  BY <1>7, <1>a, <1>b, <1>c DEF NotFound
<1>8. ASSUME NEW c \in Clients, RouteStatus(c) PROVE ReadingInv'
  BY <1>8, <1>a, <1>b, <1>c DEF RouteStatus
<1>9. ASSUME NEW c \in Clients, Start(c) PROVE ReadingInv'
  BY <1>9, <1>a, <1>b, <1>c DEF Start
<1>10. ASSUME NEW c \in Clients, Stop(c) PROVE ReadingInv'
  BY <1>10, <1>a, <1>b, <1>c DEF Stop
<1>11. ASSUME NEW c \in Clients, SetMode(c) PROVE ReadingInv'
  BY <1>11, <1>a, <1>b, <1>c DEF SetMode
<1>12. ASSUME NEW c \in Clients, StartSelfTest(c) PROVE ReadingInv'
  BY <1>12, <1>a, <1>b, <1>c DEF StartSelfTest
<1>13. ASSUME NEW c \in Clients, EndSelfTest(c) PROVE ReadingInv'
  BY <1>13, <1>a, <1>b, <1>c DEF EndSelfTest
<1>14. ASSUME NEW c \in Clients, RouteClaim(c) PROVE ReadingInv'
  BY <1>14, <1>a, <1>b, <1>c DEF RouteClaim
<1>15. ASSUME NEW c \in Clients, StatusStep(c) /\ Unrouted /\ UNCHANGED acted PROVE ReadingInv'
  BY <1>15, <1>a, <1>b, <1>c DEF StatusStep, StatusLock, StatusBusy, StatusLook, StatusFallback
<1>16. ASSUME NEW c \in Clients, ClaimGate(c) /\ Unrouted PROVE ReadingInv'
  BY <1>16, <1>a, <1>b, <1>c DEF ClaimGate, Gate
<1>17. ASSUME NEW c \in Clients, ClaimTryLock(c) /\ Unrouted PROVE ReadingInv'
  BY <1>17, <1>a, <1>b, <1>c DEF ClaimTryLock, TryLock
<1>18. ASSUME NEW c \in Clients, ClaimRefresh(c) /\ Unrouted PROVE ReadingInv'
  BY <1>18, <1>a, <1>b, <1>c DEF ClaimRefresh, Refresh
<1>19. ASSUME NEW c \in Clients, Close(c) PROVE ReadingInv'
  BY <1>19, <1>a, <1>b, <1>c DEF Close, Answer
<1>20. ASSUME NEW c \in Clients, ClaimWork(c) /\ Unrouted PROVE ReadingInv'
  BY <1>20, <1>a, <1>b, <1>c DEF ClaimWork, Work
<1>21. ASSUME NEW c \in Clients, Breaks(c) PROVE ReadingInv'
  BY <1>21, <1>a, <1>b, <1>c DEF Breaks, WorkPanics
<1>22. CASE UNCHANGED allVars
  BY <1>22, <1>a, <1>b, <1>c DEF allVars
<1>. QED
  BY <1>1, <1>2, <1>3, <1>4, <1>5, <1>6, <1>7, <1>8, <1>9, <1>10, <1>11, <1>12,
     <1>13, <1>14, <1>15, <1>16, <1>17, <1>18, <1>19, <1>20, <1>21, <1>22
     DEF DashboardNext, Reading, Routing, Handling, Working

-----------------------------------------------------------------------------
(* What a request may do, and what its answer says *)

\* Whoever is admitted may act: with a proper value where the handler asks for one, and
\* anyway where it does not.
LEMMA AdmittedMayAct ==
    ASSUME NEW r \in Request, Admission(r) = "ok", r.method = "POST"
    PROVE  /\ HasValue(r) => MayAct(r)
           /\ r.path \notin {"prepare", "confirm", "mode"} => MayAct(r)
<1>1. r.line /\ HostIsAllowed(r)
  BY DEF Admission
<1>2. CASE IsClaimPost(r)
  <2>1. r.origin = "self" /\ r.json
    BY <1>1, <1>2 DEF Admission, ClaimDecision
  <2>. QED
    BY <1>1, <1>2, <2>1 DEF HostIsAllowed, IsClaimPost, HasValue, MayAct
<1>3. CASE ~IsClaimPost(r)
  <2>1. r.origin # "other"
    BY <1>1, <1>3, DashboardAssumption DEF Admission, OriginIsAllowed
  <2>. QED
    BY <1>1, <1>3, <2>1 DEF HostIsAllowed, IsClaimPost, HasValue, MayAct
<1>. QED
  BY <1>2, <1>3

Acting == ActingInv /\ AnswersAreTrue

\* A handler marks what it does before it answers, and refuses before it does anything.
THEOREM ActingSteps ==
    AccessInv /\ WebTypeOK /\ ActingInv /\ AnswersAreTrue /\ [DashboardNext]_allVars
      => Acting'
<1>. SUFFICES ASSUME AccessInv, WebTypeOK, ActingInv, AnswersAreTrue, [DashboardNext]_allVars
              PROVE  Acting'
  OBVIOUS
<1>a. at \in [Clients -> Places]
  BY DEF AccessInv, TypeOK
<1>b. /\ None \notin Request /\ \A c \in Clients : Requests[c] \subseteq Request
      /\ None \notin Errors \cup Refusals \cup {"ok", "selftest_failed"}
      /\ Errors \cap Refusals = {}
  BY DashboardAssumption, ErrorsAssumption
<1>c. \A r \in Request :
        /\ Admission(r) \in Refusals \cup {"ok"}
        /\ Admission(r) = "ok" /\ r.method = "POST" /\ HasValue(r) => MayAct(r)
        /\ Admission(r) = "ok" /\ r.method = "POST"
             /\ r.path \notin {"prepare", "confirm", "mode"} => MayAct(r)
        /\ r.method \in {"GET", "POST"} /\ r.path \in Paths
  <2>1. \A r \in Request : Admission(r) \in Refusals \cup {"ok"}
    BY DEF Admission, ClaimDecision, Refusals
  <2>. QED
    BY <2>1, AdmittedMayAct DEF Request
<1>. USE DEF WebTypeOK, Acting, ActingInv, AnswersAreTrue, Refusals, IsRoute, Paths, Keep,
     Answers, Route, Go, Reply, Acts, Unrouted, webVars, vars, sharedVars, clientVars
<1>1. CASE (Main \/ PollThread \/ PollPanics) /\ UNCHANGED webVars
  BY <1>1, <1>a, <1>b, <1>c DEF Main, FindHit, FailSearch, SaveHit, LockSlot, Install, Spawn,
       PollThread, PollWakes, PollLock, PollWork, PollRefresh, PollPanics
<1>2. ASSUME NEW c \in Clients, NEW r \in Requests[c], Connect(c, r) PROVE Acting'
  BY <1>2, <1>a, <1>b, <1>c DEF Connect
<1>3. ASSUME NEW c \in Clients, Read(c) PROVE Acting'
  <2>1. PICK n \in 1 .. Buffer :
          /\ at[c] = "read"
          /\ \/ Go(c, "answer") /\ Reply(c, "unreadable")
             \/ Go(c, "route") /\ UNCHANGED reply
             \/ UNCHANGED <<at, reply>>
          /\ UNCHANGED <<request, acted>>
    BY <1>3, ReadStep
  <2>. QED
    BY <2>1, <1>a, <1>b
<1>4. ASSUME NEW c \in Clients, ReadFails(c) PROVE Acting'
  BY <1>4, <1>a, <1>b, <1>c DEF ReadFails
<1>5. ASSUME NEW c \in Clients, Refuse(c) PROVE Acting'
  BY <1>5, <1>a, <1>b, <1>c DEF Refuse
<1>6. ASSUME NEW c \in Clients, SendPage(c) PROVE Acting'
  BY <1>6, <1>a, <1>b, <1>c DEF SendPage
<1>7. ASSUME NEW c \in Clients, NotFound(c) PROVE Acting'
  BY <1>7, <1>a, <1>b, <1>c DEF NotFound
<1>8. ASSUME NEW c \in Clients, RouteStatus(c) PROVE Acting'
  BY <1>8, <1>a, <1>b, <1>c DEF RouteStatus
<1>9. ASSUME NEW c \in Clients, Start(c) PROVE Acting'
  BY <1>9, <1>a, <1>b, <1>c DEF Start
<1>10. ASSUME NEW c \in Clients, Stop(c) PROVE Acting'
  BY <1>10, <1>a, <1>b, <1>c DEF Stop
<1>11. ASSUME NEW c \in Clients, SetMode(c) PROVE Acting'
  BY <1>11, <1>a, <1>b, <1>c DEF SetMode
<1>12. ASSUME NEW c \in Clients, StartSelfTest(c) PROVE Acting'
  BY <1>12, <1>a, <1>b, <1>c DEF StartSelfTest
<1>13. ASSUME NEW c \in Clients, EndSelfTest(c) PROVE Acting'
  BY <1>13, <1>a, <1>b, <1>c DEF EndSelfTest
<1>14. ASSUME NEW c \in Clients, RouteClaim(c) PROVE Acting'
  BY <1>14, <1>a, <1>b, <1>c DEF RouteClaim
<1>15. ASSUME NEW c \in Clients, StatusStep(c) /\ Unrouted /\ UNCHANGED acted PROVE Acting'
  BY <1>15, <1>a, <1>b, <1>c DEF StatusStep, StatusLock, StatusBusy, StatusLook, StatusFallback
<1>16. ASSUME NEW c \in Clients, ClaimGate(c) /\ Unrouted PROVE Acting'
  BY <1>16, <1>a, <1>b, <1>c DEF ClaimGate, Gate
<1>17. ASSUME NEW c \in Clients, ClaimTryLock(c) /\ Unrouted PROVE Acting'
  <2>1. /\ at[c] = "try" /\ UNCHANGED <<request, acted>>
        /\ \/ Go(c, "work") /\ Reply(c, None)
           \/ Go(c, "answer") /\ Reply(c, "claim_busy")
           \/ Go(c, "answer") /\ Reply(c, "no_claim_available")
    BY <1>17 DEF ClaimTryLock, TryLock
  <2>. QED
    BY <2>1, <1>a, <1>b
<1>18. ASSUME NEW c \in Clients, ClaimRefresh(c) /\ Unrouted PROVE Acting'
  BY <1>18, <1>a, <1>b, <1>c DEF ClaimRefresh, Refresh
<1>19. ASSUME NEW c \in Clients, Close(c) PROVE Acting'
  BY <1>19, <1>a, <1>b, <1>c DEF Close, Answer
<1>20. ASSUME NEW c \in Clients, ClaimWork(c) /\ Unrouted PROVE Acting'
  BY <1>20, <1>a, <1>b, <1>c DEF ClaimWork, Work
<1>21. ASSUME NEW c \in Clients, Breaks(c) PROVE Acting'
  BY <1>21, <1>a, <1>b, <1>c DEF Breaks, WorkPanics
<1>22. CASE UNCHANGED allVars
  BY <1>22, <1>a, <1>b, <1>c DEF allVars
<1>. QED
  BY <1>1, <1>2, <1>3, <1>4, <1>5, <1>6, <1>7, <1>8, <1>9, <1>10, <1>11, <1>12,
     <1>13, <1>14, <1>15, <1>16, <1>17, <1>18, <1>19, <1>20, <1>21, <1>22
     DEF DashboardNext, Reading, Routing, Handling, Working

\* All parts together hold in every state.
THEOREM DashboardIsSafe == DashboardSpec => []DashboardInv
<1>1. DashboardInit => DashboardInv
  <2>1. DashboardInit => AccessInv
    BY AccessInit DEF DashboardInit
  <2>. QED
    BY <2>1, ErrorsAssumption DEF DashboardInit, Init, DashboardInv, WebTypeOK, ReadingInv,
       ActingInv, AnswersAreTrue, Refusals
<1>2. DashboardInv /\ [DashboardNext]_allVars => DashboardInv'
  BY AccessStep, ServerSteps, WebTypeStep, ReadingSteps, ActingSteps DEF DashboardInv, Acting
<1>. QED
  BY <1>1, <1>2, PTL DEF DashboardSpec

\* A handler gets a request exactly when it is whole and within the limits, in whatever
\* pieces it comes, and the server never keeps more than the limits allow.
THEOREM RequestsAreReadExactly == DashboardSpec => []ReadingIsExact
<1>1. DashboardInv => ReadingIsExact
  <2>. SUFFICES ASSUME DashboardInv, NEW c \in Clients, at[c] # "idle"
                PROVE  LET r == request[c]
                       IN  /\ at[c] \notin {"idle", "read"} /\ reply[c] # "unreadable" =>
                                Acceptable(r) /\ received[c] >= r.header + Blank + Declared(r)
                           /\ reply[c] = "unreadable" /\ Acceptable(r)
                                /\ r.header + Blank <= MaxHeader + 1 =>
                                received[c] < r.header + Blank + Declared(r) /\ r \in Slow
                           /\ at[c] = "read" => received[c] < MaxHeader + Blank + MaxBody
    BY ErrorsAssumption DEF DashboardInv, WebTypeOK, ReadingIsExact, Refusals
  <2>1. request[c] \in Request /\ received[c] \in Nat /\ received[c] <= Size(request[c])
    BY DEF DashboardInv, WebTypeOK, ReadingInv
  <2>. QED
    BY <2>1, Decision DEF DashboardInv, ReadingInv
<1>. QED
  BY <1>1, DashboardIsSafe, PTL

\* Nothing changes at the request of another page, and the answer tells whether something
\* has changed.
THEOREM AnswersAreEarned == DashboardSpec => []AnswersAreTrue
<1>1. DashboardInv => AnswersAreTrue
  BY DEF DashboardInv
<1>. QED
  BY <1>1, DashboardIsSafe, PTL
=============================================================================
